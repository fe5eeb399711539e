---------------------------- MODULE MqttCliProofs ----------------------------
(***************************************************************************)
(* Theorems about MqttCli: the types, and that the wait for a connection   *)
(* ends with the answer to that connection, for any number of clients and  *)
(* messages.                                                               *)
(***************************************************************************)
EXTENDS MqttCli, TLAPS

-----------------------------------------------------------------------------
(* Types.                                                                   *)

LEMMA CliTyped ==
  ASSUME TypeOK, CliStep
  PROVE  TypeOK'
  <1>1. CASE ConnectTest
    BY <1>1 DEF TypeOK, ConnectTest, taskVars, lwipVars
  <1>2. CASE ConnectPost
    BY <1>2 DEF TypeOK, ConnectPost, taskVars, lwipVars
  <1>3. CASE \E m \in Msgs : PublishClear(m)
    BY <1>3 DEF TypeOK, PublishClear, Texts, taskVars, lwipVars
  <1>4. CASE PublishStore
    BY <1>4 DEF TypeOK, PublishStore, taskVars, lwipVars
  <1>5. CASE PublishPost
    BY <1>5 DEF TypeOK, PublishPost, taskVars, lwipVars
  <1> QED
    BY <1>1, <1>2, <1>3, <1>4, <1>5 DEF CliStep

LEMMA TaskTyped ==
  ASSUME TypeOK, TaskStep
  PROVE  TypeOK'
  <1>1. CASE TakeFlags
    BY <1>1 DEF TypeOK, TakeFlags, cliVars, lwipVars
  <1>2. CASE Configure
    BY <1>2 DEF TypeOK, Configure, cliVars, lwipVars
  <1>3. CASE ResolvePend
    BY <1>3 DEF TypeOK, ResolvePend, cliVars, lwipVars
  <1>4. CASE Resolved
    BY <1>4 DEF TypeOK, Resolved, cliVars, lwipVars
  <1>5. CASE CreateClient
    BY <1>5 DEF TypeOK, CreateClient, AfterConnect, cliVars
  <1>6. CASE ResetSem
    BY <1>6 DEF TypeOK, ResetSem, Up, cliVars, lwipVars
  <1>7. CASE OpenClient
    BY <1>7 DEF TypeOK, OpenClient, AfterConnect, cliVars
  <1>8. CASE WaitResult
    BY <1>8 DEF TypeOK, WaitResult, cliVars, lwipVars
  <1>9. CASE Subscribe
    BY <1>9 DEF TypeOK, Subscribe, AfterConnect, Up, cliVars
  <1>10. CASE TakeLength
    BY <1>10 DEF TypeOK, TakeLength, cliVars, lwipVars
  <1>11. CASE HandMessage
    BY <1>11 DEF TypeOK, HandMessage, cliVars, lwipVars
  <1> QED
    BY <1>1, <1>2, <1>3, <1>4, <1>5, <1>6, <1>7, <1>8, <1>9, <1>10, <1>11 DEF TaskStep

LEMMA LwipTyped ==
  ASSUME TypeOK, LwipStep
  PROVE  TypeOK'
  <1>1. CASE DnsFound
    BY <1>1 DEF TypeOK, DnsFound, cliVars, taskVars, lwipVars
  <1>2. ASSUME NEW k \in Ids, Accepted(k)
        PROVE  TypeOK'
    <2>1. sem' \in Nat /\ connected' \in BOOLEAN
      <3>1. sem \in Nat /\ sem' = sem + 1 /\ connected' = TRUE
        BY <1>2 DEF TypeOK, Accepted
      <3> QED
        BY <3>1
    <2>2. clients' \in [Ids -> {"none", "new", "connecting", "connected", "closed"}]
      BY <1>2 DEF TypeOK, Accepted
    <2> QED
      BY <1>2, <2>1, <2>2 DEF TypeOK, Accepted, cliVars, taskVars
  <1>3. ASSUME NEW k \in Ids, Disconnected(k)
        PROVE  TypeOK'
    <2>1. sem' \in Nat /\ connected' \in BOOLEAN /\ subs' \subseteq Ids
      <3>1. connected' \in BOOLEAN
        BY <1>3 DEF Disconnected
      <3>2. sem' \in Nat
        BY <1>3 DEF TypeOK, Disconnected
      <3>3. subs \subseteq Ids /\ subs' = subs \ {k}
        BY <1>3 DEF TypeOK, Disconnected
      <3>4. subs' \subseteq Ids
        BY <3>3
      <3> QED
        BY <3>1, <3>2, <3>4
    <2>2. clients' \in [Ids -> {"none", "new", "connecting", "connected", "closed"}]
      BY <1>3 DEF TypeOK, Disconnected
    <2> QED
      BY <1>3, <2>1, <2>2 DEF TypeOK, Disconnected, Up, cliVars, taskVars
  <1>4. ASSUME NEW k \in Ids, Subscribed(k)
        PROVE  TypeOK'
    <2>1. subs \subseteq Ids /\ subs' = subs \ {k} /\ flags \subseteq {"connect", "publish"}
          /\ (flags' = flags \cup {"publish"} \/ flags' = flags)
      BY <1>4 DEF TypeOK, Subscribed
    <2>2. subs' \subseteq Ids /\ flags' \subseteq {"connect", "publish"}
      BY <2>1
    <2> QED
      BY <1>4, <2>2 DEF TypeOK, Subscribed, cliVars, taskVars
  <1> QED
    BY <1>1, <1>2, <1>3, <1>4 DEF LwipStep

LEMMA StutterTyped ==
  ASSUME TypeOK, UNCHANGED vars
  PROVE  TypeOK'
  BY DEF TypeOK, vars, cliVars, taskVars, lwipVars

-----------------------------------------------------------------------------
(* The answer to the connection.                                            *)

\* A step that leaves the clients, the semaphore and the task where they are.
LEMMA AnswerKept ==
  ASSUME AnswerInv, UNCHANGED <<pc, client, rivals, sem, clients>>
  PROVE  AnswerInv'
  BY DEF AnswerInv, Up

\* A step of the task to where it does not wait for an answer.
LEMMA AnswerElsewhere ==
  ASSUME pc' \notin {"reset", "open", "wait", "subscribe"}
  PROVE  AnswerInv'
  BY DEF AnswerInv

LEMMA TaskAnswer ==
  ASSUME IInv, TaskStep
  PROVE  AnswerInv'
  <1> USE DEF IInv
  <1>1. CASE TakeFlags \/ Configure \/ ResolvePend \/ Resolved \/ Subscribe \/ TakeLength
              \/ HandMessage
    BY <1>1, AnswerElsewhere
       DEF TakeFlags, Configure, ResolvePend, Resolved, Subscribe, AfterConnect, TakeLength,
           HandMessage
  <1>2. CASE CreateClient
    <2>1. pc' = "reset" => client' # Null
      BY <1>2 DEF CreateClient, AfterConnect, Ids, Null
    <2>2. pc' \in {"reset", "length", "idle"}
      BY <1>2 DEF CreateClient, AfterConnect
    <2> QED
      BY <2>1, <2>2 DEF AnswerInv
  <1>3. CASE ResetSem
    <2>1. pc = "reset" /\ pc' = "open" /\ client' = client /\ sem' = 0 /\ rivals' = Up
          /\ clients' = clients
      BY <1>3 DEF ResetSem, lwipVars
    <2>2. Up' = Up
      BY <2>1 DEF Up
    <2> QED
      BY <2>1, <2>2 DEF AnswerInv
  <1>4. CASE OpenClient
    <2>1. CASE AfterConnect
      BY <2>1, AnswerElsewhere DEF AfterConnect
    <2>2. CASE pc' = "wait" /\ clients' = [clients EXCEPT ![client] = "connecting"]
      <3>1. pc = "open" /\ client' = client /\ sem' = sem /\ rivals' = rivals
        BY <1>4 DEF OpenClient
      <3>2. client # Null
        BY <3>1 DEF AnswerInv
      <3>3. ASSUME rivals = {}
            PROVE  Up' \subseteq {client} /\ ~(sem > 0)
        <4>1. Up = {} /\ sem = 0
          BY <3>1, <3>3 DEF AnswerInv
        <4>2. \A k \in Ids : k # client => clients'[k] = clients[k]
          BY <2>2 DEF TypeOK
        <4> QED
          BY <4>1, <4>2 DEF Up
      <3> QED
        BY <2>2, <3>1, <3>2, <3>3 DEF AnswerInv
    <2> QED
      BY <1>4, <2>1, <2>2 DEF OpenClient
  <1>5. CASE WaitResult
    BY <1>5 DEF WaitResult, AnswerInv, lwipVars
  <1> QED
    BY <1>1, <1>2, <1>3, <1>4, <1>5 DEF TaskStep

LEMMA CliAnswer ==
  ASSUME IInv, CliStep
  PROVE  AnswerInv'
  BY AnswerKept
     DEF IInv, CliStep, ConnectTest, ConnectPost, PublishClear, PublishStore, PublishPost,
         taskVars, lwipVars

\* A report of client k: k was up, so it is the client waited for or a rival.
LEMMA ReportAnswer ==
  ASSUME IInv, NEW k \in Up, NEW s \in {"connected", "closed"},
         clients' = [clients EXCEPT ![k] = s],
         UNCHANGED <<pc, client, rivals>>, sem' = sem + 1
  PROVE  AnswerInv'
  <1> USE DEF IInv
  <1>1. k \in Ids /\ clients'[k] = s /\ \A j \in Ids : j # k => clients'[j] = clients[j]
    BY DEF TypeOK, Up
  <1>2. Up' \subseteq Up
    BY <1>1 DEF Up, Live
  <1>3. ASSUME rivals = {}
        PROVE  /\ pc # "open"
               /\ pc = "wait" => Up' \subseteq {client} /\ clients'[client] # "connecting"
               /\ pc = "subscribe" => clients'[client] # "connecting"
    <2>1. pc # "open"
      BY <1>3 DEF AnswerInv
    <2>2. ASSUME pc = "wait"
          PROVE  Up' \subseteq {client} /\ clients'[client] # "connecting"
      <3>1. Up \subseteq {client}
        BY <1>3, <2>2 DEF AnswerInv
      <3> QED
        BY <1>1, <1>2, <3>1
    <2>3. ASSUME pc = "subscribe"
          PROVE  clients'[client] # "connecting"
      <3>1. client \in Ids /\ clients[client] # "connecting"
        BY <1>3, <2>3 DEF AnswerInv, TypeOK
      <3> QED
        BY <1>1, <3>1
    <2> QED
      BY <2>1, <2>2, <2>3
  <1> QED
    BY <1>3 DEF AnswerInv

LEMMA LwipAnswer ==
  ASSUME IInv, LwipStep
  PROVE  AnswerInv'
  <1>1. CASE DnsFound
    BY <1>1, AnswerKept DEF IInv, DnsFound, taskVars, lwipVars
  <1>2. ASSUME NEW k \in Ids, Accepted(k)
        PROVE  AnswerInv'
    <2>1. k \in Up
      BY <1>2 DEF Accepted, Up, Live
    <2> QED
      BY <1>2, <2>1, ReportAnswer DEF Accepted, taskVars
  <1>3. ASSUME NEW k \in Ids, Disconnected(k)
        PROVE  AnswerInv'
    BY <1>3, ReportAnswer DEF Disconnected, taskVars
  <1>4. ASSUME NEW k \in Ids, Subscribed(k)
        PROVE  AnswerInv'
    BY <1>4, AnswerKept DEF IInv, Subscribed, taskVars
  <1> QED
    BY <1>1, <1>2, <1>3, <1>4 DEF LwipStep

-----------------------------------------------------------------------------
\* The strengthening of WaitedForClient is an invariant, for any number of clients.
THEOREM IInvInvariant == Spec => []IInv
  <1>1. Init => IInv
    <2>1. Init => TypeOK
      <3>1. Init => clients \in [Ids -> {"none", "new", "connecting", "connected", "closed"}]
        BY DEF Init
      <3>2. Init => flags \subseteq {"connect", "publish"} /\ taken \subseteq {"connect", "publish"}
                    /\ subs \subseteq Ids /\ rivals \subseteq Ids
        BY DEF Init
      <3>3. Init => connected \in BOOLEAN /\ ret \in BOOLEAN
        BY DEF Init
      <3> QED
        BY <3>1, <3>2, <3>3 DEF Init, TypeOK, Texts
    <2>2. Init => AnswerInv
      BY DEF Init, AnswerInv
    <2> QED
      BY <2>1, <2>2 DEF IInv
  <1>2. IInv /\ [Next]_vars => IInv'
    <2> SUFFICES ASSUME IInv, [Next]_vars
                 PROVE  IInv'
      OBVIOUS
    <2>1. CASE CliStep
      BY <2>1, CliTyped, CliAnswer DEF IInv
    <2>2. CASE TaskStep
      BY <2>2, TaskTyped, TaskAnswer DEF IInv
    <2>3. CASE LwipStep
      BY <2>3, LwipTyped, LwipAnswer DEF IInv
    <2>4. CASE UNCHANGED vars
      BY <2>4, StutterTyped, AnswerKept DEF IInv, vars, taskVars, lwipVars
    <2> QED
      BY <2>1, <2>2, <2>3, <2>4 DEF Next
  <1> QED
    BY <1>1, <1>2, PTL DEF Spec

\* The variables keep their types in every behaviour (mqtt_cli_app.c 113-174).
THEOREM TypeCorrect == Spec => []TypeOK
  BY IInvInvariant, PTL DEF IInv

\* The token that ends the wait of mqtt_cli_lwip.c 226 is that of the connection waited
\* for, whenever no earlier client was up at the reset of line 212.
THEOREM AnswerIsOwn == Spec => []WaitedForClient
  <1>1. IInv => WaitedForClient
    BY DEF IInv, TypeOK, AnswerInv, WaitedForClient, Up, Live
  <1> QED
    BY <1>1, IInvInvariant, PTL
==============================================================================
