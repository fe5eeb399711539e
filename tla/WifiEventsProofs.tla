-------------------------- MODULE WifiEventsProofs --------------------------
(***************************************************************************)
(* Proofs that WifiEvents keeps its types, accounts for every buffer and   *)
(* leads the interfaces to wifi.state, for any queue length, any set of    *)
(* other indications and any number of refused copies.                     *)
(***************************************************************************)
EXTENDS WifiEvents, TLAPS

\* The accounting is what bounds buffers from below: it is at least the one the
\* events task frees.
IInv == TypeOK /\ BuffersAccounted /\ (epc = "pend" <=> msg = NoMsg)

-----------------------------------------------------------------------------
(* What the queue leads to. *)

\* The last message of a queue has the last word.
LEMMA AppendLeads ==
  ASSUME NEW q \in Seq(Inds), NEW up, NEW S, NEW i \in Interfaces, NEW ind \in Inds,
         LeadsUp(q, up, i) <=> i \in S
  PROVE  LeadsUp(Append(q, ind), up, i) <=> i \in Moved(S, ind)
<1> DEFINE n == Len(q) + 1
           r == Append(q, ind)
<1>1. /\ Len(q) \in Nat
      /\ DOMAIN q = 1 .. Len(q)
      /\ DOMAIN r = 1 .. n
      /\ r[n] = ind
      /\ \A k \in 1 .. Len(q) : r[k] = q[k]
  OBVIOUS
<1>2. CASE ind \in LinkInds /\ Of(ind) = i
  <2>1. n \in About(r, i)
    BY <1>1, <1>2 DEF About
  <2>2. \A j \in About(r, i) : j \in 1 .. n
    BY <1>1 DEF About
  <2>3. LeadsUp(r, up, i) <=> GoesUp(ind)
    BY <1>1, <2>1, <2>2 DEF LeadsUp
  <2>4. i \in Moved(S, ind) <=> GoesUp(ind)
    BY <1>2 DEF Moved
  <2>5. QED
    BY <2>3, <2>4
<1>3. CASE ~(ind \in LinkInds /\ Of(ind) = i)
  <2>1. About(r, i) = About(q, i)
    BY <1>1, <1>3 DEF About
  <2>2. \A k \in About(q, i) : r[k] = q[k]
    BY <1>1 DEF About
  <2>3. LeadsUp(r, up, i) <=> LeadsUp(q, up, i)
    BY <2>1, <2>2 DEF LeadsUp
  <2>4. i \in Moved(S, ind) <=> i \in S
    BY <1>3 DEF Moved
  <2>5. QED
    BY <2>3, <2>4
<1>4. QED
  BY <1>2, <1>3

\* To play the head of a queue does not change where it leads.
LEMMA TailLeads ==
  ASSUME NEW q \in Seq(Inds), q # <<>>, NEW up, NEW i \in Interfaces
  PROVE  LeadsUp(Tail(q), Moved(up, Head(q)), i) <=> LeadsUp(q, up, i)
<1> DEFINE t == Tail(q)
           n == Len(q)
<1>1. /\ n \in Nat \ {0}
      /\ DOMAIN q = 1 .. n
      /\ t \in Seq(Inds)
      /\ Len(t) = n - 1
      /\ Head(q) = q[1]
      /\ \A k \in 1 .. n - 1 : t[k] = q[k + 1]
  OBVIOUS
<1>2. DOMAIN t = 1 .. n - 1
  BY <1>1
<1>3. \A k \in 1 .. n - 1 : k \in About(t, i) <=> k + 1 \in About(q, i)
  BY <1>1, <1>2 DEF About
<1>4. /\ About(t, i) \subseteq 1 .. n - 1
      /\ About(q, i) \subseteq 1 .. n
  BY <1>1, <1>2 DEF About
<1>5. CASE About(t, i) = {}
  <2>1. About(q, i) \subseteq {1}
    <3>1. ASSUME NEW k \in About(q, i), k # 1 PROVE FALSE
      <4>1. k - 1 \in 1 .. n - 1 /\ (k - 1) + 1 = k
        BY <1>1, <1>4, <3>1
      <4>2. QED
        BY <1>3, <1>5, <3>1, <4>1
    <3>2. QED
      BY <3>1
  <2>2. 1 \in About(q, i) <=> (Head(q) \in LinkInds /\ Of(Head(q)) = i)
    BY <1>1 DEF About
  <2>3. CASE 1 \in About(q, i)
    <3>1. LeadsUp(q, up, i) <=> GoesUp(Head(q))
      BY <1>1, <2>1, <2>3 DEF LeadsUp
    <3>2. i \in Moved(up, Head(q)) <=> GoesUp(Head(q))
      BY <2>2, <2>3 DEF Moved
    <3>3. QED
      BY <1>5, <3>1, <3>2 DEF LeadsUp
  <2>4. CASE 1 \notin About(q, i)
    <3>1. About(q, i) = {}
      BY <2>1, <2>4
    <3>2. i \in Moved(up, Head(q)) <=> i \in up
      BY <2>2, <2>4 DEF Moved
    <3>3. QED
      BY <1>5, <3>1, <3>2 DEF LeadsUp
  <2>5. QED
    BY <2>3, <2>4
<1>6. CASE About(t, i) # {}
  <2>1. PICK m \in About(t, i) : m \in 1 .. n - 1 /\ m + 1 \in About(q, i)
    BY <1>3, <1>4, <1>6
  <2>2. ASSUME LeadsUp(t, Moved(up, Head(q)), i) PROVE LeadsUp(q, up, i)
    <3>1. PICK k \in About(t, i) : GoesUp(t[k]) /\ \A j \in About(t, i) : j <= k
      BY <1>6, <2>2 DEF LeadsUp
    <3>2. k \in 1 .. n - 1 /\ k + 1 \in About(q, i) /\ GoesUp(q[k + 1])
      BY <1>1, <1>3, <1>4, <3>1
    <3>3. ASSUME NEW j \in About(q, i) PROVE j <= k + 1
      <4>1. j \in 1 .. n
        BY <1>4
      <4>2. CASE j = 1
        BY <1>1, <3>2, <4>2
      <4>3. CASE j # 1
        <5>1. j - 1 \in 1 .. n - 1 /\ (j - 1) + 1 = j
          BY <1>1, <4>1, <4>3
        <5>2. j - 1 \in About(t, i)
          BY <1>3, <5>1
        <5>3. QED
          BY <1>1, <3>1, <3>2, <4>1, <5>2
      <4>4. QED
        BY <4>2, <4>3
    <3>4. QED
      BY <3>2, <3>3 DEF LeadsUp
  <2>3. ASSUME LeadsUp(q, up, i) PROVE LeadsUp(t, Moved(up, Head(q)), i)
    <3>1. PICK k \in About(q, i) : GoesUp(q[k]) /\ \A j \in About(q, i) : j <= k
      BY <2>1, <2>3 DEF LeadsUp
    <3>2. k \in 1 .. n /\ k # 1
      BY <1>1, <1>4, <2>1, <3>1
    <3>3. k - 1 \in 1 .. n - 1 /\ (k - 1) + 1 = k
      BY <1>1, <3>2
    <3>4. k - 1 \in About(t, i) /\ GoesUp(t[k - 1])
      BY <1>1, <1>3, <3>1, <3>3
    <3>5. ASSUME NEW j \in About(t, i) PROVE j <= k - 1
      <4>1. j \in 1 .. n - 1 /\ j + 1 <= k
        BY <1>3, <1>4, <3>1
      <4>2. QED
        BY <1>1, <3>2, <4>1
    <3>6. QED
      BY <1>6, <3>4, <3>5 DEF LeadsUp
  <2>4. QED
    BY <2>2, <2>3
<1>7. QED
  BY <1>5, <1>6

-----------------------------------------------------------------------------
(* Types and accounting. *)

\* A callback adds at most one message, its copy, and nothing it does moves the
\* events task.
LEMMA IndicateKeeps ==
  ASSUME IInv, NEW ind \in Inds, Indicate(ind)
  PROVE  IInv'
<1> USE EventsAssumption DEF IInv, BuffersAccounted, Indicate, taskVars, powerVars
<1>1. wifi_state' \subseteq Interfaces
  BY DEF TypeOK, Moved, Of, Interfaces
<1>2. Lose(ind) => lost' \subseteq Interfaces
  BY DEF TypeOK, Lose, Of, Interfaces
<1>3. CASE QueueCopy(ind)
  <2>1. /\ wifi_events' \in Seq(Inds)
        /\ Len(wifi_events') = Len(wifi_events) + 1
        /\ Len(wifi_events) \in Nat
    BY <1>3 DEF TypeOK, QueueCopy
  <2>2. QED
    BY <1>1, <1>3, <2>1 DEF TypeOK, QueueCopy
<1>4. CASE RefuseCopy(ind)
  <2>1. Len(wifi_events) \in Nat
    BY DEF TypeOK
  <2>2. UNCHANGED <<wifi_events, epc, msg, netif_up, power_save, by_user>>
    BY <1>4 DEF RefuseCopy
  <2>3. TypeOK'
    BY <1>1, <1>2, <1>4, <2>2 DEF TypeOK, RefuseCopy
  <2>4. BuffersAccounted'
    <3> DEFINE held == IF epc = "pend" THEN 0 ELSE 1
    <3>1. held \in Nat /\ held' = held
      BY <2>2
    <3>2. /\ Len(wifi_events)' = Len(wifi_events)
          /\ overflows' = overflows + 1
          /\ buffers' = buffers + 1
          /\ buffers = Len(wifi_events) + held + overflows
          /\ overflows \in Nat
      BY <1>4, <2>2 DEF TypeOK, RefuseCopy
    <3> HIDE DEF held
    <3>3. buffers' = Len(wifi_events)' + held' + overflows'
      <4> HIDE DEF IInv, BuffersAccounted, Indicate, taskVars, powerVars
      <4>1. Len(wifi_events) + held + overflows + 1 = Len(wifi_events) + held + (overflows + 1)
        BY <2>1, <3>1, <3>2
      <4>2. QED
        BY <3>1, <3>2, <4>1
    <3>4. QED
      BY <3>3 DEF held
  <2>5. QED
    BY <2>2, <2>3, <2>4
<1>5. CASE DropInd(ind)
  BY <1>1, <1>2, <1>5 DEF TypeOK, DropInd
<1>6. QED
  BY <1>3, <1>4, <1>5

LEMMA CallbackIndicates ==
  ASSUME Callback PROVE \E ind \in Inds : Indicate(ind)
BY DEF Callback, sl_wfx_connect_callback, sl_wfx_disconnect_callback,
       sl_wfx_start_ap_callback, sl_wfx_stop_ap_callback, sl_wfx_scan_complete_callback,
       other_callback, Inds, ResumeInds, LinkInds

\* The types, and the copies in the queue, in the events task's hands and refused.
THEOREM IInvInvariant == Spec => []IInv
<1>1. Init => IInv
  <2>1. <<>> \in Seq(Inds) /\ Len(<<>>) = 0
    OBVIOUS
  <2>2. Init => TypeOK
    <3>1. Init => wifi_events \in Seq(Inds)
      BY <2>1 DEF Init
    <3>2. Init => power_save \in BOOLEAN /\ by_user \in BOOLEAN
      BY DEF Init
    <3>3. QED
      BY <3>1, <3>2 DEF Init, TypeOK
  <2>3. Init => BuffersAccounted
    BY <2>1 DEF Init, BuffersAccounted
  <2>4. QED
    BY <2>2, <2>3 DEF Init, IInv
<1>2. ASSUME IInv, [Next]_eventsVars PROVE IInv'
  <2> USE EventsAssumption DEF IInv, BuffersAccounted
  <2>1. CASE Callback
    BY <1>2, <2>1, CallbackIndicates, IndicateKeeps
  <2>2. CASE TakeMessage
    <3>1. /\ wifi_events' \in Seq(Inds)
          /\ Len(wifi_events') = Len(wifi_events) - 1
          /\ Len(wifi_events) \in Nat
          /\ Head(wifi_events) \in Inds
      BY <1>2, <2>2 DEF TypeOK, TakeMessage
    <3>2. netif_up' \subseteq Interfaces
      BY <1>2, <2>2 DEF TypeOK, TakeMessage, Moved, Of, Interfaces
    <3>3. epc' \in {"power_test", "resume", "free"} /\ epc = "pend"
      BY <2>2 DEF TakeMessage
    <3>4. QED
      BY <1>2, <2>2, <3>1, <3>2, <3>3 DEF TypeOK, TakeMessage, powerVars
  <2>3. CASE PowerTest
    BY <1>2, <2>3 DEF TypeOK, PowerTest, AfterPower, queueVars, powerVars
  <2>4. CASE PowerSet
    BY <1>2, <2>4 DEF TypeOK, PowerSet, AfterPower, queueVars
  <2>5. CASE Resume
    BY <1>2, <2>5 DEF TypeOK, Resume, AfterResume, queueVars, powerVars
  <2>6. CASE FreeMessage
    <3>1. Len(wifi_events) \in Nat
      BY <1>2 DEF TypeOK
    <3>2. buffers' \in Nat
      BY <1>2, <2>6, <3>1 DEF TypeOK, FreeMessage
    <3>3. QED
      BY <1>2, <2>6, <3>1, <3>2 DEF TypeOK, FreeMessage, powerVars
  <2>7. CASE wifi_station_power_mode
    BY <1>2, <2>7 DEF TypeOK, wifi_station_power_mode, queueVars
  <2>8. CASE UNCHANGED eventsVars
    BY <1>2, <2>8 DEF TypeOK, eventsVars, queueVars, taskVars, powerVars
  <2>9. QED
    BY <1>2, <2>1, <2>2, <2>3, <2>4, <2>5, <2>6, <2>7, <2>8 DEF Next, EventsStep
<1>3. QED
  BY <1>1, <1>2, PTL DEF Spec

\* Every variable of the events keeps its type.
THEOREM TypeCorrect == Spec => []TypeOK
<1>1. IInv => TypeOK
  BY DEF IInv
<1>2. QED
  BY <1>1, IInvInvariant, PTL

\* The driver's buffers are lost by a full queue and by nothing else.
THEOREM BuffersAreAccounted == Spec => []BuffersAccounted
<1>1. IInv => BuffersAccounted
  BY DEF IInv
<1>2. QED
  BY <1>1, IInvInvariant, PTL

-----------------------------------------------------------------------------
(* The queue and the state. *)

\* An indication that is queued moves the state and the queue's last word alike; one
\* that is not puts its interface among the lost.
LEMMA IndicateLeads ==
  ASSUME TypeOK, QueueLeadsToState, NEW ind \in Inds, Indicate(ind)
  PROVE  QueueLeadsToState'
<1> SUFFICES ASSUME NEW i \in Interfaces, i \notin lost'
             PROVE  LeadsUp(wifi_events', netif_up', i) <=> i \in wifi_state'
  BY DEF QueueLeadsToState
<1>1. wifi_events \in Seq(Inds)
  BY DEF TypeOK
<1>2. netif_up' = netif_up /\ wifi_state' = Moved(wifi_state, ind)
  BY DEF Indicate, taskVars
<1>3. CASE QueueCopy(ind)
  <2>1. LeadsUp(wifi_events, netif_up, i) <=> i \in wifi_state
    BY <1>3 DEF QueueCopy, QueueLeadsToState
  <2>2. LeadsUp(Append(wifi_events, ind), netif_up, i) <=> i \in Moved(wifi_state, ind)
    BY <1>1, <2>1, AppendLeads
  <2>3. QED
    BY <1>2, <1>3, <2>2 DEF QueueCopy
<1>4. CASE RefuseCopy(ind) \/ DropInd(ind)
  <2>1. wifi_events' = wifi_events /\ Lose(ind)
    BY <1>4 DEF RefuseCopy, DropInd
  <2>2. i \notin lost /\ ~(ind \in LinkInds /\ Of(ind) = i)
    BY <2>1 DEF Lose
  <2>3. i \in Moved(wifi_state, ind) <=> i \in wifi_state
    BY <2>2 DEF Moved
  <2>4. LeadsUp(wifi_events, netif_up, i) <=> i \in wifi_state
    BY <2>2 DEF QueueLeadsToState
  <2>5. QED
    BY <1>2, <2>1, <2>3, <2>4
<1>5. QED
  BY <1>3, <1>4 DEF Indicate

\* wifi.state and the interfaces agree once the queue is played, for every interface
\* no indication was lost of.
THEOREM InterfacesFollow == Spec => []QueueLeadsToState
<1>1. Init => QueueLeadsToState
  <2>1. Init => \A i \in Interfaces : About(wifi_events, i) = {}
    BY DEF Init, About
  <2>2. QED
    BY <2>1 DEF Init, QueueLeadsToState, LeadsUp
<1>2. ASSUME TypeOK, QueueLeadsToState, [Next]_eventsVars PROVE QueueLeadsToState'
  <2>1. CASE Callback
    BY <1>2, <2>1, CallbackIndicates, IndicateLeads
  <2>2. CASE TakeMessage
    <3> SUFFICES ASSUME NEW i \in Interfaces, i \notin lost'
                 PROVE  LeadsUp(wifi_events', netif_up', i) <=> i \in wifi_state'
      BY DEF QueueLeadsToState
    <3>1. wifi_events \in Seq(Inds) /\ wifi_events # <<>>
      BY <1>2, <2>2 DEF TypeOK, TakeMessage
    <3>2. /\ wifi_events' = Tail(wifi_events)
          /\ netif_up' = Moved(netif_up, Head(wifi_events))
          /\ wifi_state' = wifi_state
          /\ lost' = lost
      BY <2>2 DEF TakeMessage
    <3>3. LeadsUp(wifi_events, netif_up, i) <=> i \in wifi_state
      BY <1>2, <3>2 DEF QueueLeadsToState
    <3>4. LeadsUp(Tail(wifi_events), Moved(netif_up, Head(wifi_events)), i)
            <=> LeadsUp(wifi_events, netif_up, i)
      BY <3>1, TailLeads
    <3>5. QED
      BY <3>2, <3>3, <3>4
  <2>3. CASE \/ PowerTest \/ PowerSet \/ Resume \/ FreeMessage
             \/ wifi_station_power_mode \/ UNCHANGED eventsVars
    <3>1. UNCHANGED <<wifi_state, wifi_events, netif_up, lost>>
      BY <2>3 DEF PowerTest, PowerSet, Resume, FreeMessage, wifi_station_power_mode,
                  eventsVars, queueVars, taskVars
    <3>2. QED
      BY <1>2, <3>1 DEF QueueLeadsToState, LeadsUp, About
  <2>4. QED
    BY <1>2, <2>1, <2>2, <2>3 DEF Next, EventsStep
<1>3. QED
  BY <1>1, <1>2, TypeCorrect, PTL DEF Spec

-----------------------------------------------------------------------------
(* The power mode. *)

\* An indication that is queued is left in the queue; one that is not changes nothing
\* about its interface but that it is lost.
LEMMA IndicatePlayed ==
  ASSUME TypeOK, NEW ind \in Inds, Indicate(ind), NEW i \in Interfaces, i \notin lost',
         Played(i)'
  PROVE  /\ Played(i)
         /\ i \notin lost
         /\ i \in wifi_state' <=> i \in wifi_state
<1>1. wifi_events \in Seq(Inds)
  BY DEF TypeOK
<1>2. wifi_state' = Moved(wifi_state, ind)
  BY DEF Indicate
<1>3. ~(ind \in LinkInds /\ Of(ind) = i) /\ Played(i) /\ i \notin lost
  <2>1. CASE QueueCopy(ind)
    <3>1. wifi_events' = Append(wifi_events, ind) /\ lost' = lost
      BY <2>1 DEF QueueCopy
    <3>2. /\ DOMAIN wifi_events = 1 .. Len(wifi_events)
          /\ DOMAIN wifi_events' = 1 .. Len(wifi_events) + 1
          /\ Len(wifi_events) \in Nat
          /\ wifi_events'[Len(wifi_events) + 1] = ind
          /\ \A k \in 1 .. Len(wifi_events) : wifi_events'[k] = wifi_events[k]
      BY <1>1, <3>1
    <3>3. QED
      BY <3>1, <3>2 DEF Played, About
  <2>2. CASE RefuseCopy(ind) \/ DropInd(ind)
    BY <2>2 DEF RefuseCopy, DropInd, Lose, Played, About
  <2>3. QED
    BY <2>1, <2>2 DEF Indicate
<1>4. QED
  BY <1>2, <1>3 DEF Moved

\* An empty promise: with nothing queued about an interface, it is where it will be.
LEMMA PlayedAgrees ==
  ASSUME QueueLeadsToState, NEW i \in Interfaces, i \notin lost, Played(i)
  PROVE  i \in netif_up <=> i \in wifi_state
BY DEF QueueLeadsToState, LeadsUp, Played

\* A message about interface i that is taken is the last one only when it leaves
\* the interface as wifi.state says; another message changes nothing about i.
LEMMA TakePlayed ==
  ASSUME TypeOK, QueueLeadsToState', TakeMessage,
         NEW i \in Interfaces, i \notin lost, Played(i)'
  PROVE  LET ind == Head(wifi_events)
         IN IF ind \in LinkInds /\ Of(ind) = i
            THEN GoesUp(ind) <=> i \in wifi_state
            ELSE Played(i)
<1>1. wifi_events \in Seq(Inds) /\ wifi_events # <<>>
  BY DEF TypeOK, TakeMessage
<1>2. /\ wifi_events' = Tail(wifi_events)
      /\ netif_up' = Moved(netif_up, Head(wifi_events))
      /\ wifi_state' = wifi_state /\ lost' = lost
  BY DEF TakeMessage
<1>3. i \in netif_up' <=> i \in wifi_state
  BY <1>2 DEF QueueLeadsToState, LeadsUp, Played
<1>4. CASE Head(wifi_events) \in LinkInds /\ Of(Head(wifi_events)) = i
  BY <1>2, <1>3, <1>4 DEF Moved
<1>5. CASE ~(Head(wifi_events) \in LinkInds /\ Of(Head(wifi_events)) = i)
  <2>1. /\ Len(wifi_events) \in Nat \ {0}
        /\ DOMAIN wifi_events = 1 .. Len(wifi_events)
        /\ Tail(wifi_events) \in Seq(Inds)
        /\ Len(Tail(wifi_events)) = Len(wifi_events) - 1
        /\ Head(wifi_events) = wifi_events[1]
        /\ \A k \in 1 .. Len(wifi_events) - 1 : Tail(wifi_events)[k] = wifi_events[k + 1]
    BY <1>1
  <2>2. ASSUME NEW k \in About(wifi_events, i) PROVE FALSE
    <3>1. k \in 1 .. Len(wifi_events) /\ wifi_events[k] \in LinkInds /\ Of(wifi_events[k]) = i
      BY <2>1, <2>2 DEF About
    <3>2. k # 1
      BY <1>5, <2>1, <3>1
    <3>3. k - 1 \in 1 .. Len(wifi_events) - 1 /\ (k - 1) + 1 = k
      BY <2>1, <3>1, <3>2
    <3>4. k - 1 \in DOMAIN Tail(wifi_events) /\ Tail(wifi_events)[k - 1] = wifi_events[k]
      BY <2>1, <3>3
    <3>5. QED
      BY <1>2, <3>1, <3>4 DEF Played, About
  <2>3. QED
    BY <1>5, <2>2 DEF Played
<1>6. QED
  BY <1>4, <1>5

\* What the task knows of its message.
LEMMA MsgInvKept ==
  ASSUME IInv, MsgInv, [Next]_eventsVars
  PROVE  MsgInv'
<1> USE EventsAssumption DEF IInv, MsgInv
<1>1. CASE Callback \/ wifi_station_power_mode \/ UNCHANGED eventsVars
  <2>1. UNCHANGED <<epc, msg, netif_up>>
    BY <1>1, CallbackIndicates
       DEF Indicate, wifi_station_power_mode, eventsVars, taskVars
  <2>2. QED
    BY <2>1
<1>2. CASE TakeMessage
  <2>1. msg' \in {"START_AP", "STOP_AP"} => (msg' = "START_AP" <=> "AP" \in netif_up')
    BY <1>2 DEF TakeMessage, Moved, Of, GoesUp, LinkInds
  <2>2. epc' = "power_test" => msg' = "CONNECT"
    BY <1>2 DEF TakeMessage
  <2>3. epc' # "power_set"
    BY <1>2 DEF TakeMessage
  <2>4. QED
    BY <2>1, <2>2, <2>3
<1>3. CASE PowerTest
  BY <1>3 DEF PowerTest, AfterPower
<1>4. CASE PowerSet
  BY <1>4 DEF PowerSet, AfterPower
<1>5. CASE Resume
  BY <1>5 DEF Resume, AfterResume
<1>6. CASE FreeMessage
  BY <1>6 DEF FreeMessage, Inds, ResumeInds, LinkInds
<1>7. QED
  BY <1>1, <1>2, <1>3, <1>4, <1>5, <1>6 DEF Next, EventsStep

\* A SoftAP that is up has the chip's power save off, or about to be.
LEMMA ApInvKept ==
  ASSUME IInv, QueueLeadsToState, QueueLeadsToState', MsgInv, PowerManager, ApInv,
         [Next]_eventsVars
  PROVE  ApInv'
<1> USE EventsAssumption DEF IInv
<1> SUFFICES ASSUME "AP" \notin lost', "AP" \in wifi_state', Played("AP")'
             PROVE  /\ ~(msg' = "CONNECT" /\ epc' = "power_set")
                    /\ \/ msg' = "START_AP" /\ epc' \in {"resume", "power_set"}
                       \/ by_user' \/ ~power_save'
  BY DEF ApInv
<1>0. "AP" \in Interfaces
  BY DEF Interfaces
<1>1. CASE Callback
  <2>1. PICK ind \in Inds : Indicate(ind)
    BY <1>1, CallbackIndicates
  <2>2. Played("AP") /\ "AP" \notin lost /\ "AP" \in wifi_state
    BY <1>0, <2>1, IndicatePlayed
  <2>3. UNCHANGED <<epc, msg, power_save, by_user>>
    BY <2>1 DEF Indicate, taskVars, powerVars
  <2>4. QED
    BY <2>2, <2>3 DEF ApInv
<1>2. CASE TakeMessage
  <2> DEFINE ind == Head(wifi_events)
  <2>1. /\ msg' = ind /\ lost' = lost /\ wifi_state' = wifi_state /\ epc = "pend"
        /\ epc' # "power_set"
        /\ UNCHANGED <<power_save, by_user>>
    BY <1>2 DEF TakeMessage, powerVars
  <2>2. CASE ind \in LinkInds /\ Of(ind) = "AP"
    <3>1. GoesUp(ind)
      BY <1>0, <1>2, <2>1, <2>2, TakePlayed
    <3>2. ind = "START_AP"
      BY <2>2, <3>1 DEF LinkInds, Of, GoesUp
    <3>3. epc' = "resume"
      BY <1>2, <3>2 DEF TakeMessage, ResumeInds, LinkInds
    <3>4. QED
      BY <2>1, <3>2, <3>3
  <2>3. CASE ~(ind \in LinkInds /\ Of(ind) = "AP")
    <3>1. Played("AP")
      BY <1>0, <1>2, <2>1, <2>3, TakePlayed
    <3>2. QED
      BY <2>1, <3>1 DEF ApInv
  <2>4. QED
    BY <2>2, <2>3
<1>3. CASE PowerTest
  <2>1. /\ UNCHANGED <<wifi_state, wifi_events, lost, msg, power_save, by_user>>
        /\ epc = "power_test"
    BY <1>3 DEF PowerTest, queueVars, powerVars
  <2>2. Played("AP")
    BY <2>1 DEF Played
  <2>3. by_user \/ ~power_save
    BY <2>1, <2>2 DEF ApInv
  <2>4. msg = "CONNECT" => epc' = "resume"
    BY <1>3, <2>1 DEF PowerTest, WantsPowerSave, AfterPower
  <2>5. QED
    BY <2>1, <2>3, <2>4
<1>4. CASE PowerSet
  <2>1. UNCHANGED <<wifi_state, wifi_events, lost, msg, netif_up>> /\ epc = "power_set"
    BY <1>4 DEF PowerSet, queueVars
  <2>2. Played("AP")
    BY <2>1 DEF Played
  <2>3. "AP" \in netif_up
    BY <1>0, <2>1, <2>2, PlayedAgrees
  <2>4. msg # "CONNECT"
    BY <2>1, <2>2 DEF ApInv
  <2>5. msg = "START_AP"
    BY <2>1, <2>3, <2>4 DEF MsgInv
  <2>6. QED
    BY <1>4, <2>1, <2>5 DEF PowerSet
<1>5. CASE Resume \/ FreeMessage
  <2>1. UNCHANGED <<wifi_state, wifi_events, lost, power_save, by_user>>
    BY <1>5 DEF Resume, FreeMessage, queueVars, powerVars
  <2>2. Played("AP")
    BY <2>1 DEF Played
  <2>3. CASE Resume
    BY <2>1, <2>2, <2>3 DEF Resume, AfterResume, ApInv
  <2>4. CASE FreeMessage
    BY <2>1, <2>2, <2>4 DEF FreeMessage, ApInv
  <2>5. QED
    BY <1>5, <2>3, <2>4
<1>6. CASE wifi_station_power_mode
  <2>1. UNCHANGED <<wifi_state, wifi_events, lost, epc, msg>> /\ by_user'
    BY <1>6 DEF wifi_station_power_mode, queueVars
  <2>2. QED
    BY <2>1 DEF ApInv, Played
<1>7. CASE UNCHANGED eventsVars
  BY <1>7 DEF ApInv, Played, eventsVars, queueVars, taskVars, powerVars
<1>8. QED
  BY <1>1, <1>2, <1>3, <1>4, <1>5, <1>6, <1>7 DEF Next, EventsStep

\* A lone station has the chip's power save on, or about to be.
LEMMA StaInvKept ==
  ASSUME IInv, QueueLeadsToState, QueueLeadsToState', MsgInv, PowerManager, StaInv,
         [Next]_eventsVars
  PROVE  StaInv'
<1> USE EventsAssumption DEF IInv
<1> DEFINE Lone == lost = {} /\ wifi_state = {"STA"} /\ Played("AP") /\ Played("STA")
           Setting == \/ msg = "CONNECT" /\ epc \in {"power_test", "power_set"}
                      \/ msg = "STOP_AP" /\ epc \in {"resume", "power_test", "power_set"}
<1> SUFFICES ASSUME Lone' PROVE Setting' \/ by_user' \/ power_save'
  BY DEF StaInv
<1>0. "AP" \in Interfaces /\ "STA" \in Interfaces
  BY DEF Interfaces
<1>1. CASE Callback
  <2>1. PICK ind \in Inds : Indicate(ind)
    BY <1>1, CallbackIndicates
  <2>2. /\ Played("AP") /\ "AP" \notin lost /\ "AP" \notin wifi_state
        /\ Played("STA") /\ "STA" \notin lost /\ "STA" \in wifi_state
    BY <1>0, <2>1, IndicatePlayed
  <2>3. lost = {} /\ wifi_state = {"STA"}
    BY <2>2 DEF TypeOK, Interfaces
  <2>4. UNCHANGED <<epc, msg, power_save, by_user>>
    BY <2>1 DEF Indicate, taskVars, powerVars
  <2>5. QED
    BY <2>2, <2>3, <2>4 DEF StaInv
<1>2. CASE TakeMessage
  <2> DEFINE ind == Head(wifi_events)
  <2>1. /\ msg' = ind /\ lost' = lost /\ wifi_state' = wifi_state /\ epc = "pend"
        /\ UNCHANGED <<power_save, by_user>>
    BY <1>2 DEF TakeMessage, powerVars
  <2>2. CASE ind \in LinkInds /\ Of(ind) = "AP"
    <3>1. ~GoesUp(ind)
      BY <1>0, <1>2, <2>1, <2>2, TakePlayed
    <3>2. ind = "STOP_AP"
      BY <2>2, <3>1 DEF LinkInds, Of, GoesUp
    <3>3. epc' = "resume"
      BY <1>2, <3>2 DEF TakeMessage, ResumeInds, LinkInds
    <3>4. QED
      BY <2>1, <3>2, <3>3
  <2>3. CASE ind \in LinkInds /\ Of(ind) = "STA"
    <3>1. GoesUp(ind)
      BY <1>0, <1>2, <2>1, <2>3, TakePlayed
    <3>2. ind = "CONNECT"
      BY <2>3, <3>1 DEF LinkInds, Of, GoesUp
    <3>3. epc' = "power_test"
      BY <1>2, <3>2 DEF TakeMessage, ResumeInds, LinkInds
    <3>4. QED
      BY <2>1, <3>2, <3>3
  <2>4. CASE ind \notin LinkInds
    <3>1. Played("AP") /\ Played("STA")
      BY <1>0, <1>2, <2>1, <2>4, TakePlayed
    <3>2. QED
      BY <2>1, <3>1 DEF StaInv
  <2>5. QED
    BY <2>2, <2>3, <2>4 DEF Of
<1>3. CASE PowerTest
  <2>1. /\ UNCHANGED <<wifi_state, wifi_events, lost, msg, power_save, by_user>>
        /\ epc = "power_test"
    BY <1>3 DEF PowerTest, queueVars, powerVars
  <2>2. Setting \/ by_user \/ power_save
    BY <2>1 DEF StaInv, Played
  <2>3. WantsPowerSave
    BY <2>1 DEF WantsPowerSave
  <2>4. epc' = "power_set"
    BY <1>3, <2>3 DEF PowerTest
  <2>5. QED
    BY <2>1, <2>2, <2>4
<1>4. CASE PowerSet
  <2>1. UNCHANGED <<wifi_state, wifi_events, lost, msg, netif_up>> /\ epc = "power_set"
    BY <1>4 DEF PowerSet, queueVars
  <2>2. Played("AP") /\ "AP" \notin lost /\ "AP" \notin wifi_state
    BY <2>1 DEF Played
  <2>3. "AP" \notin netif_up
    BY <1>0, <2>2, PlayedAgrees
  <2>4. msg # "START_AP"
    BY <2>3 DEF MsgInv
  <2>5. QED
    BY <1>4, <2>4 DEF PowerSet
<1>5. CASE Resume \/ FreeMessage
  <2>1. UNCHANGED <<wifi_state, wifi_events, lost, power_save, by_user>>
    BY <1>5 DEF Resume, FreeMessage, queueVars, powerVars
  <2>2. Setting \/ by_user \/ power_save
    BY <2>1 DEF StaInv, Played
  <2>3. CASE Resume
    BY <2>1, <2>2, <2>3 DEF Resume, AfterResume
  <2>4. CASE FreeMessage
    BY <2>1, <2>2, <2>4 DEF FreeMessage
  <2>5. QED
    BY <1>5, <2>3, <2>4
<1>6. CASE wifi_station_power_mode
  BY <1>6 DEF wifi_station_power_mode
<1>7. CASE UNCHANGED eventsVars
  <2>1. UNCHANGED <<wifi_state, wifi_events, lost, epc, msg, power_save, by_user>>
    BY <1>7 DEF eventsVars, queueVars, taskVars, powerVars
  <2>2. QED
    BY <2>1 DEF StaInv, Played
<1>8. QED
  BY <1>1, <1>2, <1>3, <1>4, <1>5, <1>6, <1>7 DEF Next, EventsStep

\* The power mode follows the interfaces, whatever runs between the test and the set.
THEOREM PowerInvariant == Spec => []PowerInv
<1>1. Init => PowerInv
  BY EventsAssumption
     DEF Init, PowerInv, MsgInv, ApInv, StaInv, Inds, ResumeInds, LinkInds
<1>2. /\ IInv /\ QueueLeadsToState /\ QueueLeadsToState'
      /\ PowerInv /\ [Next]_eventsVars
      => PowerInv'
  BY MsgInvKept, ApInvKept, StaInvKept DEF PowerInv
<1>3. QED
  BY <1>1, <1>2, IInvInvariant, InterfacesFollow, PTL DEF Spec

\* Once the events are handled, power save is off with a SoftAP and on with a lone
\* station, unless the user chose otherwise or an indication was lost.
THEOREM PowerSettles == Spec => []PowerSaveSettles
<1>1. TypeOK /\ PowerInv => PowerSaveSettles
  <2> SUFFICES ASSUME TypeOK, PowerInv, PowerManager, Drained, lost = {}, ~by_user
               PROVE  /\ "AP" \in wifi_state => ~power_save
                      /\ wifi_state = {"STA"} => power_save
    BY DEF PowerSaveSettles
  <2>1. Played("AP") /\ Played("STA")
    BY DEF Drained, Played, About
  <2>2. epc = "pend"
    BY DEF Drained
  <2>3. QED
    BY <2>1, <2>2 DEF PowerInv, ApInv, StaInv
<1>2. QED
  BY <1>1, TypeCorrect, PowerInvariant, PTL
=============================================================================
