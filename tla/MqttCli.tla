------------------------------- MODULE MqttCli -------------------------------
(***************************************************************************)
(* The MQTT client of secured_mqtt (mqtt_cli_app.c, mqtt_cli_lwip.c and    *)
(* the commands of mqtt_cli_get_set_cb_func.c): the CLI posts flags to the *)
(* MQTT task, which connects and publishes through lwIP; lwIP's thread     *)
(* answers through callbacks.  The task has no timeout on any wait.        *)
(*                                                                         *)
(* A call between LOCK_TCPIP_CORE and UNLOCK_TCPIP_CORE is one step, as a  *)
(* callback is.  lwIP's MQTT client, its DNS client and the kernel are     *)
(* modelled from how the code uses them.  Clients are never freed by the   *)
(* code, so Clients is the number the heap has room for.                   *)
(***************************************************************************)
EXTENDS Naturals, FiniteSets

CONSTANTS
  Clients,  \* number of MQTT clients the heap has room for
  Msgs,     \* what the user publishes
  Empty,    \* the contents of a cleared buffer
  Torn      \* what is copied from a buffer that changes meanwhile

ASSUME MqttAssumption ==
  /\ Clients \in Nat \ {0}
  /\ Empty \notin Msgs /\ Torn \notin Msgs /\ Empty # Torn

Ids == 1 .. Clients
Null == 0
Texts == Msgs \cup {Empty}

VARIABLES
  flags,      \* mqtt_cli_events
  connected,  \* mqtt_connected
  message,    \* mqtt_msg_publish
  sem,        \* count of the task's own semaphore
  client,     \* mqtt_client
  cli,        \* where the CLI is in a command
  text,       \* the argument of its publish command
  pc,         \* where the MQTT task is
  taken,      \* its local flags
  ret,        \* whether mqtt_cli_lwip_configuration succeeded
  length,     \* the message it took the length of
  dns,        \* the DNS request: none, asked, or its answer posted
  clients,    \* lwIP: the state of each client
  subs,       \* lwIP: the clients with a subscribe request under way
  rivals,     \* history: the clients up when the semaphore was last reset
  handed      \* history: what mqtt_publish was last given since the last publish command

cliVars == <<cli, text, message>>
taskVars == <<pc, taken, ret, length, client, rivals>>
lwipVars == <<clients, connected, subs>>
vars == <<flags, sem, dns, handed, cliVars, taskVars, lwipVars>>

Live == {"connecting", "connected"}
Up == {k \in Ids : clients[k] \in Live}

\* One type invariant: the tokens are at most one for each report of a client.
TypeOK ==
  /\ flags \subseteq {"connect", "publish"}
  /\ taken \subseteq {"connect", "publish"}
  /\ connected \in BOOLEAN /\ ret \in BOOLEAN
  /\ message \in Texts /\ text \in Texts /\ length \in Texts
  /\ handed \in Texts \cup {Torn}
  /\ sem \in Nat
  /\ client \in Ids \cup {Null}
  /\ cli \in {"idle", "connect", "store", "publish"}
  /\ pc \in {"idle", "configure", "resolve", "answer", "create", "reset", "open",
             "wait", "subscribe", "length", "hand", "halted"}
  /\ dns \in {"none", "asked", "posted"}
  /\ clients \in [Ids -> {"none", "new", "connecting", "connected", "closed"}]
  /\ subs \subseteq Ids /\ rivals \subseteq Ids

Init ==
  /\ flags = {} /\ taken = {}
  /\ connected = FALSE /\ ret = FALSE
  /\ message = Empty /\ text = Empty /\ length = Empty /\ handed = Empty
  /\ sem = 0 /\ client = Null
  /\ cli = "idle" /\ pc = "idle" /\ dns = "none"
  /\ clients = [k \in Ids |-> "none"]
  /\ subs = {} /\ rivals = {}

-----------------------------------------------------------------------------
(* The commands.  The CLI's test and its post are two steps: callbacks and  *)
(* the task run between them, and so they do between the clearing of the    *)
(* message buffer, the copy and the post.                                   *)

ConnectTest ==
  /\ cli = "idle" /\ ~connected
  /\ cli' = "connect"
  /\ UNCHANGED <<flags, sem, dns, text, message, handed, taskVars, lwipVars>>

ConnectPost ==
  /\ cli = "connect"
  /\ flags' = flags \cup {"connect"}
  /\ cli' = "idle"
  /\ UNCHANGED <<sem, dns, text, message, handed, taskVars, lwipVars>>

PublishClear(m) ==
  /\ cli = "idle"
  /\ text' = m /\ message' = Empty /\ handed' = Empty
  /\ cli' = "store"
  /\ UNCHANGED <<flags, sem, dns, taskVars, lwipVars>>

PublishStore ==
  /\ cli = "store"
  /\ message' = text
  /\ cli' = "publish"
  /\ UNCHANGED <<flags, sem, dns, text, handed, taskVars, lwipVars>>

PublishPost ==
  /\ cli = "publish"
  /\ flags' = flags \cup {"publish"}
  /\ cli' = "idle"
  /\ UNCHANGED <<sem, dns, text, message, handed, taskVars, lwipVars>>

CliStep ==
  \/ ConnectTest \/ ConnectPost
  \/ \E m \in Msgs : PublishClear(m)
  \/ PublishStore \/ PublishPost

-----------------------------------------------------------------------------
(* The MQTT task.                                                           *)

\* OSFlagPend consumes every flag that is set.
TakeFlags ==
  /\ pc = "idle" /\ flags # {}
  /\ taken' = flags /\ flags' = {}
  /\ pc' = IF "connect" \in flags THEN "configure" ELSE "length"
  /\ UNCHANGED <<sem, dns, ret, length, client, rivals, handed, cliVars, lwipVars>>

\* Mutant: the two flags handled as alternatives.
AfterConnectOnly == pc' = "idle"

\* What follows the handling of the connect flag.
AfterConnect == pc' = IF "publish" \in taken THEN "length" ELSE "idle"

\* A parameter or a certificate may be missing; a name that is not an address or known
\* is asked for.
Configure ==
  /\ pc = "configure"
  /\ \/ ret' = FALSE /\ pc' = "create" /\ UNCHANGED dns
     \/ \E name \in BOOLEAN :
          /\ ret' = TRUE
          /\ pc' = IF name THEN "resolve" ELSE "create"
          /\ dns' = IF name THEN "asked" ELSE dns
  /\ UNCHANGED <<flags, sem, taken, length, client, rivals, handed, cliVars, lwipVars>>

ResolvePend ==
  /\ pc = "resolve"
  /\ pc' = "answer"
  /\ UNCHANGED <<flags, sem, dns, taken, ret, length, client, rivals, handed, cliVars,
                 lwipVars>>

\* The result of the request, an address or NULL, does not change what follows.
Resolved ==
  /\ pc = "answer" /\ dns = "posted"
  /\ dns' = "none"
  /\ pc' = "create"
  /\ UNCHANGED <<flags, sem, taken, ret, length, client, rivals, handed, cliVars, lwipVars>>

\* A new client, whatever the configuration's result; the heap may be full.
CreateClient ==
  /\ pc = "create"
  /\ \/ /\ client' = Null
        /\ AfterConnect
        /\ UNCHANGED clients
     \/ \E k \in Ids :
          /\ \A j \in Ids : clients[j] = "none" <=> j >= k
          /\ clients' = [clients EXCEPT ![k] = "new"]
          /\ client' = k
          /\ IF ret THEN pc' = "reset" ELSE AfterConnect
  /\ UNCHANGED <<flags, sem, dns, taken, ret, length, rivals, handed, cliVars, connected, subs>>

\* Mutant: leaves the semaphore as it is.
ResetSemNot ==
  /\ pc = "reset"
  /\ rivals' = Up
  /\ pc' = "open"
  /\ UNCHANGED <<flags, sem, dns, taken, ret, length, client, handed, cliVars, lwipVars>>

ResetSem ==
  /\ pc = "reset"
  /\ sem' = 0 /\ rivals' = Up
  /\ pc' = "open"
  /\ UNCHANGED <<flags, dns, taken, ret, length, client, handed, cliVars, lwipVars>>

\* mqtt_client_connect may refuse at once, without a callback.
OpenClient ==
  /\ pc = "open"
  /\ \/ AfterConnect /\ UNCHANGED clients
     \/ /\ clients' = [clients EXCEPT ![client] = "connecting"]
        /\ pc' = "wait"
  /\ UNCHANGED <<flags, sem, dns, taken, ret, length, client, rivals, handed, cliVars,
                 connected, subs>>

\* Mutant: does not wait.
WaitResultNot ==
  /\ pc = "wait"
  /\ sem' = sem - 1
  /\ pc' = "subscribe"
  /\ UNCHANGED <<flags, dns, taken, ret, length, client, rivals, handed, cliVars, lwipVars>>

WaitResult ==
  /\ pc = "wait" /\ sem > 0
  /\ sem' = sem - 1
  /\ pc' = "subscribe"
  /\ UNCHANGED <<flags, dns, taken, ret, length, client, rivals, handed, cliVars, lwipVars>>

\* The result of the connection is not asked: lwIP refuses a client that is not up.
Subscribe ==
  /\ pc = "subscribe"
  /\ \/ client \in Up /\ subs' = subs \cup {client}
     \/ UNCHANGED subs
  /\ AfterConnect
  /\ UNCHANGED <<flags, sem, dns, taken, ret, length, client, rivals, handed, cliVars,
                 clients, connected>>

\* strlen reads the buffer before the lock is taken.
TakeLength ==
  /\ pc = "length"
  /\ length' = message
  /\ pc' = "hand"
  /\ UNCHANGED <<flags, sem, dns, taken, ret, client, rivals, handed, cliVars, lwipVars>>

\* mqtt_publish asserts that it is given a client; it copies the buffer.
HandMessage ==
  /\ pc = "hand"
  /\ IF client = Null
     THEN pc' = "halted" /\ UNCHANGED handed
     ELSE /\ handed' = IF message = length THEN message ELSE Torn
          /\ pc' = "idle"
  /\ UNCHANGED <<flags, sem, dns, taken, ret, length, client, rivals, cliVars, lwipVars>>

TaskStep ==
  \/ TakeFlags \/ Configure \/ ResolvePend \/ Resolved \/ CreateClient
  \/ ResetSem \/ OpenClient \/ WaitResult \/ Subscribe
  \/ TakeLength \/ HandMessage

-----------------------------------------------------------------------------
(* lwIP's thread: dns_found_cb, mqtt_connection_cb and the subscribe's      *)
(* callback.  Every client reports to the same function.                    *)

\* The task's message queue was created with no room: a message reaches the task
\* only when it already waits for one.
DnsFound ==
  /\ dns = "asked"
  /\ dns' = IF pc = "answer" THEN "posted" ELSE "none"
  /\ UNCHANGED <<flags, sem, cliVars, handed, taskVars, lwipVars>>

Accepted(k) ==
  /\ clients[k] = "connecting"
  /\ clients' = [clients EXCEPT ![k] = "connected"]
  /\ connected' = TRUE
  /\ sem' = sem + 1
  /\ UNCHANGED <<flags, dns, cliVars, handed, taskVars, subs>>

\* A refusal, a timeout of the connection, or the loss of it.
Disconnected(k) ==
  /\ k \in Up
  /\ clients' = [clients EXCEPT ![k] = "closed"]
  /\ connected' = FALSE
  /\ sem' = sem + 1
  /\ subs' = subs \ {k}
  /\ UNCHANGED <<flags, dns, cliVars, handed, taskVars>>

\* A successful subscription asks for the publication of the buffer.
Subscribed(k) ==
  /\ k \in subs /\ clients[k] = "connected"
  /\ subs' = subs \ {k}
  /\ \/ flags' = flags \cup {"publish"}
     \/ UNCHANGED flags
  /\ UNCHANGED <<sem, dns, cliVars, handed, taskVars, clients, connected>>

Answer(k) == clients[k] = "connecting" /\ (Accepted(k) \/ Disconnected(k))

LwipStep ==
  \/ DnsFound
  \/ \E k \in Ids : Accepted(k) \/ Disconnected(k) \/ Subscribed(k)

Next == CliStep \/ TaskStep \/ LwipStep

Spec == Init /\ [][Next]_vars

\* The CLI finishes a command, the task runs when it can, DNS and the broker
\* answer or time out.
FairSpec ==
  /\ Spec
  /\ WF_vars(ConnectPost \/ PublishStore \/ PublishPost)
  /\ WF_vars(TaskStep)
  /\ WF_vars(DnsFound)
  /\ \A k \in Ids : WF_vars(Answer(k))

-----------------------------------------------------------------------------
\* A wait for the connection result ends with the result of the client it waits
\* for (mqtt_cli_lwip.c 212-226), not with a token left from an earlier connection,
\* unless an earlier client was still up when the semaphore was reset.
WaitedForClient ==
  pc = "subscribe" => client \notin Up \/ clients[client] = "connected" \/ rivals # {}

\* The inductive invariant behind it: without a rival nothing posts between the reset
\* and mqtt_client_connect, and only the client waited for posts after it.
AnswerInv ==
  /\ pc \in {"reset", "open", "wait", "subscribe"} => client # Null
  /\ rivals = {} =>
       /\ pc = "open" => Up = {} /\ sem = 0
       /\ pc = "wait" => Up \subseteq {client} /\ (sem > 0 => clients[client] # "connecting")
       /\ pc = "subscribe" => clients[client] # "connecting"

IInv == TypeOK /\ AnswerInv

\* The two states the task never leaves: mqtt_publish was called without a client, or
\* the answer to the DNS request came before the task waited for it.
Stopped == pc = "halted" \/ (pc = "answer" /\ dns = "none")

\* The message the user published last is handed to lwIP whole, whatever the task
\* was doing and however the buffer changed under it (mqtt_cli_get_set_cb_func.c
\* 92-100), unless the task is stopped.
MessageHanded ==
  \A m \in Msgs :
    (cli = "publish" /\ message = m) ~> (handed = m \/ message # m \/ Stopped)
==============================================================================
