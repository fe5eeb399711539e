------------------------------ MODULE DhcpSwitch ------------------------------
(***************************************************************************)
(* Who starts and stops the SoftAP's DHCP server, and what the flag        *)
(* dhcp_server_started (lwip_host/apps/dhcp_server.c) knows of it.  The    *)
(* bus task sets the SoftAP's bit and queues a message, whatever the       *)
(* events task is doing; the events task starts or stops the server if the *)
(* setting says so; the CLI changes the setting and stops a server that    *)
(* the flag knows.  Both queue a callback for the TCP/IP thread and store  *)
(* the flag in a later step, with no lock: the callback may already have   *)
(* run, and the other task may have queued one of its own.                 *)
(***************************************************************************)
EXTENDS Integers, Sequences

CONSTANTS
  MboxMax,   \* callbacks that fit into the TCP/IP thread's mailbox
  ApMax      \* messages about the SoftAP that fit into the events task's queue

ASSUME SwitchAssumption == MboxMax \in Nat /\ ApMax \in Nat

VARIABLES
  ap_up,                \* the bit SL_WFX_AP_INTERFACE_UP of wifi.state
  ap_events,            \* messages about the SoftAP in the queue wifi_events
  ev,                   \* where the events task is, within such a message
  cli,                  \* where the CLI is, within set_softap_dhcp_server_state
  use_dhcp_server,      \* the setting softap.dhcp_server
  dhcp_server_started,
  mbox,                 \* callbacks in the mailbox of the TCP/IP thread
  running,              \* whether the control block dhcp_pcb exists
  crossed               \* history: whether a task ever queued a callback while the
                        \* other had queued one and not yet stored its flag

switchVars == <<ap_up, ap_events, ev, cli, use_dhcp_server, dhcp_server_started,
                mbox, running, crossed>>

EvPcs == {"idle", "up", "down", "start", "stop", "started", "stopped"}
SettingPcs == {"idle", "write", "ask", "stop", "stopped"}

SwitchTypeOK ==
  /\ ap_up \in BOOLEAN
  /\ ap_events \in Seq({"up", "down"}) /\ Len(ap_events) <= ApMax
  /\ ev \in EvPcs
  /\ cli \in SettingPcs
  /\ use_dhcp_server \in BOOLEAN
  /\ dhcp_server_started \in BOOLEAN
  /\ mbox \in Seq({"START", "STOP"}) /\ Len(mbox) <= MboxMax
  /\ running \in BOOLEAN
  /\ crossed \in BOOLEAN

SwitchInit ==
  /\ ap_up = FALSE
  /\ ap_events = <<>>
  /\ ev = "idle"
  /\ cli = "idle"
  /\ use_dhcp_server = TRUE
  /\ dhcp_server_started = FALSE
  /\ mbox = <<>>
  /\ running = FALSE
  /\ crossed = FALSE

-----------------------------------------------------------------------------
(* The bus task.  The indications have no guard in the code. *)

\* The bit, then a copy of the message, which is lost when there is no buffer or
\* no room in the queue.
ApIndication(event, up) ==
  /\ ap_up' = up
  /\ \/ UNCHANGED ap_events
     \/ Len(ap_events) < ApMax /\ ap_events' = Append(ap_events, event)
  /\ UNCHANGED <<ev, cli, use_dhcp_server, dhcp_server_started, mbox, running, crossed>>

ApStarted == ApIndication("up", TRUE)
ApStopped == ApIndication("down", FALSE)

-----------------------------------------------------------------------------
(* tcpip_callback and the TCP/IP thread. *)

\* Mutant: a callback goes into a full mailbox.
QueueUnchecked(type, overlap) ==
  /\ Len(mbox) <= MboxMax
  /\ mbox' = Append(mbox, type)
  /\ crossed' = (crossed \/ overlap)

\* tcpip_callback succeeds: it waits for room in the mailbox.
Queue(type, overlap) ==
  /\ Len(mbox) < MboxMax
  /\ mbox' = Append(mbox, type)
  /\ crossed' = (crossed \/ overlap)

\* tcpip_callback finds no memory for the message.
Refused == UNCHANGED <<mbox, crossed>>

\* dhcpserver_start_prv, whose udp_new may fail, and dhcpserver_stop_prv.
RunCallback ==
  /\ mbox # <<>>
  /\ mbox' = Tail(mbox)
  /\ running' \in IF Head(mbox) = "START" THEN {running, TRUE} ELSE {FALSE}
  /\ UNCHANGED <<ap_up, ap_events, ev, cli, use_dhcp_server, dhcp_server_started, crossed>>

-----------------------------------------------------------------------------
(* The events task: set_ap_link_up and set_ap_link_down. *)

TakeMessage ==
  /\ ev = "idle" /\ ap_events # <<>>
  /\ ev' = Head(ap_events)
  /\ ap_events' = Tail(ap_events)
  /\ UNCHANGED <<ap_up, cli, use_dhcp_server, dhcp_server_started, mbox, running, crossed>>

TestSetting ==
  /\ ev \in {"up", "down"}
  /\ ev' = IF ~use_dhcp_server THEN "idle" ELSE IF ev = "up" THEN "start" ELSE "stop"
  /\ UNCHANGED <<ap_up, ap_events, cli, use_dhcp_server, dhcp_server_started,
                 mbox, running, crossed>>

\* Mutant: the flag is stored although the callback was refused.
EventsCallbackIgnoreErr ==
  /\ \/ /\ ev = "start" /\ ev' = "started"
        /\ Queue("START", cli = "stopped") \/ Refused
     \/ /\ ev = "stop" /\ ev' = "stopped"
        /\ Queue("STOP", cli = "stopped") \/ Refused
  /\ UNCHANGED <<ap_up, ap_events, cli, use_dhcp_server, dhcp_server_started, running>>

\* dhcpserver_start and dhcpserver_stop: first the callback ...
EventsCallback ==
  /\ \/ /\ ev = "start"
        /\ \/ Queue("START", cli = "stopped") /\ ev' = "started"
           \/ Refused /\ ev' = "idle"
     \/ /\ ev = "stop"
        /\ \/ Queue("STOP", cli = "stopped") /\ ev' = "stopped"
           \/ Refused /\ ev' = "idle"
  /\ UNCHANGED <<ap_up, ap_events, cli, use_dhcp_server, dhcp_server_started, running>>

\* ... then the flag.
EventsStore ==
  /\ ev \in {"started", "stopped"}
  /\ dhcp_server_started' = (ev = "started")
  /\ ev' = "idle"
  /\ UNCHANGED <<ap_up, ap_events, cli, use_dhcp_server, mbox, running, crossed>>

-----------------------------------------------------------------------------
(* The CLI: set_softap_dhcp_server_state with the value the setting has not. *)

\* Accepted while the SoftAP's bit is clear.
set_softap_dhcp_server_state ==
  /\ cli = "idle" /\ ~ap_up
  /\ cli' = "write"
  /\ UNCHANGED <<ap_up, ap_events, ev, use_dhcp_server, dhcp_server_started,
                 mbox, running, crossed>>

SettingWrite ==
  /\ cli = "write"
  /\ use_dhcp_server' = ~use_dhcp_server
  /\ cli' = IF use_dhcp_server THEN "ask" ELSE "idle"
  /\ UNCHANGED <<ap_up, ap_events, ev, dhcp_server_started, mbox, running, crossed>>

\* OFF asks dhcpserver_is_started ...
SettingAsk ==
  /\ cli = "ask"
  /\ cli' = IF dhcp_server_started THEN "stop" ELSE "idle"
  /\ UNCHANGED <<ap_up, ap_events, ev, use_dhcp_server, dhcp_server_started,
                 mbox, running, crossed>>

\* ... and calls dhcpserver_stop: the callback, then the flag.
SettingCallback ==
  /\ cli = "stop"
  /\ \/ Queue("STOP", ev \in {"started", "stopped"}) /\ cli' = "stopped"
     \/ Refused /\ cli' = "idle"
  /\ UNCHANGED <<ap_up, ap_events, ev, use_dhcp_server, dhcp_server_started, running>>

SettingStore ==
  /\ cli = "stopped"
  /\ dhcp_server_started' = FALSE
  /\ cli' = "idle"
  /\ UNCHANGED <<ap_up, ap_events, ev, use_dhcp_server, mbox, running, crossed>>

-----------------------------------------------------------------------------
EventsTask == TakeMessage \/ TestSetting \/ EventsCallback \/ EventsStore
SettingTask ==
  \/ set_softap_dhcp_server_state \/ SettingWrite \/ SettingAsk
  \/ SettingCallback \/ SettingStore

SwitchNext == ApStarted \/ ApStopped \/ RunCallback \/ EventsTask \/ SettingTask

SwitchSpec == SwitchInit /\ [][SwitchNext]_switchVars

-----------------------------------------------------------------------------
(* Properties. *)

\* A server whose callbacks have run is known as started, so that the CLI's OFF
\* does not miss it: unless the events task is between the callback and the store
\* of the flag (dhcp_server.c 511-513), or two tasks have once been there together
\* (512 and 538), after which the flag may be wrong for good.
RunningIsKnown ==
  ~crossed /\ mbox = <<>> /\ running => dhcp_server_started \/ ev = "started"

\* Behind it: as long as no two stores have overlapped, what the flag says or is
\* about to say is what the last callback queued will make of the control block,
\* or what the block is now.
Known ==
  CASE ev = "started" -> TRUE
    [] ev = "stopped" \/ cli = "stopped" -> FALSE
    [] OTHER -> dhcp_server_started

FlagInv ==
  ~crossed =>
    /\ ~(ev \in {"started", "stopped"} /\ cli = "stopped")
    /\ mbox = <<>> /\ running => Known
    /\ mbox # <<>> => (mbox[Len(mbox)] = "START" <=> Known)
=============================================================================
