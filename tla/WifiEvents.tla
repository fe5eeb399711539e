----------------------------- MODULE WifiEvents -----------------------------
(***************************************************************************)
(* How an indication of the Wi-Fi chip reaches the network interfaces      *)
(* (app_wifi_events.c).  The bus task runs the indication's callback,      *)
(* which writes wifi.state and queues a copy of the message; the events    *)
(* task takes the copy, moves the lwIP interface, chooses the chip's power *)
(* mode, resumes the CLI and frees the copy.  So wifi.state runs ahead of  *)
(* the interfaces by what is in the queue.                                 *)
(*                                                                         *)
(* The chip is the environment: it may give any indication at any time.    *)
(***************************************************************************)
EXTENDS Naturals, Sequences

CONSTANTS
  QueueMax,      \* WFX_EVENTS_NB_MAX
  OtherInds,     \* indications queued for another purpose: EXT_AUTH, PS_MODE_ERROR
  NoMsg,         \* the events task holds no message
  AllocMayFail,  \* whether the driver may have no buffer for a copy
  MaxOverflows,  \* bound on the copies a full queue refuses
  PowerManager   \* whether the build has SL_CATALOG_POWER_MANAGER_PRESENT

Interfaces == {"STA", "AP"}
LinkInds == {"CONNECT", "DISCONNECT", "START_AP", "STOP_AP"}
ResumeInds == LinkInds \cup {"SCAN_COMPLETE"}
Inds == ResumeInds \cup OtherInds

ASSUME EventsAssumption ==
  /\ QueueMax \in Nat \ {0}
  /\ OtherInds \cap ResumeInds = {}
  /\ NoMsg \notin Inds
  /\ AllocMayFail \in BOOLEAN
  /\ MaxOverflows \in Nat
  /\ PowerManager \in BOOLEAN

VARIABLES
  wifi_state,   \* wifi.state: the interfaces whose bit is set
  wifi_events,  \* the queue
  buffers,      \* copies allocated and not freed
  netif_up,     \* the lwIP interfaces that are up
  epc,          \* where the events task is
  msg,          \* the message it handles
  power_save,   \* the chip's power mode: PS, or ACTIVE
  by_user,      \* whether the CLI's powermode command set it last
  lost,         \* history: interfaces an indication was lost of
  overflows     \* history: copies the full queue refused

powerVars == <<power_save, by_user>>
queueVars == <<wifi_events, buffers, lost, overflows>>
taskVars == <<epc, msg, netif_up, powerVars>>
eventsVars == <<wifi_state, queueVars, taskVars>>

\* The interface a link indication is about, and whether it goes up.
Of(ind) == IF ind \in {"CONNECT", "DISCONNECT"} THEN "STA" ELSE "AP"
GoesUp(ind) == ind \in {"CONNECT", "START_AP"}

\* The set S of interfaces after a link indication; other indications leave it.
Moved(S, ind) ==
  IF ind \notin LinkInds THEN S
  ELSE IF GoesUp(ind) THEN S \cup {Of(ind)} ELSE S \ {Of(ind)}

TypeOK ==
  /\ wifi_state \subseteq Interfaces
  /\ wifi_events \in Seq(Inds)
  /\ buffers \in Nat
  /\ netif_up \subseteq Interfaces
  /\ epc \in {"pend", "power_test", "power_set", "resume", "free"}
  /\ msg \in Inds \cup {NoMsg}
  /\ power_save \in BOOLEAN
  /\ by_user \in BOOLEAN
  /\ lost \subseteq Interfaces
  /\ overflows \in Nat

Init ==
  /\ wifi_state = {}
  /\ wifi_events = <<>>
  /\ buffers = 0
  /\ netif_up = {}
  /\ epc = "pend"
  /\ msg = NoMsg
  /\ power_save = FALSE
  /\ by_user = FALSE
  /\ lost = {}
  /\ overflows = 0

-----------------------------------------------------------------------------
(* The bus task. *)

\* Mutant: the copy is put at the head of the queue (OS_OPT_POST_LIFO).
QueueCopyLifo(ind) ==
  /\ Len(wifi_events) < QueueMax
  /\ wifi_events' = <<ind>> \o wifi_events
  /\ buffers' = buffers + 1
  /\ UNCHANGED <<lost, overflows>>

QueueCopy(ind) ==
  /\ Len(wifi_events) < QueueMax
  /\ wifi_events' = Append(wifi_events, ind)
  /\ buffers' = buffers + 1
  /\ UNCHANGED <<lost, overflows>>

Lose(ind) == lost' = IF ind \in LinkInds THEN lost \cup {Of(ind)} ELSE lost

\* A full queue refuses the copy; the callback ignores the error and never frees
\* the buffer.
RefuseCopy(ind) ==
  /\ Len(wifi_events) = QueueMax
  /\ overflows < MaxOverflows
  /\ buffers' = buffers + 1
  /\ overflows' = overflows + 1
  /\ Lose(ind)
  /\ UNCHANGED wifi_events

\* No buffer: the indication is dropped.
DropInd(ind) ==
  /\ AllocMayFail
  /\ Lose(ind)
  /\ UNCHANGED <<wifi_events, buffers, overflows>>

\* A callback writes the bit, allocates, copies and posts.
Indicate(ind) ==
  /\ wifi_state' = Moved(wifi_state, ind)
  /\ QueueCopy(ind) \/ RefuseCopy(ind) \/ DropInd(ind)
  /\ UNCHANGED taskVars

\* A connection or a start that failed is reported and not queued: no step.  The
\* guards are not in the code: they say that the chip does not report a connection
\* or a start twice, nor an end without one.
sl_wfx_connect_callback == "STA" \notin wifi_state /\ Indicate("CONNECT")
sl_wfx_disconnect_callback == "STA" \in wifi_state /\ Indicate("DISCONNECT")
sl_wfx_start_ap_callback == "AP" \notin wifi_state /\ Indicate("START_AP")
sl_wfx_stop_ap_callback == "AP" \in wifi_state /\ Indicate("STOP_AP")
sl_wfx_scan_complete_callback == Indicate("SCAN_COMPLETE")
other_callback == \E ind \in OtherInds : Indicate(ind)

-----------------------------------------------------------------------------
(* The events task. *)

\* OSQPend, then set_sta_link_up, set_sta_link_down, set_ap_link_up or
\* set_ap_link_down.
TakeMessage ==
  /\ epc = "pend" /\ wifi_events # <<>>
  /\ wifi_events' = Tail(wifi_events)
  /\ msg' = Head(wifi_events)
  /\ netif_up' = Moved(netif_up, Head(wifi_events))
  /\ epc' = IF Head(wifi_events) \notin ResumeInds THEN "free"
            ELSE IF Head(wifi_events) = "CONNECT" /\ PowerManager THEN "power_test"
            ELSE "resume"
  /\ UNCHANGED <<wifi_state, buffers, lost, overflows, powerVars>>

AfterPower == IF msg = "CONNECT" THEN "resume" ELSE "free"

\* Mutant: CONNECT does not look for a SoftAP.
WantsPowerSaveBlind == msg = "CONNECT" \/ "STA" \in wifi_state

\* On CONNECT unless the SoftAP is up, and on STOP_AP when the station is
\* connected: both look at wifi.state as it is now.
WantsPowerSave ==
  IF msg = "CONNECT" THEN "AP" \notin wifi_state ELSE "STA" \in wifi_state

PowerTest ==
  /\ epc = "power_test"
  /\ epc' = IF WantsPowerSave THEN "power_set" ELSE AfterPower
  /\ UNCHANGED <<wifi_state, queueVars, msg, netif_up, powerVars>>

\* START_AP always switches power save off.
PowerSet ==
  /\ epc = "power_set"
  /\ power_save' = (msg # "START_AP")
  /\ by_user' = FALSE
  /\ epc' = AfterPower
  /\ UNCHANGED <<wifi_state, queueVars, msg, netif_up>>

\* What follows wifi_cli_resume.
AfterResume ==
  IF ~PowerManager THEN "free"
  ELSE CASE msg = "START_AP" -> "power_set"
         [] msg = "STOP_AP"  -> "power_test"
         [] OTHER            -> "free"

\* The call of wifi_cli_resume, which leaves all this alone.
Resume ==
  /\ epc = "resume"
  /\ epc' = AfterResume
  /\ UNCHANGED <<wifi_state, queueVars, msg, netif_up, powerVars>>

\* Mutant: the copy of a scan's end is not freed.
FreeMessageButScan ==
  /\ epc = "free"
  /\ buffers' = IF msg = "SCAN_COMPLETE" THEN buffers ELSE buffers - 1
  /\ msg' = NoMsg
  /\ epc' = "pend"
  /\ UNCHANGED <<wifi_state, wifi_events, lost, overflows, netif_up, powerVars>>

\* Mutant: the copy is freed twice.
FreeMessageTwice ==
  /\ epc = "free"
  /\ buffers' = buffers - 2
  /\ msg' = NoMsg
  /\ epc' = "pend"
  /\ UNCHANGED <<wifi_state, wifi_events, lost, overflows, netif_up, powerVars>>

FreeMessage ==
  /\ epc = "free"
  /\ buffers' = buffers - 1
  /\ msg' = NoMsg
  /\ epc' = "pend"
  /\ UNCHANGED <<wifi_state, wifi_events, lost, overflows, netif_up, powerVars>>

\* The CLI's powermode command: any mode, while the station is connected.  Setting
\* the mode and switching the chip's power save are one step here.
wifi_station_power_mode ==
  /\ "STA" \in wifi_state
  /\ power_save' \in BOOLEAN
  /\ by_user' = TRUE
  /\ UNCHANGED <<wifi_state, queueVars, epc, msg, netif_up>>

-----------------------------------------------------------------------------
Callback ==
  \/ sl_wfx_connect_callback \/ sl_wfx_disconnect_callback
  \/ sl_wfx_start_ap_callback \/ sl_wfx_stop_ap_callback
  \/ sl_wfx_scan_complete_callback \/ other_callback

EventsStep == TakeMessage \/ PowerTest \/ PowerSet \/ Resume \/ FreeMessage

Next == Callback \/ EventsStep \/ wifi_station_power_mode

Spec == Init /\ [][Next]_eventsVars

-----------------------------------------------------------------------------
(* Properties. *)

\* The queued messages about interface i, and where they will leave it: up or not
\* as the last of them says, or as it is now.
About(q, i) == {k \in DOMAIN q : q[k] \in LinkInds /\ Of(q[k]) = i}
LeadsUp(q, up, i) ==
  IF About(q, i) = {} THEN i \in up
  ELSE \E k \in About(q, i) : GoesUp(q[k]) /\ \A j \in About(q, i) : j <= k

\* wifi.state, which the callbacks write at once, and the interfaces, which the
\* events task moves later, agree once the queue is played, unless a copy was lost
\* (app_wifi_events.c 253, 333, 360, 390 against 549-613).
QueueLeadsToState ==
  \A i \in Interfaces \ lost : LeadsUp(wifi_events, netif_up, i) <=> i \in wifi_state

Drained == wifi_events = <<>> /\ epc = "pend"

\* Although power save is chosen from a bit read long after the indication was
\* given, it ends up off with a SoftAP and on with a lone station, if the user left
\* it alone (app_wifi_events.c 568-576, 591-595, 603-611).
PowerSaveSettles ==
  PowerManager /\ Drained /\ lost = {} /\ ~by_user =>
    /\ "AP" \in wifi_state => ~power_save
    /\ wifi_state = {"STA"} => power_save

\* Every copy is in the queue, in the events task's hands, or was refused by the
\* full queue: the driver's pool shrinks by nothing else.
BuffersAccounted ==
  buffers = Len(wifi_events) + (IF epc = "pend" THEN 0 ELSE 1) + overflows

-----------------------------------------------------------------------------
(* The inductive invariant behind PowerSaveSettles. *)

\* Nothing about interface i is left in the queue.
Played(i) == About(wifi_events, i) = {}

\* The message the events task handles is the last word on its interface so far,
\* and the power steps are those of the three messages that have them.
MsgInv ==
  /\ epc \in {"power_test", "power_set"} => msg \in {"CONNECT", "START_AP", "STOP_AP"}
  /\ epc = "power_test" => msg # "START_AP"
  /\ msg \in {"START_AP", "STOP_AP"} => (msg = "START_AP" <=> "AP" \in netif_up)

\* With a SoftAP and all its messages taken, power save is off or about to be; the
\* task cannot be about to switch it on, for a CONNECT that was tested before the
\* SoftAP's indication leaves the START_AP in the queue.
ApInv ==
  "AP" \notin lost /\ "AP" \in wifi_state /\ Played("AP") =>
    /\ ~(msg = "CONNECT" /\ epc = "power_set")
    /\ \/ msg = "START_AP" /\ epc \in {"resume", "power_set"}
       \/ by_user \/ ~power_save

\* With a lone station and all messages taken, power save is on or about to be.
StaInv ==
  /\ lost = {} /\ wifi_state = {"STA"}
  /\ Played("AP") /\ Played("STA")
  => \/ msg = "CONNECT" /\ epc \in {"power_test", "power_set"}
     \/ msg = "STOP_AP" /\ epc \in {"resume", "power_test", "power_set"}
     \/ by_user \/ power_save

PowerInv == MsgInv /\ (PowerManager => ApInv /\ StaInv)
=============================================================================
