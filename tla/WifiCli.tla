------------------------------- MODULE WifiCli -------------------------------
(***************************************************************************)
(* The commands of the Wi-Fi CLI that drive the chip (wifi_station_connect *)
(* and its siblings, wifi_cli_get_set_cb_func.c), composed with the        *)
(* indications and the events task of WifiEvents and the semaphore of      *)
(* CliSem: a command writes to the chip and waits; the chip's indication   *)
(* comes round by the events task and resumes the CLI.                     *)
(***************************************************************************)
EXTENDS Naturals, Sequences

CONSTANTS
  QueueMax,     \* of WifiEvents
  RetryMax,     \* retries of the scan of a connect
  SemCtrMax,    \* of CliSem
  NoEvent,      \* no message, no awaited event
  AllocMayFail, \* of WifiEvents
  MaxInds       \* bound on the indications of the chip

VARIABLES
  cli_state, event_type, sem_ctr, cpc, want, err, ppc, pev, granted, used, \* CliSem
  wifi_state, wifi_events, buffers, netif_up, epc, msg, power_save, by_user,
  lost, overflows,                                                    \* WifiEvents
  resuming,     \* whether the events task is inside wifi_cli_resume
  cmd,          \* the CLI's command and its step
  retry_cnt,
  listed,       \* whether scan_list holds the wanted access point
  device,       \* the commands the chip works on
  inds          \* indications so far, see MaxInds

EventsTask == "wfx_events_task"

Evt == INSTANCE WifiEvents WITH
         OtherInds <- {}, NoMsg <- NoEvent, MaxOverflows <- MaxInds, PowerManager <- FALSE

Sem == INSTANCE CliSem WITH
         Events <- Evt!ResumeInds, Posters <- {EventsTask},
         Posts <- [p \in {EventsTask} |-> Evt!ResumeInds], MaxGrants <- MaxInds

ASSUME CliAssumption ==
  /\ QueueMax \in Nat \ {0}
  /\ RetryMax \in Nat
  /\ SemCtrMax \in Nat \ {0}
  /\ NoEvent \notin Evt!ResumeInds
  /\ AllocMayFail \in BOOLEAN
  /\ MaxInds \in Nat

semVars == <<cli_state, event_type, sem_ctr, cpc, want, err, ppc, pev, granted, used>>
eventsVars == <<wifi_state, wifi_events, buffers, netif_up, epc, msg, power_save, by_user,
                lost, overflows>>
cmdVars == <<cmd, retry_cnt>>
chipVars == <<listed, device, inds>>
vars == <<semVars, eventsVars, resuming, cmdVars, chipVars>>

Idle == [name |-> "none", step |-> "prompt"]
Commands == {"connect", "disconnect", "scan", "start_softap", "stop_softap"}
Steps == {"scan", "scan_wait", "scan_next", "send", "wait"}

TypeOK ==
  /\ Sem!TypeOK
  /\ Evt!TypeOK
  /\ resuming \in BOOLEAN
  /\ cmd = Idle \/ cmd \in [name : Commands, step : Steps]
  /\ retry_cnt \in 0 .. RetryMax + 1
  /\ listed \in BOOLEAN
  /\ device \subseteq {"scan", "join", "disconnect", "start_ap", "stop_ap"}
  /\ inds \in 0 .. MaxInds

Init ==
  /\ Sem!Init
  /\ Evt!Init
  /\ resuming = FALSE
  /\ cmd = Idle
  /\ retry_cnt = 0
  /\ listed = FALSE
  /\ device = {}
  /\ inds = 0

-----------------------------------------------------------------------------
(* The chip and the callbacks of the bus task. *)

\* The chip has done what it was asked, or the access point is gone.  A failure is
\* not indicated to anybody: such a request stays without an answer.
Indicated(action, request) ==
  /\ action
  /\ inds < MaxInds
  /\ inds' = inds + 1
  /\ device' = device \ {request}
  /\ UNCHANGED <<semVars, resuming, cmdVars>>

Connected == "join" \in device /\ Indicated(Evt!sl_wfx_connect_callback, "join")
Disconnected == Indicated(Evt!sl_wfx_disconnect_callback, "disconnect")
ApStarted == "start_ap" \in device /\ Indicated(Evt!sl_wfx_start_ap_callback, "start_ap")
ApStopped == "stop_ap" \in device /\ Indicated(Evt!sl_wfx_stop_ap_callback, "stop_ap")
ScanCompleted == "scan" \in device /\ Indicated(Evt!sl_wfx_scan_complete_callback, "scan")

Indication ==
  /\ Connected \/ Disconnected \/ ApStarted \/ ApStopped \/ ScanCompleted
  /\ UNCHANGED listed

\* A result of the running scan, in the bus task too, is the wanted AP.
ScanResult ==
  /\ "scan" \in device
  /\ listed' = TRUE
  /\ UNCHANGED <<semVars, eventsVars, resuming, cmdVars, device, inds>>

-----------------------------------------------------------------------------
(* The events task. *)

OutsideResume ==
  /\ Evt!TakeMessage \/ Evt!FreeMessage
  /\ UNCHANGED <<semVars, resuming, cmdVars, chipVars>>

ResumeCall ==
  /\ epc = "resume" /\ ~resuming
  /\ Sem!ResumeEnter(EventsTask, msg)
  /\ resuming' = TRUE
  /\ UNCHANGED <<eventsVars, cmdVars, chipVars>>

ResumeStep ==
  /\ Sem!PosterStep(EventsTask)
  /\ UNCHANGED <<eventsVars, resuming, cmdVars, chipVars>>

ResumeReturn ==
  /\ resuming /\ ppc[EventsTask] = "idle"
  /\ Evt!Resume
  /\ resuming' = FALSE
  /\ UNCHANGED <<semVars, cmdVars, chipVars>>

EventsStep == OutsideResume \/ ResumeCall \/ ResumeStep \/ ResumeReturn

-----------------------------------------------------------------------------
(* The CLI. *)

Step(step) == cmd' = [cmd EXCEPT !.step = step]
Done == cmd' = Idle
Start(name, step) == cmd' = [name |-> name, step |-> step]

\* Each command tests the bit of its interface first.
wifi_station_connect == "STA" \notin wifi_state /\ Start("connect", "scan")
wifi_station_disconnect == "STA" \in wifi_state /\ Start("disconnect", "send")
wifi_station_scan == Start("scan", "send")
wifi_start_softap == "AP" \notin wifi_state /\ Start("start_softap", "send")
wifi_stop_softap == "AP" \in wifi_state /\ Start("stop_softap", "send")

\* Mutant: a command clears the semaphore's state before it starts.
EnterClearing ==
  /\ cmd = Idle
  /\ \/ wifi_station_connect \/ wifi_station_disconnect \/ wifi_station_scan
     \/ wifi_start_softap \/ wifi_stop_softap
  /\ retry_cnt' = 0
  /\ cli_state' = "FREE_CLI"
  /\ UNCHANGED <<event_type, sem_ctr, cpc, want, err, ppc, pev, granted, used,
                 eventsVars, resuming, chipVars>>

Enter ==
  /\ cmd = Idle
  /\ \/ wifi_station_connect \/ wifi_station_disconnect \/ wifi_station_scan
     \/ wifi_start_softap \/ wifi_stop_softap
  /\ retry_cnt' = 0
  /\ UNCHANGED <<semVars, eventsVars, resuming, chipVars>>

\* One try of a connect's scan: the list is cleared, then the chip asked.
ScanTry ==
  /\ cmd.step = "scan"
  /\ listed' = FALSE
  /\ \/ device' = device \cup {"scan"} /\ Step("scan_wait")
     \/ UNCHANGED device /\ Step("scan_next")
  /\ UNCHANGED <<semVars, eventsVars, resuming, retry_cnt, inds>>

\* Mutant: the retries are not counted.
ScanNextForever ==
  /\ cmd.step = "scan_next"
  /\ IF retry_cnt < RetryMax THEN Step("scan") ELSE Done
  /\ UNCHANGED <<semVars, eventsVars, resuming, retry_cnt, chipVars>>

\* Mutant: one retry too many.
ScanNextTooFar ==
  /\ cmd.step = "scan_next"
  /\ retry_cnt' = retry_cnt + 1
  /\ IF retry_cnt <= RetryMax THEN Step("scan") ELSE Done
  /\ UNCHANGED <<semVars, eventsVars, resuming, chipVars>>

ScanNext ==
  /\ cmd.step = "scan_next"
  /\ retry_cnt' = retry_cnt + 1
  /\ IF retry_cnt < RetryMax THEN Step("scan") ELSE Done
  /\ UNCHANGED <<semVars, eventsVars, resuming, chipVars>>

\* What a command asks of the chip, and the indication it waits for.
Asks(name) == CASE name = "connect"      -> "join"
                [] name = "disconnect"   -> "disconnect"
                [] name = "scan"         -> "scan"
                [] name = "start_softap" -> "start_ap"
                [] name = "stop_softap"  -> "stop_ap"
Awaits(name) == CASE name = "connect"      -> "CONNECT"
                  [] name = "disconnect"   -> "DISCONNECT"
                  [] name = "scan"         -> "SCAN_COMPLETE"
                  [] name = "start_softap" -> "START_AP"
                  [] name = "stop_softap"  -> "STOP_AP"

\* The chip takes the command or answers with an error, which ends every command
\* but scan.
Send ==
  /\ cmd.step = "send"
  /\ \/ device' = device \cup {Asks(cmd.name)} /\ Step("wait")
     \/ UNCHANGED device /\ (IF cmd.name = "scan" THEN Step("wait") ELSE Done)
  /\ UNCHANGED <<semVars, eventsVars, resuming, retry_cnt, listed, inds>>

Wait ==
  /\ \/ cmd.step = "wait" /\ Sem!WaitEnter(Awaits(cmd.name))
     \/ cmd.step = "scan_wait" /\ Sem!WaitEnter("SCAN_COMPLETE")
  /\ UNCHANGED <<eventsVars, resuming, cmdVars, chipVars>>

WaitStep ==
  /\ \/ Sem!SetPending \/ Sem!SetType \/ Sem!PendTake \/ Sem!PendBlock \/ Sem!PendTimeout
     \/ Sem!WaitLeave
  /\ UNCHANGED <<eventsVars, resuming, cmdVars, chipVars>>

\* A connect goes on to the join when its scan listed the AP.
Waited ==
  /\ Sem!WaitReturn
  /\ IF cmd.step = "wait" THEN Done
     ELSE IF err = "NONE" /\ listed THEN Step("send")
     ELSE Step("scan_next")
  /\ UNCHANGED <<eventsVars, resuming, retry_cnt, chipVars>>

CliStep == ScanTry \/ ScanNext \/ Send \/ Wait \/ WaitStep \/ Waited

-----------------------------------------------------------------------------
Next == Indication \/ ScanResult \/ EventsStep \/ Enter \/ CliStep

Spec == Init /\ [][Next]_vars

\* The kernel runs a ready task, and its tick ends a pend.
FairSpec == Spec /\ WF_vars(CliStep) /\ WF_vars(EventsStep)

-----------------------------------------------------------------------------
(* Properties. *)

\* Every command ends, whatever the chip does: at most RetryMax + 1 scans and one
\* join, each with a timeout (wifi_cli_get_set_cb_func.c 1189-1235).
CommandsEnd == cmd # Idle ~> cmd = Idle

\* The commands and the events task use the semaphore as CliSem says, one wait at
\* a time and one resume for each message: what holds of CliSem holds here.
UsesSemaphore == Sem!Spec

\* The inductive invariant behind TypeOK and UsesSemaphore: the CLI is inside
\* wifi_cli_wait only for a command that waits, and a command that has not ended
\* can still try its scan.
CmdInv ==
  /\ cmd = Idle \/ cmd \in [name : Commands, step : Steps]
  /\ cpc # "idle" => cmd.step \in {"wait", "scan_wait"}
  /\ retry_cnt \in 0 .. RetryMax + 1
  /\ cmd # Idle => retry_cnt <= RetryMax
=============================================================================
