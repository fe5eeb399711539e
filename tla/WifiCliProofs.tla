---------------------------- MODULE WifiCliProofs ----------------------------
(***************************************************************************)
(* WifiCli for every queue, chip and number of indications: the commands   *)
(* use the semaphore as CliSem says and leave the events task what         *)
(* WifiEvents says, so the theorems of both hold of the composition.       *)
(***************************************************************************)
EXTENDS WifiCli, TLAPS

EvtP == INSTANCE WifiEventsProofs WITH
          OtherInds <- {}, NoMsg <- NoEvent, MaxOverflows <- MaxInds, PowerManager <- FALSE

SemP == INSTANCE CliSemProofs WITH
          Events <- Evt!ResumeInds, Posters <- {EventsTask},
          Posts <- [p \in {EventsTask} |-> Evt!ResumeInds], MaxGrants <- MaxInds

-----------------------------------------------------------------------------
(* The events task. *)

\* A step of the CLI, of the chip or of the events task is a step of WifiEvents or
\* leaves all its variables alone.
LEMMA EventsSimulation ==
  ASSUME [Next]_vars
  PROVE  [Evt!Next]_(Evt!eventsVars)
<1> USE DEF eventsVars, Evt!eventsVars, Evt!queueVars, Evt!taskVars, Evt!powerVars
<1>1. CASE Indication
  BY <1>1 DEF Indication, Connected, Disconnected, ApStarted, ApStopped, ScanCompleted,
              Indicated, Evt!Next, Evt!Callback
<1>2. CASE OutsideResume \/ ResumeReturn
  BY <1>2 DEF OutsideResume, ResumeReturn, Evt!Next, Evt!EventsStep
<1>3. CASE ScanResult \/ ResumeCall \/ ResumeStep
  BY <1>3 DEF ScanResult, ResumeCall, ResumeStep
<1>4. CASE Enter \/ CliStep
  BY <1>4 DEF Enter, CliStep, ScanTry, ScanNext, Send, Wait, WaitStep, Waited
<1>5. CASE UNCHANGED vars
  BY <1>5 DEF vars
<1>6. QED
  BY <1>1, <1>2, <1>3, <1>4, <1>5 DEF Next, EventsStep

\* So a behaviour of the composition is one of WifiEvents, whose theorems then hold
\* of it: this is all the lemma is for, the actions being built from those of
\* WifiEvents.
LEMMA EventsUsed == Spec => Evt!Spec
<1>1. Init => Evt!Init
  BY DEF Init
<1>2. QED
  BY <1>1, EventsSimulation, PTL DEF Spec, Evt!Spec

\* EvtP, which has the theorems, is the same specification as Evt.
LEMMA SameEvents ==
  /\ Evt!Spec => EvtP!Spec
  /\ Evt!TypeOK <=> EvtP!TypeOK
  /\ EvtP!EventsAssumption
<1>1. Evt!Init => EvtP!Init
  BY DEF Evt!Init, EvtP!Init
<1>2. Evt!Next <=> EvtP!Next
  BY DEF Evt!Next, EvtP!Next,
         Evt!Callback, EvtP!Callback, Evt!EventsStep, EvtP!EventsStep,
         Evt!wifi_station_power_mode, EvtP!wifi_station_power_mode,
         Evt!sl_wfx_connect_callback, EvtP!sl_wfx_connect_callback,
         Evt!sl_wfx_disconnect_callback, EvtP!sl_wfx_disconnect_callback,
         Evt!sl_wfx_start_ap_callback, EvtP!sl_wfx_start_ap_callback,
         Evt!sl_wfx_stop_ap_callback, EvtP!sl_wfx_stop_ap_callback,
         Evt!sl_wfx_scan_complete_callback, EvtP!sl_wfx_scan_complete_callback,
         Evt!other_callback, EvtP!other_callback, Evt!Indicate, EvtP!Indicate,
         Evt!QueueCopy, EvtP!QueueCopy, Evt!RefuseCopy, EvtP!RefuseCopy,
         Evt!DropInd, EvtP!DropInd, Evt!Lose, EvtP!Lose, Evt!Moved, EvtP!Moved,
         Evt!Of, EvtP!Of, Evt!GoesUp, EvtP!GoesUp, Evt!LinkInds, EvtP!LinkInds,
         Evt!ResumeInds, EvtP!ResumeInds, Evt!TakeMessage, EvtP!TakeMessage,
         Evt!PowerTest, EvtP!PowerTest, Evt!PowerSet, EvtP!PowerSet, Evt!Resume,
         EvtP!Resume, Evt!FreeMessage, EvtP!FreeMessage, Evt!WantsPowerSave,
         EvtP!WantsPowerSave, Evt!AfterPower, EvtP!AfterPower, Evt!AfterResume,
         EvtP!AfterResume, Evt!queueVars, EvtP!queueVars, Evt!taskVars,
         EvtP!taskVars, Evt!powerVars, EvtP!powerVars
<1>3. [Evt!Next]_(Evt!eventsVars) => [EvtP!Next]_(EvtP!eventsVars)
  BY <1>2
     DEF Evt!eventsVars, EvtP!eventsVars, Evt!queueVars, EvtP!queueVars,
         Evt!taskVars, EvtP!taskVars, Evt!powerVars, EvtP!powerVars
<1>4. Evt!Spec => EvtP!Spec
  BY <1>1, <1>3, PTL DEF Evt!Spec, EvtP!Spec
<1>5. Evt!TypeOK <=> EvtP!TypeOK
  BY DEF Evt!TypeOK, EvtP!TypeOK, Evt!Interfaces, EvtP!Interfaces, Evt!Inds,
         EvtP!Inds, Evt!LinkInds, EvtP!LinkInds, Evt!ResumeInds, EvtP!ResumeInds
<1>6. EvtP!EventsAssumption
  BY CliAssumption
     DEF EvtP!EventsAssumption, EvtP!Inds, EvtP!ResumeInds, EvtP!LinkInds, Evt!ResumeInds,
         Evt!LinkInds
<1>7. QED
  BY <1>4, <1>5, <1>6

\* The events task's variables keep their types.
LEMMA EventsTyped == Spec => []Evt!TypeOK
<1>1. EvtP!Spec => []EvtP!TypeOK
  BY SameEvents, EvtP!TypeCorrect
<1>2. QED
  BY <1>1, SameEvents, EventsUsed, PTL

-----------------------------------------------------------------------------
(* The semaphore. *)

LEMMA AwaitsEvent ==
  ASSUME NEW name \in Commands
  PROVE  Awaits(name) \in Evt!ResumeInds
  BY DEF Commands, Awaits, Evt!ResumeInds, Evt!LinkInds

\* A command's step is a step of CliSem's CLI or leaves the semaphore alone.
LEMMA CliSimulation ==
  ASSUME CmdInv, CliStep
  PROVE  [Sem!Next]_(Sem!vars)
<1> USE DEF semVars, Sem!vars, Sem!semVars, Sem!cliVars, Sem!histVars
<1>1. CASE ScanTry \/ ScanNext \/ Send
  BY <1>1 DEF ScanTry, ScanNext, Send
<1>2. CASE Wait
  <2>1. cmd.step = "wait" => cmd.name \in Commands
    BY DEF CmdInv, Idle
  <2>2. \E e \in Evt!ResumeInds : Sem!WaitEnter(e)
    BY <1>2, <2>1, AwaitsEvent DEF Wait, Evt!ResumeInds
  <2>3. QED
    BY <2>2 DEF Sem!Next
<1>3. CASE WaitStep \/ Waited
  BY <1>3 DEF WaitStep, Waited, Sem!Next, Sem!CliStep
<1>4. QED
  BY <1>1, <1>2, <1>3 DEF CliStep

\* Every step of the composition is a step of CliSem or leaves it alone.
LEMMA SemSimulation ==
  ASSUME CmdInv, [Next]_vars
  PROVE  [Sem!Next]_(Sem!vars)
<1> USE DEF semVars, Sem!vars, Sem!semVars, Sem!cliVars, Sem!histVars
<1>1. CASE Indication \/ ScanResult \/ Enter
  BY <1>1 DEF Indication, Connected, Disconnected, ApStarted, ApStopped, ScanCompleted,
              Indicated, ScanResult, Enter
<1>2. CASE OutsideResume \/ ResumeReturn
  BY <1>2 DEF OutsideResume, ResumeReturn
<1>3. CASE ResumeCall
  <2>1. Sem!ResumeEnter(EventsTask, msg) /\ msg \in Evt!ResumeInds
    BY <1>3 DEF ResumeCall, Sem!ResumeEnter
  <2>2. QED
    BY <2>1 DEF Sem!Next
<1>4. CASE ResumeStep
  BY <1>4 DEF ResumeStep, Sem!Next
<1>5. CASE CliStep
  BY <1>5, CliSimulation
<1>6. CASE UNCHANGED vars
  BY <1>6 DEF vars
<1>7. QED
  BY <1>1, <1>2, <1>3, <1>4, <1>5, <1>6 DEF Next, EventsStep

\* The commands keep to CmdInv.
LEMMA CliCmdInv ==
  ASSUME CmdInv, CliStep
  PROVE  CmdInv'
<1> USE CliAssumption DEF CmdInv, Idle, Commands, Steps, semVars, cmdVars
<1>1. CASE ScanTry
  BY <1>1 DEF ScanTry, Step
<1>2. CASE ScanNext
  BY <1>2 DEF ScanNext, Step, Done
<1>3. CASE Send
  BY <1>3 DEF Send, Step, Done
<1>4. CASE Wait
  BY <1>4 DEF Wait
<1>5. CASE WaitStep
  BY <1>5 DEF WaitStep, Sem!SetPending, Sem!SetType, Sem!PendTake, Sem!PendBlock,
              Sem!PendTimeout, Sem!WaitLeave
<1>6. CASE Waited
  BY <1>6 DEF Waited, Sem!WaitReturn, Step, Done
<1>7. QED
  BY <1>1, <1>2, <1>3, <1>4, <1>5, <1>6 DEF CliStep

\* CmdInv holds in every state, for any number of retries and indications.
THEOREM CmdInvariant == Spec => []CmdInv
<1>1. Init => CmdInv
  BY CliAssumption DEF Init, CmdInv, Sem!Init
<1>2. CmdInv /\ [Next]_vars => CmdInv'
  <2> SUFFICES ASSUME CmdInv, [Next]_vars
               PROVE  CmdInv'
    OBVIOUS
  <2>1. CASE Indication \/ ScanResult \/ OutsideResume \/ ResumeReturn \/ UNCHANGED vars
    BY <2>1 DEF Indication, Connected, Disconnected, ApStarted, ApStopped, ScanCompleted,
                Indicated, ScanResult, OutsideResume, ResumeReturn, CmdInv, vars, semVars,
                cmdVars
  <2>2. CASE ResumeCall
    BY <2>2 DEF ResumeCall, Sem!ResumeEnter, Sem!cliVars, CmdInv, cmdVars
  <2>3. CASE ResumeStep
    <3>1. cpc' # "idle" => cpc # "idle"
      BY <2>3 DEF ResumeStep, Sem!PosterStep, Sem!TestPending, Sem!TestType, Sem!TestFree,
                  Sem!PostWake, Sem!PostCount, Sem!PostOverflow, Sem!SetPosted, Sem!Goto,
                  Sem!cliVars
    <3>2. QED
      BY <2>3, <3>1 DEF ResumeStep, CmdInv, cmdVars
  <2>4. CASE Enter
    BY <2>4, CliAssumption
       DEF Enter, wifi_station_connect, wifi_station_disconnect, wifi_station_scan,
           wifi_start_softap, wifi_stop_softap, Start, CmdInv, Idle, Commands, Steps, semVars
  <2>5. CASE CliStep
    BY <2>5, CliCmdInv
  <2>6. QED
    BY <2>1, <2>2, <2>3, <2>4, <2>5 DEF Next, EventsStep
<1>3. QED
  BY <1>1, <1>2, PTL DEF Spec

\* The commands and the events task implement CliSem (wifi_cli_get_set_cb_func.c
\* 1189-1300, app_wifi_events.c 540-640).
THEOREM SemaphoreUsed == Spec => UsesSemaphore
<1>1. Init => Sem!Init
  BY DEF Init
<1>2. CmdInv /\ [Next]_vars => [Sem!Next]_(Sem!vars)
  BY SemSimulation
<1>3. QED
  BY <1>1, <1>2, CmdInvariant, PTL DEF Spec, UsesSemaphore, Sem!Spec

\* SemP, which has the theorems, is the same specification as Sem.
LEMMA SameSem ==
  /\ Sem!Spec => SemP!Spec
  /\ Sem!TypeOK <=> SemP!TypeOK
  /\ SemP!SemAssumption
<1>1. Sem!Init => SemP!Init
  BY DEF Sem!Init, SemP!Init
<1>2. Sem!Next <=> SemP!Next
  BY DEF Sem!Next, SemP!Next,
         Sem!WaitEnter, SemP!WaitEnter, Sem!CliStep, SemP!CliStep, Sem!SetPending,
         SemP!SetPending, Sem!SetType, SemP!SetType, Sem!PendTake, SemP!PendTake,
         Sem!PendBlock, SemP!PendBlock, Sem!PendTimeout, SemP!PendTimeout,
         Sem!WaitLeave, SemP!WaitLeave, Sem!WaitReturn, SemP!WaitReturn,
         Sem!ResumeEnter, SemP!ResumeEnter, Sem!PosterStep, SemP!PosterStep,
         Sem!TestPending, SemP!TestPending, Sem!TestType, SemP!TestType,
         Sem!TestFree, SemP!TestFree, Sem!PostWake, SemP!PostWake, Sem!PostCount,
         SemP!PostCount, Sem!PostOverflow, SemP!PostOverflow, Sem!SetPosted,
         SemP!SetPosted, Sem!Goto, SemP!Goto, Sem!Granted, SemP!Granted,
         Sem!semVars, SemP!semVars, Sem!cliVars, SemP!cliVars, Sem!histVars,
         SemP!histVars
<1>3. [Sem!Next]_(Sem!vars) => [SemP!Next]_(SemP!vars)
  BY <1>2
     DEF Sem!vars, SemP!vars, Sem!semVars, SemP!semVars, Sem!cliVars, SemP!cliVars,
         Sem!histVars, SemP!histVars
<1>4. Sem!Spec => SemP!Spec
  BY <1>1, <1>3, PTL DEF Sem!Spec, SemP!Spec
<1>5. Sem!TypeOK <=> SemP!TypeOK
  BY DEF Sem!TypeOK, SemP!TypeOK, Sem!CliStates, SemP!CliStates, Sem!CliPcs,
         SemP!CliPcs, Sem!PosterPcs, SemP!PosterPcs
<1>6. SemP!SemAssumption
  BY CliAssumption DEF SemP!SemAssumption
<1>7. QED
  BY <1>4, <1>5, <1>6

\* The semaphore's variables keep their types.
LEMMA SemTyped == Spec => []Sem!TypeOK
<1>1. SemP!Spec => []SemP!TypeOK
  BY SameSem, SemP!TypeCorrect
<1>2. QED
  BY <1>1, SameSem, SemaphoreUsed, PTL DEF UsesSemaphore

-----------------------------------------------------------------------------
(* The composition. *)

\* The variables keep their types, those of the semaphore and of the events task by
\* their own theorems.
THEOREM TypeCorrect == Spec => []TypeOK
<1> DEFINE ChipOK == /\ resuming \in BOOLEAN
                     /\ listed \in BOOLEAN
                     /\ device \subseteq {"scan", "join", "disconnect", "start_ap", "stop_ap"}
                     /\ inds \in 0 .. MaxInds
<1>1. Init => ChipOK
  <2> SUFFICES ASSUME Init
               PROVE  ChipOK
    OBVIOUS
  <2>1. resuming \in BOOLEAN /\ listed \in BOOLEAN
    BY DEF Init
  <2>2. inds = 0 /\ 0 \in 0 .. MaxInds
    BY CliAssumption DEF Init
  <2>3. device \subseteq {"scan", "join", "disconnect", "start_ap", "stop_ap"}
    BY DEF Init
  <2>4. QED
    BY <2>1, <2>2, <2>3
<1>2. CmdInv /\ ChipOK /\ [Next]_vars => ChipOK'
  <2> SUFFICES ASSUME CmdInv, ChipOK, [Next]_vars
               PROVE  ChipOK'
    OBVIOUS
  <2>1. CASE Indication
    <3>1. inds < MaxInds /\ inds' = inds + 1 /\ device' \subseteq device
      BY <2>1 DEF Indication, Connected, Disconnected, ApStarted, ApStopped, ScanCompleted,
                  Indicated
    <3>2. UNCHANGED <<resuming, listed>>
      BY <2>1 DEF Indication, Connected, Disconnected, ApStarted, ApStopped, ScanCompleted,
                  Indicated
    <3>3. QED
      BY <3>1, <3>2, CliAssumption
  <2>2. CASE ScanResult
    BY <2>2 DEF ScanResult
  <2>3. CASE EventsStep
    BY <2>3 DEF EventsStep, OutsideResume, ResumeCall, ResumeStep, ResumeReturn, chipVars
  <2>4. CASE Enter
    BY <2>4 DEF Enter, chipVars
  <2>5. CASE CliStep
    <3>1. CASE Send
      <4>1. cmd.name \in Commands
        BY <3>1 DEF Send, CmdInv, Idle
      <4>2. Asks(cmd.name) \in {"scan", "join", "disconnect", "start_ap", "stop_ap"}
        BY <4>1 DEF Asks, Commands
      <4>3. QED
        BY <3>1, <4>2 DEF Send
    <3>2. CASE ScanTry \/ ScanNext \/ Wait \/ WaitStep \/ Waited
      BY <3>2 DEF ScanTry, ScanNext, Wait, WaitStep, Waited, chipVars
    <3>3. QED
      BY <2>5, <3>1, <3>2 DEF CliStep
  <2>6. CASE UNCHANGED vars
    BY <2>6 DEF vars, chipVars
  <2>7. QED
    BY <2>1, <2>2, <2>3, <2>4, <2>5, <2>6 DEF Next
<1>3. Sem!TypeOK /\ Evt!TypeOK /\ CmdInv /\ ChipOK => TypeOK
  BY DEF TypeOK, CmdInv
<1>4. QED
  BY <1>1, <1>2, <1>3, SemTyped, EventsTyped, CmdInvariant, PTL DEF Spec

\* What the theorems of the two parts say of the composition: the CLI is never
\* refused, resumes are conserved, and no buffer is lost but by the full queue.
THEOREM PartsHold ==
  Spec => [](SemP!WaitNotRefused /\ SemP!CreditConserved
             /\ EvtP!BuffersAccounted /\ EvtP!QueueLeadsToState)
<1>1. SemP!Spec => []SemP!WaitNotRefused /\ []SemP!CreditConserved
  BY SameSem, SemP!NeverRefused, SemP!CreditIsConserved
<1>2. EvtP!Spec => []EvtP!BuffersAccounted /\ []EvtP!QueueLeadsToState
  BY SameEvents, EvtP!BuffersAreAccounted, EvtP!InterfacesFollow
<1>3. QED
  BY <1>1, <1>2, SameEvents, SameSem, SemaphoreUsed, EventsUsed, PTL DEF UsesSemaphore
=============================================================================
