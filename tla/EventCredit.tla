----------------------------- MODULE EventCredit -----------------------------
(***************************************************************************)
(* What the CLI semaphore promises, whatever the schedule: every wait that *)
(* ends with success has used up one resume that reported success.  A      *)
(* resume may be lost, but it is never used twice.                         *)
(***************************************************************************)
EXTENDS Naturals

VARIABLES
  granted,  \* resumes that reported success
  used      \* waits that ended with success

creditVars == <<granted, used>>

Init == granted = 0 /\ used = 0

Grant == granted' = granted + 1 /\ UNCHANGED used

Use == used < granted /\ used' = used + 1 /\ UNCHANGED granted

Next == Grant \/ Use

Spec == Init /\ [][Next]_creditVars
=============================================================================
