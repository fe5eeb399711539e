---------------------------- MODULE CliSemProofs ----------------------------
(***************************************************************************)
(* CliSem for every set of events and of resuming tasks: the invariant     *)
(* IInv is inductive, so resumes are conserved and the CLI is never        *)
(* refused, and the semaphore implements EventCredit.                      *)
(***************************************************************************)
EXTENDS CliSem, TLAPS

\* The initial state of wifi_cli_sem_init satisfies the invariant.
LEMMA InitIInv == Init => IInv
  BY SemAssumption
     DEF Init, IInv, TypeOK, CreditConserved, InHand, CliStates, CliPcs, PosterPcs

\* A step of the CLI task inside wifi_cli_wait keeps the invariant.
LEMMA CliStepIInv ==
  ASSUME IInv, CliStep \/ \E e \in Events : WaitEnter(e)
  PROVE  IInv'
<1> USE SemAssumption
    DEF IInv, TypeOK, CreditConserved, InHand, CliStates, CliPcs, semVars, cliVars, histVars
<1>1. CASE \E e \in Events : WaitEnter(e)
  BY <1>1 DEF WaitEnter
<1>2. CASE SetPending
  BY <1>2 DEF SetPending
<1>3. CASE SetType
  BY <1>3 DEF SetType
<1>4. CASE PendTake
  BY <1>4 DEF PendTake
<1>5. CASE PendBlock
  BY <1>5 DEF PendBlock
<1>6. CASE PendTimeout
  BY <1>6 DEF PendTimeout
<1>7. CASE WaitLeave
  BY <1>7 DEF WaitLeave
<1>8. CASE WaitReturn
  BY <1>8 DEF WaitReturn
<1>9. QED
  BY <1>1, <1>2, <1>3, <1>4, <1>5, <1>6, <1>7, <1>8 DEF CliStep

\* A step of a resuming task inside wifi_cli_resume keeps the invariant.
LEMMA PosterStepIInv ==
  ASSUME IInv, NEW p \in Posters,
         PosterStep(p) \/ \E e \in Events : ResumeEnter(p, e)
  PROVE  IInv'
<1> USE SemAssumption
    DEF IInv, TypeOK, CreditConserved, InHand, CliStates, CliPcs, PosterPcs,
        semVars, cliVars, histVars
<1>1. CASE \E e \in Events : ResumeEnter(p, e)
  BY <1>1 DEF ResumeEnter
<1>2. CASE TestPending(p)
  BY <1>2 DEF TestPending, Goto
<1>3. CASE TestType(p)
  BY <1>3 DEF TestType, Goto
<1>4. CASE TestFree(p)
  BY <1>4 DEF TestFree, Goto
<1>5. CASE PostWake(p)
  BY <1>5 DEF PostWake, Granted
<1>6. CASE PostCount(p)
  BY <1>6 DEF PostCount, Granted
<1>7. CASE PostOverflow(p)
  BY <1>7 DEF PostOverflow, Goto
<1>8. CASE SetPosted(p)
  BY <1>8 DEF SetPosted, Granted
<1>9. QED
  BY <1>1, <1>2, <1>3, <1>4, <1>5, <1>6, <1>7, <1>8 DEF PosterStep

\* IInv is an invariant of the semaphore, for all tasks and all schedules.
THEOREM IInvInvariant == Spec => []IInv
<1>1. IInv /\ UNCHANGED vars => IInv'
  BY DEF IInv, TypeOK, CreditConserved, InHand, vars, semVars, cliVars, histVars
<1>2. IInv /\ [Next]_vars => IInv'
  BY <1>1, CliStepIInv, PosterStepIInv DEF Next
<1>3. QED
  BY <1>2, InitIInv, PTL DEF Spec

\* The variables keep their types.
THEOREM TypeCorrect == Spec => []TypeOK
<1>1. IInv => TypeOK
  BY DEF IInv
<1>2. QED
  BY <1>1, IInvInvariant, PTL

\* A resume is consumed at most once, whatever the interleaving.
THEOREM CreditIsConserved == Spec => []CreditConserved
<1>1. IInv => CreditConserved
  BY DEF IInv
<1>2. QED
  BY <1>1, IInvInvariant, PTL

\* The CLI task never gets RTOS_ERR_FAIL from wifi_cli_wait.
THEOREM NeverRefused == Spec => []WaitNotRefused
<1>1. IInv => WaitNotRefused
  BY DEF IInv, WaitNotRefused
<1>2. QED
  BY <1>1, IInvInvariant, PTL

\* Every step of the semaphore is a step of EventCredit or leaves it alone.
LEMMA StepSimulation ==
  ASSUME IInv, IInv', [Next]_vars
  PROVE  [Credit!Next]_(Credit!creditVars)
<1> USE SemAssumption DEF Credit!creditVars
<1>1. CASE WaitLeave
  <2>1. used < granted \/ err # "NONE"
    BY <1>1 DEF WaitLeave, IInv, TypeOK, CreditConserved, InHand
  <2>2. QED
    BY <2>1, <1>1 DEF WaitLeave, Credit!Next, Credit!Use
<1>2. ASSUME NEW p \in Posters, PostWake(p) \/ PostCount(p) \/ SetPosted(p)
      PROVE  [Credit!Next]_(Credit!creditVars)
  BY <1>2 DEF PostWake, PostCount, SetPosted, Granted, Credit!Next, Credit!Grant
<1>3. CASE UNCHANGED <<granted, used>>
  BY <1>3
<1>4. CASE UNCHANGED vars
  BY <1>4 DEF vars, histVars
<1>5. WaitLeave \/ UNCHANGED <<granted, used>> \/ UNCHANGED vars
      \/ \E p \in Posters : PostWake(p) \/ PostCount(p) \/ SetPosted(p)
  BY DEF Next, CliStep, PosterStep, WaitEnter, SetPending, SetType, PendTake,
         PendBlock, PendTimeout, WaitReturn, ResumeEnter, TestPending, TestType,
         TestFree, PostOverflow, Goto, histVars
<1>6. QED
  BY <1>1, <1>2, <1>3, <1>4, <1>5

\* The semaphore, with all its races, implements the counting promise.
THEOREM Implementation == Spec => ImplementsCredit
<1>1. Init => Credit!Init
  BY DEF Init, Credit!Init
<1>2. IInv /\ IInv' /\ [Next]_vars => [Credit!Next]_(Credit!creditVars)
  BY StepSimulation
<1>3. QED
  BY <1>1, <1>2, IInvInvariant, PTL DEF Spec, ImplementsCredit, Credit!Spec
=============================================================================
