------------------------------- MODULE CliSem -------------------------------
(***************************************************************************)
(* The event-based semaphore of the Wi-Fi CLI (wifi_cli_wait and           *)
(* wifi_cli_resume of wifi_cli_params.c).  One task, the CLI, waits; the   *)
(* Wi-Fi events task and the TCP/IP thread resume it.  Nothing protects    *)
(* cli_state and event_type, so every access to one of them is a step of   *)
(* its own and the steps of the tasks interleave.                          *)
(***************************************************************************)
EXTENDS Naturals

CONSTANTS
  Events,        \* the indications a wait or a resume names
  Posters,       \* the tasks that call wifi_cli_resume
  Posts,         \* Posts[p]: the events task p resumes the CLI for
  NoEvent,       \* event_type before the first wait
  SemCtrMax,     \* the largest count of the kernel semaphore
  MaxGrants      \* bound on the resumes that report success

ASSUME SemAssumption ==
  /\ Posts \in [Posters -> SUBSET Events]
  /\ NoEvent \notin Events
  /\ SemCtrMax \in Nat \ {0}   \* a binary semaphore has room for one post
  /\ MaxGrants \in Nat

VARIABLES
  cli_state,   \* sem_type_t.cli_state
  event_type,  \* sem_type_t.event_type
  sem_ctr,     \* count of sem_type_t.cli_sem
  cpc,         \* where the CLI task is in wifi_cli_wait
  want,        \* the event the running (or last) wait names
  err,         \* RTOS_ERR_CODE of the running (or last) wait
  ppc,         \* ppc[p]: where task p is in wifi_cli_resume
  pev,         \* pev[p]: the event of that resume
  granted,     \* history: resumes that returned 0
  used         \* history: waits that returned RTOS_ERR_NONE

semVars == <<cli_state, event_type, sem_ctr>>
cliVars == <<cpc, want, err>>
histVars == <<granted, used>>
vars == <<semVars, cliVars, ppc, pev, histVars>>

CliStates == {"FREE_CLI", "PENDING_CLI", "POSTED_CLI"}

\* "skip": a POSTED state was found; "woken": the pend ended, err says how.
CliPcs == {"idle", "set_pending", "set_type", "pend", "blocked", "skip", "woken",
           "returned"}
PosterPcs == {"idle", "test_pending", "test_type", "test_free", "post", "set_posted"}

TypeOK ==
  /\ cli_state \in CliStates
  /\ event_type \in Events \cup {NoEvent}
  /\ sem_ctr \in 0 .. SemCtrMax
  /\ cpc \in CliPcs
  /\ want \in Events \cup {NoEvent}
  /\ err \in {"NONE", "TIMEOUT"}
  /\ ppc \in [Posters -> PosterPcs]
  /\ pev \in [Posters -> Events \cup {NoEvent}]
  /\ granted \in Nat
  /\ used \in Nat

\* wifi_cli_sem_init: the CLI is free and the count is 0.
Init ==
  /\ cli_state = "FREE_CLI"
  /\ event_type = NoEvent
  /\ sem_ctr = 0
  /\ cpc = "idle"
  /\ want = NoEvent
  /\ err = "NONE"
  /\ ppc = [p \in Posters |-> "idle"]
  /\ pev = [p \in Posters |-> NoEvent]
  /\ granted = 0
  /\ used = 0

-----------------------------------------------------------------------------
(* wifi_cli_wait, run by the CLI task. *)

\* The tests of cli_state.  PENDING_CLI is refused with RTOS_ERR_FAIL; the
\* invariant WaitNotRefused says that test never succeeds, so the refusal has
\* no action.
WaitEnter(e) ==
  /\ cpc = "idle"
  /\ cli_state # "PENDING_CLI"
  /\ cpc' = IF cli_state = "FREE_CLI" THEN "set_pending" ELSE "skip"
  /\ want' = e
  /\ err' = "NONE"
  /\ UNCHANGED <<semVars, ppc, pev, histVars>>

SetPending ==
  /\ cpc = "set_pending"
  /\ cli_state' = "PENDING_CLI"
  /\ cpc' = "set_type"
  /\ UNCHANGED <<event_type, sem_ctr, want, err, ppc, pev, histVars>>

SetType ==
  /\ cpc = "set_type"
  /\ event_type' = want
  /\ cpc' = "pend"
  /\ UNCHANGED <<cli_state, sem_ctr, want, err, ppc, pev, histVars>>

\* Mutant: the pend takes a token the count does not have.
PendTakeBlind ==
  /\ cpc = "pend"
  /\ sem_ctr' = sem_ctr - 1
  /\ cpc' = "woken"
  /\ UNCHANGED <<cli_state, event_type, want, err, ppc, pev, histVars>>

\* OSSemPend takes a token at once when there is one ...
PendTake ==
  /\ cpc = "pend"
  /\ sem_ctr > 0
  /\ sem_ctr' = sem_ctr - 1
  /\ cpc' = "woken"
  /\ UNCHANGED <<cli_state, event_type, want, err, ppc, pev, histVars>>

\* ... and blocks otherwise.
PendBlock ==
  /\ cpc = "pend"
  /\ sem_ctr = 0
  /\ cpc' = "blocked"
  /\ UNCHANGED <<semVars, want, err, ppc, pev, histVars>>

\* Mutant: a timeout pends again instead of leaving.
PendTimeoutRetry ==
  /\ cpc = "blocked"
  /\ cpc' = "pend"
  /\ err' = "TIMEOUT"
  /\ UNCHANGED <<semVars, want, ppc, pev, histVars>>

PendTimeout ==
  /\ cpc = "blocked"
  /\ cpc' = "woken"
  /\ err' = "TIMEOUT"
  /\ UNCHANGED <<semVars, want, ppc, pev, histVars>>

\* Mutant: a timeout returns early, before the reset.
WaitLeaveEarly ==
  /\ cpc \in {"skip", "woken"}
  /\ cli_state' = IF err = "TIMEOUT" THEN cli_state ELSE "FREE_CLI"
  /\ used' = IF err = "NONE" THEN used + 1 ELSE used
  /\ cpc' = "returned"
  /\ UNCHANGED <<event_type, sem_ctr, want, err, ppc, pev, granted>>

\* The last assignment and the return, on every path.
WaitLeave ==
  /\ cpc \in {"skip", "woken"}
  /\ cli_state' = "FREE_CLI"
  /\ used' = IF err = "NONE" THEN used + 1 ELSE used
  /\ cpc' = "returned"
  /\ UNCHANGED <<event_type, sem_ctr, want, err, ppc, pev, granted>>

\* The command that called wifi_cli_wait goes on.
WaitReturn ==
  /\ cpc = "returned"
  /\ cpc' = "idle"
  /\ UNCHANGED <<semVars, want, err, ppc, pev, histVars>>

-----------------------------------------------------------------------------
(* wifi_cli_resume, run by task p. *)

ResumeEnter(p, e) ==
  /\ ppc[p] = "idle"
  /\ granted < MaxGrants
  /\ e \in Posts[p]
  /\ ppc' = [ppc EXCEPT ![p] = "test_pending"]
  /\ pev' = [pev EXCEPT ![p] = e]
  /\ UNCHANGED <<semVars, cliVars, histVars>>

Goto(p, pc) ==
  /\ ppc' = [ppc EXCEPT ![p] = pc]
  /\ UNCHANGED <<semVars, cliVars, pev, histVars>>

TestPending(p) ==
  /\ ppc[p] = "test_pending"
  /\ Goto(p, IF cli_state = "PENDING_CLI" THEN "test_type" ELSE "test_free")

TestType(p) ==
  /\ ppc[p] = "test_type"
  /\ Goto(p, IF event_type = pev[p] THEN "post" ELSE "test_free")

\* Neither the waited event nor a free CLI: the resume returns -1.
TestFree(p) ==
  /\ ppc[p] = "test_free"
  /\ Goto(p, IF cli_state = "FREE_CLI" THEN "set_posted" ELSE "idle")

Granted(p) ==
  /\ granted' = granted + 1
  /\ ppc' = [ppc EXCEPT ![p] = "idle"]
  /\ UNCHANGED <<pev, used>>

\* Mutant: the post wakes the task and counts the token as well.
PostWakeTwice(p) ==
  /\ ppc[p] = "post"
  /\ cpc = "blocked"
  /\ cpc' = "woken"
  /\ sem_ctr' = 1
  /\ Granted(p)
  /\ UNCHANGED <<cli_state, event_type, want, err>>

\* OSSemPost(OS_OPT_POST_ALL): the blocked task gets the token ...
PostWake(p) ==
  /\ ppc[p] = "post"
  /\ cpc = "blocked"
  /\ cpc' = "woken"
  /\ Granted(p)
  /\ UNCHANGED <<semVars, want, err>>

\* ... or the count grows ...
PostCount(p) ==
  /\ ppc[p] = "post"
  /\ cpc # "blocked"
  /\ sem_ctr < SemCtrMax
  /\ sem_ctr' = sem_ctr + 1
  /\ Granted(p)
  /\ UNCHANGED <<cli_state, event_type, cliVars>>

\* ... or it would overflow, and the resume returns -1.
PostOverflow(p) ==
  /\ ppc[p] = "post"
  /\ cpc # "blocked"
  /\ sem_ctr = SemCtrMax
  /\ Goto(p, "idle")

SetPosted(p) ==
  /\ ppc[p] = "set_posted"
  /\ cli_state' = "POSTED_CLI"
  /\ Granted(p)
  /\ UNCHANGED <<event_type, sem_ctr, cliVars>>

-----------------------------------------------------------------------------
CliStep ==
  \/ SetPending \/ SetType \/ PendTake \/ PendBlock \/ PendTimeout
  \/ WaitLeave \/ WaitReturn

PosterStep(p) ==
  \/ TestPending(p) \/ TestType(p) \/ TestFree(p)
  \/ PostWake(p) \/ PostCount(p) \/ PostOverflow(p) \/ SetPosted(p)

Next ==
  \/ \E e \in Events : WaitEnter(e)
  \/ CliStep
  \/ \E p \in Posters : PosterStep(p) \/ \E e \in Events : ResumeEnter(p, e)

Spec == Init /\ [][Next]_vars

\* The kernel runs a ready task and its tick ends a pend; calls are not fair.
FairSpec ==
  /\ Spec
  /\ WF_vars(CliStep)
  /\ \A p \in Posters : WF_vars(PosterStep(p))

-----------------------------------------------------------------------------
(* Properties. *)

\* Tokens in hand: counted by the kernel, parked in POSTED_CLI, or given to a
\* CLI that has been woken and has not returned yet.
InHand ==
  sem_ctr + (IF cli_state = "POSTED_CLI" THEN 1 ELSE 0)
          + (IF cpc = "woken" /\ err = "NONE" THEN 1 ELSE 0)

\* However the accesses to cli_state interleave, the waits that succeeded and
\* the tokens still in hand never exceed the resumes that reported success: a
\* resume is consumed at most once (wifi_cli_params.c 356-370, 397-415).
CreditConserved == used + InHand <= granted

\* The CLI task, the only caller of wifi_cli_wait, is never refused with
\* RTOS_ERR_FAIL: no path leaves PENDING_CLI behind (lines 350-353 and 369).
WaitNotRefused == cpc = "idle" => cli_state # "PENDING_CLI"

\* The inductive invariant behind both: PENDING_CLI is seen only while the wait
\* that wrote it runs, and a CLI that found POSTED_CLI (line 356) still finds it
\* at the reset of line 369, because no resume moves the state on from there.
IInv ==
  /\ TypeOK
  /\ CreditConserved
  /\ cli_state = "PENDING_CLI" => cpc \in {"set_type", "pend", "blocked", "woken"}
  /\ cpc = "skip" => cli_state = "POSTED_CLI" /\ err = "NONE"
  /\ \A p \in Posters : ppc[p] # "idle" => pev[p] \in Events

\* Every wait returns: the timeout of OSSemPend ends it whatever the resumes do.
WaitReturns == (cpc # "idle") ~> (cpc = "idle")

\* Every step of the semaphore is a grant, a use of an earlier grant, or none.
Credit == INSTANCE EventCredit
ImplementsCredit == Credit!Spec
=============================================================================
