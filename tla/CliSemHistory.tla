---------------------------- MODULE CliSemHistory ----------------------------
(***************************************************************************)
(* CliSem with a history of which events the resumes were for: what the    *)
(* comments of wifi_cli_params say of the semaphore, as properties.        *)
(***************************************************************************)
EXTENDS CliSem

VARIABLE heard   \* events a resume named since the previous wait returned

HistoryInit == Init /\ heard = {}

\* The events of the resumes that begin in this step.
Begun == {pev'[p] : p \in {q \in Posters : ppc[q] = "idle" /\ ppc'[q] # "idle"}}

HistoryNext ==
  /\ Next
  /\ heard' = IF cpc = "returned" /\ cpc' = "idle" THEN {} ELSE heard \cup Begun

HistorySpec == HistoryInit /\ [][HistoryNext]_<<vars, heard>>

\* A wait that ends with success saw its own event: some resume named it since
\* the previous wait returned (the "specific waiting event" of
\* wifi_cli_params.c 359).
SuccessMeansEvent == cpc = "returned" /\ err = "NONE" => want \in heard
=============================================================================
