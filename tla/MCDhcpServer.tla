---------------------------- MODULE MCDhcpServer ----------------------------
(* DhcpServer with a pool of three addresses and three clients, which are alike, and  *)
(* DhcpSwitch.  The two share no variable, so a behaviour shows one or the other: *)
(* their product would only be larger.                                         *)
EXTENDS DhcpServer, DhcpSwitch, TLC

VARIABLE shown

MCInit == Init /\ SwitchInit /\ shown \in {"table", "switch"}

MCNext ==
  /\ \/ shown = "table" /\ Next /\ UNCHANGED switchVars
     \/ shown = "switch" /\ SwitchNext /\ UNCHANGED vars
  /\ UNCHANGED shown

MCSpec == MCInit /\ [][MCNext]_<<vars, switchVars, shown>>

Symmetry == Permutations(Macs)
=============================================================================
