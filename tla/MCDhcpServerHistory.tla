------------------------ MODULE MCDhcpServerHistory ------------------------
(* DhcpServerHistory with two clients, which are alike. *)
EXTENDS DhcpServerHistory, TLC

Symmetry == Permutations(Macs)
=============================================================================
