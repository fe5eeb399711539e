---------------------------- MODULE MCWifiEvents ----------------------------
(* WifiEvents with a queue of three messages.                                 *)
EXTENDS WifiEvents
=============================================================================
