------------------------------ MODULE MCWifiCli ------------------------------
(* WifiCli with a short queue and few indications.                            *)
EXTENDS WifiCli
=============================================================================
