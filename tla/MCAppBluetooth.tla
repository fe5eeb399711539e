--------------------------- MODULE MCAppBluetooth ---------------------------
(* AppBluetooth with a chain of two characteristics.                        *)
EXTENDS AppBluetooth
=============================================================================
