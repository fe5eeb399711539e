------------------------------ MODULE MCEtherRx ------------------------------
(* EtherRx with a ring of three descriptors and four data areas.              *)
EXTENDS EtherRx
=============================================================================
