------------------------------ MODULE MCEtherTx ------------------------------
(* EtherTx with a ring of three descriptors.                                  *)
EXTENDS EtherTx
=============================================================================
