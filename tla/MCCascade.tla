----------------------------- MODULE MCCascade ------------------------------
(* The cascade on small instances.                                           *)
EXTENDS Cascade
=============================================================================
