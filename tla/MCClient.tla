------------------------------ MODULE MCClient ------------------------------
(* Instances of Client for TLC. *)
EXTENDS ClientInv
=============================================================================
