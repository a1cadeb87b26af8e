------------------------------ MODULE MCServer ------------------------------
(* Instances of Server for TLC. *)
EXTENDS ServerInv, TLC

\* The descriptors are interchangeable, and so are the connections.
Interchangeable == Permutations(Links) \cup Permutations(Tokens)
=============================================================================
