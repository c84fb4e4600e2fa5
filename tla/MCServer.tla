------------------------------ MODULE MCServer ------------------------------
(* Server on small instances; the .cfg files of its runs give the constants. *)
EXTENDS Server, TLC

\* Addresses and tokens are only compared: they are interchangeable.
Symmetry == Permutations(Address) \cup Permutations(TokenSpace)
=============================================================================
