------------------------------ MODULE MCClient ------------------------------
(* The client on small instances: MCClient.cfg gives the constants. *)
EXTENDS Client, Functions, TLC

\* MaxFrame frames altogether: of one server, or of both.
Bounds == FoldFunction(+, 0, frames) <= MaxFrame

Perms == Permutations(Token)
=============================================================================
