--------------------------- MODULE MCCoordinator ---------------------------
(* Coordinator on small instances; the .cfg files of its runs give the *)
(* constants.                                                          *)
EXTENDS Coordinator, TLC

Symmetry == Permutations(Client) \cup Permutations(Fd) \cup Permutations(ServerId)
=============================================================================
