------------------------------ MODULE MCSystem ------------------------------
(* The whole way from a Search to a game: MCSystem.cfg gives the constants. *)
EXTENDS System, TLC

\* Four clients only where nobody leaves; leavers only where the network is good.
Bounds ==
  SomebodyLeft => /\ Cardinality({c \in Client : stage[c] # "new"}) < Cardinality(Client)
                  /\ late = {} /\ troubled = {} /\ lost = {}

Symmetry == Permutations(Client) \cup Permutations(Fd) \cup Permutations(ServerId)
=============================================================================
