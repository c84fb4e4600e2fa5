------------------------------ MODULE MCServers ------------------------------
(* The Java and the Python game server on the same small field.             *)
EXTENDS GameServer, TLC

VARIABLE impl  \* which of the two servers runs

Java == INSTANCE JavaServer
Python == INSTANCE PythonServer

ServersInit == Init /\ impl \in {"java", "python"}
ServersNext ==
  /\ \/ impl = "java" /\ Java!Next
     \/ impl = "python" /\ Python!Next
  /\ UNCHANGED impl

Perms == Permutations(Address)
ServersSpec == ServersInit /\ [][ServersNext]_<<vars, impl>>

\* What the two show, and what the two players see in one frame; see the
\* modules.
BallShownInField ==
  /\ NeverSticksToWall
  /\ IF impl = "java" THEN Java!GoalShownOnlyAtWall ELSE Python!GoalNeverShown
SameForBoth == IF impl = "java" THEN Java!SameFrameSameState ELSE Python!SameFrameSamePicture
=============================================================================
