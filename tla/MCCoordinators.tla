--------------------------- MODULE MCCoordinators ---------------------------
(* The Java and the Python coordinator on the same small world.             *)
EXTENDS CoordinatorWorld, TLC

VARIABLE impl  \* which of the two coordinators runs

Java == INSTANCE JavaCoordinator
Python == INSTANCE PythonCoordinator

CoordinatorsInit == Init /\ impl \in {"java", "python"}
CoordinatorsNext ==
  /\ \/ impl = "java" /\ Java!Next
     \/ impl = "python" /\ Python!Next
  /\ UNCHANGED impl

Perms == Permutations(Client) \cup Permutations(ServerId)
CoordinatorsSpec == CoordinatorsInit /\ [][CoordinatorsNext]_<<vars, impl>>

JavaMatchFitsServer == impl = "java" => Java!MatchFitsServer
JavaServedInOrder == impl = "java" => Java!ServedInOrder
PythonMatchFitsServer == impl = "python" => Python!MatchFitsServer
PythonServedInOrder == impl = "python" => Python!ServedInOrderUnlessReset
=============================================================================
