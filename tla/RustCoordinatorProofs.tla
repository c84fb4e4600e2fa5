------------------------ MODULE RustCoordinatorProofs ------------------------
(***************************************************************************)
(* Why the Rust coordinator does not check its servers again and again, in *)
(* terms of what it can never do: for any set of servers, whichever of     *)
(* them run.  The mutex is held from the first round on, so the thread     *)
(* that comes to store a Status waits for itself.                          *)
(***************************************************************************)
EXTENDS RustCoordinator, TLAPS

\* No server's phase is known, and the thread holds the mutex while it is at
\* work, to the end of its round.
RoundOK ==
  /\ check \in {"sleep", "visit", "receive", "store"}
  /\ check # "sleep" => held
  /\ server_list = [s \in ServerId |-> "Unknown"]

\* It holds at the start.
LEMMA InitRound == Init => RoundOK
BY DEF Init, RoundOK

\* Every step keeps it: the one that would break it is never taken.
LEMMA NextRound == RoundOK /\ [Next]_vars => RoundOK'
<1> SUFFICES ASSUME RoundOK, [Next]_vars
             PROVE  RoundOK'
  OBVIOUS
<1> USE DEF RoundOK
<1>1. CASE CollectAddresses
  BY <1>1 DEF CollectAddresses
<1>2. ASSUME NEW s \in ServerId, SendQuery(s)
      PROVE  RoundOK'
  BY <1>2 DEF SendQuery
<1>3. CASE Answer \/ Receive \/ ReceiveError
  BY <1>3 DEF Answer, Receive, ReceiveError
<1>4. CASE StoreStatus
  <2>1. ~held /\ held
    BY <1>4 DEF StoreStatus
  <2> QED BY <2>1
<1>5. CASE EndLoop
  BY <1>5 DEF EndLoop
<1>6. CASE UNCHANGED vars
  BY <1>6 DEF vars
<1> QED BY <1>1, <1>2, <1>3, <1>4, <1>5, <1>6 DEF Next, CheckServers

\* The invariant holds in every state the coordinator can reach.
LEMMA RoundInvariant == FairSpec => []RoundOK
BY InitRound, NextRound, PTL DEF FairSpec

\* The coordinator never learns the phase of any server, whatever they answer
\* and however often it asks: the insert of send_message_to_server is never
\* reached.
THEOREM NeverLearns == FairSpec => [](server_list = [s \in ServerId |-> "Unknown"])
<1>1. RoundOK => server_list = [s \in ServerId |-> "Unknown"]
  BY DEF RoundOK
<1> QED BY <1>1, RoundInvariant, PTL

\* Once a Status has been received nothing ever happens again, in this round or
\* a later one: the lock for the insert is taken while check_servers holds it.
\* After an error or any other answer the loop goes on.
THEOREM StoreBlocks == FairSpec => [][check # "store"]_vars
<1>1. RoundOK /\ [Next]_vars => [check # "store"]_vars
  BY DEF RoundOK, Next, CheckServers, CollectAddresses, SendQuery, Answer,
    Receive, ReceiveError, StoreStatus, EndLoop
<1> QED BY <1>1, RoundInvariant, PTL DEF FairSpec
=============================================================================
