------------------------- MODULE CoordinatorProofs -------------------------
(***************************************************************************)
(* The safety invariants of Coordinator, proved for any number of clients, *)
(* descriptors and servers, any bound on restarts, and with or without a   *)
(* network that loses, delays and duplicates.                              *)
(*                                                                         *)
(* IInv, below, is the inductive invariant.  Its parts are taken up one    *)
(* after the other, each with the lemma that a step keeps it: types and    *)
(* the control of the check thread, the connections behind the queue, the  *)
(* seats given away, the servers that are owed a player, who was meant by  *)
(* a Match, the length of the queue during matchmake, the order of         *)
(* service.  The last section bounds the rounds of the check thread.       *)
(***************************************************************************)
EXTENDS Coordinator, FiniteSetTheorems, SequenceTheorems, NaturalsInduction,
        WellFoundedInduction, TLAPS

-----------------------------------------------------------------------------
(* Taking a descriptor out of the queue: what Without returns.  Its        *)
(* recursion is unfolded along a least counterexample.                     *)

\* Natural numbers are well ordered.
LEMMA LeastCounterexample ==
  ASSUME NEW T, T \subseteq Nat, T # {}
  PROVE  \E n \in T : \A m \in T : ~(m < n)
<1> DEFINE R == {ss \in Nat \X Nat : ss[1] < ss[2]}
<1>1. IsWellFoundedOn(R, Nat)
  BY NatLessThanWellFounded DEF OpToRel
<1>2. \E n \in T : \A m \in T : ~(<<m, n>> \in R)
  <2> HIDE DEF R
  <2> QED BY <1>1, WFMin
<1> QED
  BY <1>2

\* k is the recursive function of Without.
Kept(q, fd, k) ==
  k = [n \in 0 .. Len(q) |->
        IF n = 0 THEN <<>>
        ELSE IF q[n] = fd THEN k[n - 1] ELSE Append(k[n - 1], q[n])]

\* No two places of a sequence hold the same.
NoRepeat(q) == \A a, b \in 1 .. Len(q) : q[a] = q[b] => a = b

\* r is what may be left of the first n places of q: nothing new, no fd, no
\* repetition that was not there, and all of them where fd was not among them.
KeptOK(r, q, fd, n, S) ==
  /\ r \in Seq(S)
  /\ \A a \in 1 .. Len(r) : \E b \in 1 .. n : r[a] = q[b] /\ q[b] # fd
  /\ NoRepeat(q) => NoRepeat(r)
  /\ (\A b \in 1 .. n : q[b] # fd) => Len(r) = n

\* k follows the recursion of Without for the first n places.
KeptUpTo(q, fd, k, n, S) ==
  /\ k[0] = <<>>
  /\ \A i \in 1 .. n : k[i] = IF q[i] = fd THEN k[i - 1] ELSE Append(k[i - 1], q[i])
  /\ \A i \in 0 .. n : KeptOK(k[i], q, fd, i, S)

\* The recursion can be followed one place further.
LEMMA KeptStep ==
  ASSUME NEW S, NEW q \in Seq(S), NEW fd, NEW n \in 1 .. Len(q),
         NEW k, k \in [0 .. n - 1 -> Seq(S)], KeptUpTo(q, fd, k, n - 1, S)
  PROVE  \E l \in [0 .. n -> Seq(S)] : KeptUpTo(q, fd, l, n, S)
<1> DEFINE last == IF q[n] = fd THEN k[n - 1] ELSE Append(k[n - 1], q[n])
           l == [i \in 0 .. n |-> IF i = n THEN last ELSE k[i]]
<1>1. q[n] \in S /\ n - 1 \in 0 .. n - 1 /\ k[n - 1] \in Seq(S)
  BY ElementOfSeq
<1>2. last \in Seq(S)
  BY <1>1, AppendProperties
<1> DEFINE r == k[n - 1]
<1>3. r \in Seq(S) /\ Len(r) \in Nat /\ KeptOK(r, q, fd, n - 1, S)
  BY <1>1, LenProperties DEF KeptUpTo
<1>4. KeptOK(last, q, fd, n, S)
  <2> HIDE DEF r
  <2>1. CASE q[n] = fd
    <3>1. n \in 1 .. n /\ last = r
      BY <2>1 DEF r
    <3> HIDE DEF last
    <3> QED BY <3>1, <2>1, <1>3 DEF KeptOK
  <2>2. CASE q[n] # fd
    <3>1. last = Append(r, q[n])
      BY <2>2 DEF r
    <3>2. /\ Len(last) = Len(r) + 1
          /\ last[Len(r) + 1] = q[n]
          /\ \A a \in 1 .. Len(r) : last[a] = r[a]
      <4>1. r \in Seq(S) /\ q[n] \in S
        BY <1>1, <1>3
      <4> HIDE DEF last
      <4> QED BY <3>1, <4>1, AppendProperties
    <3> HIDE DEF last
    <3>3. \A a \in 1 .. Len(last) : \E b \in 1 .. n : last[a] = q[b] /\ q[b] # fd
      <4> SUFFICES ASSUME NEW a \in 1 .. Len(last)
                   PROVE  \E b \in 1 .. n : last[a] = q[b] /\ q[b] # fd
        OBVIOUS
      <4>1. CASE a \in 1 .. Len(r)
        <5>1. PICK b \in 1 .. n - 1 : r[a] = q[b] /\ q[b] # fd
          BY <4>1, <1>3 DEF KeptOK
        <5> QED BY <5>1, <4>1, <3>2
      <4>2. CASE a = Len(r) + 1
        BY <4>2, <3>2, <2>2
      <4>3. a \in 1 .. Len(r) \/ a = Len(r) + 1
        BY <3>2, <1>3
      <4> QED BY <4>1, <4>2, <4>3
    <3>4. ASSUME NoRepeat(q) PROVE NoRepeat(last)
      <4>1. NoRepeat(r)
        BY <3>4, <1>3 DEF KeptOK
      <4>2. ASSUME NEW a \in 1 .. Len(r) PROVE r[a] # q[n]
        <5>1. PICK b \in 1 .. n - 1 : r[a] = q[b] /\ q[b] # fd
          BY <1>3 DEF KeptOK
        <5>2. b \in 1 .. Len(q) /\ b # n
          BY LenProperties
        <5> QED BY <5>1, <5>2, <3>4 DEF NoRepeat
      <4>3. ASSUME NEW a \in 1 .. Len(last), NEW b \in 1 .. Len(last), last[a] = last[b]
            PROVE  a = b
        <5>1. CASE a \in 1 .. Len(r) /\ b \in 1 .. Len(r)
          BY <5>1, <4>1, <4>3, <3>2 DEF NoRepeat
        <5>2. CASE a \in 1 .. Len(r) /\ b = Len(r) + 1
          BY <5>2, <4>2, <4>3, <3>2
        <5>3. CASE a = Len(r) + 1 /\ b \in 1 .. Len(r)
          BY <5>3, <4>2, <4>3, <3>2
        <5> QED BY <5>1, <5>2, <5>3, <3>2, <1>3
      <4> QED BY <4>3 DEF NoRepeat
    <3>5. ASSUME \A b \in 1 .. n : q[b] # fd PROVE Len(last) = n
      <4>1. Len(r) = n - 1
        BY <3>5, <1>3 DEF KeptOK
      <4> QED BY <4>1, <3>2
    <3> QED BY <3>3, <3>4, <3>5, <1>2 DEF KeptOK
  <2> QED BY <2>1, <2>2
<1>5. l \in [0 .. n -> Seq(S)]
  BY <1>2
<1>6. l[n] = last /\ \A i \in 0 .. n - 1 : l[i] = k[i]
  OBVIOUS
<1>7. KeptUpTo(q, fd, l, n, S)
  <2> HIDE DEF l
  <2>1. l[0] = <<>>
    BY <1>6 DEF KeptUpTo
  <2>2. ASSUME NEW i \in 1 .. n
        PROVE  l[i] = IF q[i] = fd THEN l[i - 1] ELSE Append(l[i - 1], q[i])
    <3>1. l[i - 1] = k[i - 1]
      BY <1>6
    <3>2. CASE i = n
      BY <3>1, <3>2, <1>6
    <3>3. CASE i \in 1 .. n - 1
      <4>1. l[i] = k[i]
        BY <3>3, <1>6
      <4> QED BY <4>1, <3>1, <3>3 DEF KeptUpTo
    <3> QED BY <3>2, <3>3
  <2>3. ASSUME NEW i \in 0 .. n
        PROVE  KeptOK(l[i], q, fd, i, S)
    <3> HIDE DEF last
    <3>1. CASE i = n
      BY <3>1, <1>4, <1>6
    <3>2. CASE i \in 0 .. n - 1
      BY <3>2, <1>6 DEF KeptUpTo
    <3> QED BY <3>1, <3>2
  <2> QED BY <2>1, <2>2, <2>3 DEF KeptUpTo
<1> QED BY <1>5, <1>7

\* The recursion can be followed to the end of the queue.
LEMMA KeptExists ==
  ASSUME NEW S, NEW q \in Seq(S), NEW fd
  PROVE  \E k \in [0 .. Len(q) -> Seq(S)] : KeptUpTo(q, fd, k, Len(q), S)
<1> DEFINE Has(n) == \E k \in [0 .. n -> Seq(S)] : KeptUpTo(q, fd, k, n, S)
           T == {n \in 0 .. Len(q) : ~Has(n)}
<1>1. Len(q) \in Nat
  BY LenProperties
<1>2. Has(0)
  <2> DEFINE k == [n \in 0 .. 0 |-> <<>>]
  <2>1. k \in [0 .. 0 -> Seq(S)] /\ k[0] = <<>>
    BY EmptySeq
  <2>2. KeptOK(<<>>, q, fd, 0, S)
    BY EmptySeq DEF KeptOK, NoRepeat
  <2>3. KeptUpTo(q, fd, k, 0, S)
    BY <2>1, <2>2 DEF KeptUpTo
  <2> QED BY <2>1, <2>3
<1>3. ASSUME T # {} PROVE FALSE
  <2> HIDE DEF Has
  <2>1. T \subseteq Nat
    OBVIOUS
  <2>2. PICK n \in T : \A m \in T : ~(m < n)
    BY <1>3, <2>1, LeastCounterexample
  <2>3. n \in 1 .. Len(q)
    BY <1>1, <1>2
  <2>4. Has(n - 1)
    BY <2>2, <2>3
  <2>5. Has(n)
    BY <2>3, <2>4, KeptStep DEF Has
  <2> QED BY <2>5
<1> QED BY <1>1, <1>3

\* What erase(remove(fd)) leaves holds only what was there, without fd, repeats
\* nothing that was not repeated, and is no shorter where fd was not there.
LEMMA WithoutProperties ==
  ASSUME NEW S, NEW q \in Seq(S), NEW fd
  PROVE  KeptOK(Without(q, fd), q, fd, Len(q), S)
<1> DEFINE w == CHOOSE k : Kept(q, fd, k)
<1>0. Len(q) \in Nat
  BY LenProperties
<1>1. PICK k \in [0 .. Len(q) -> Seq(S)] : KeptUpTo(q, fd, k, Len(q), S)
  BY KeptExists
<1>2. Kept(q, fd, k)
  <2> DEFINE r == [n \in 0 .. Len(q) |->
        IF n = 0 THEN <<>>
        ELSE IF q[n] = fd THEN k[n - 1] ELSE Append(k[n - 1], q[n])]
  <2>1. ASSUME NEW n \in 0 .. Len(q) PROVE k[n] = r[n]
    <3>1. CASE n = 0
      BY <3>1, <1>1 DEF KeptUpTo
    <3>2. CASE n \in 1 .. Len(q)
      BY <3>2, <1>1, <1>0 DEF KeptUpTo
    <3> QED BY <3>1, <3>2, <1>0
  <2> QED BY <2>1, <1>1 DEF Kept
<1>3. Kept(q, fd, w)
  BY <1>2
<1>4. Without(q, fd) = w[Len(q)]
  BY DEF Without, Kept
<1>5. w = k
  <2> HIDE DEF w
  <2> DEFINE T == {n \in 0 .. Len(q) : w[n] # k[n]}
  <2>1. ASSUME T # {} PROVE FALSE
    <3>1. T \subseteq Nat
      OBVIOUS
    <3>2. PICK n \in T : \A m \in T : ~(m < n)
      BY <2>1, <3>1, LeastCounterexample
    <3>3. n # 0
      BY <1>2, <1>3, <1>0 DEF Kept
    <3>4. n - 1 \in 0 .. Len(q) /\ w[n - 1] = k[n - 1]
      BY <3>2, <3>3, <1>0
    <3>5. w[n] = k[n]
      BY <3>4, <3>3, <1>2, <1>3, <1>0 DEF Kept
    <3> QED BY <3>5
  <2>2. \A n \in 0 .. Len(q) : w[n] = k[n]
    BY <2>1
  <2>3. DOMAIN w = 0 .. Len(q) /\ w = [n \in DOMAIN w |-> w[n]]
    BY <1>3 DEF Kept
  <2> QED BY <2>2, <2>3, <1>1
<1> HIDE DEF w
<1> QED BY <1>0, <1>1, <1>4, <1>5 DEF KeptUpTo

-----------------------------------------------------------------------------
(* Types and control. *)

\* The Match messages of TypeOK.
MatchMessage ==
  [server : ServerId, epoch : 0 .. MaxEpoch, seat : {1, 2},
   to : Client \cup {Nobody}, meant : Client \cup {Nobody}]

\* What the check thread holds at each of its places.
ControlOK ==
  /\ check = "query_wait" =>
       request.kind = "query" /\ request.answer \in Phase \cup {"none"}
  /\ check = "prepare_wait" =>
       request.kind = "prepare" /\ request.answer \in {"none", "ignored", "tokens"}
  /\ check \notin {"query_wait", "prepare_wait"} => request = NoRequest
  /\ check \in {"front", "pop", "send"} => match # NoRequest
  /\ check \in {"pop", "send"} => in_hand \in Fd

\* A step keeps the types, and the check thread its place.
LEMMA TypeStep ==
  ASSUME TypeOK, ControlOK, [Next]_vars
  PROVE  TypeOK' /\ ControlOK'
<1> USE CoordinatorAssumption
<1>1. ASSUME NEW c \in Client, Connect(c)
      PROVE  TypeOK' /\ ControlOK'
  BY <1>1 DEF Connect, queueVars, serverVars, checkVars, TypeOK, ControlOK,
    Phase, NoRequest
<1>2. ASSUME NEW c \in Client, SendSearch(c)
      PROVE  TypeOK' /\ ControlOK'
  BY <1>2 DEF SendSearch, queueVars, serverVars, checkVars, TypeOK, ControlOK,
    Phase, NoRequest
<1>3. ASSUME NEW c \in Client, Close(c)
      PROVE  TypeOK' /\ ControlOK'
  BY <1>3 DEF Close, queueVars, serverVars, checkVars, TypeOK, ControlOK,
    Phase, NoRequest
<1>4. ASSUME NEW c \in Client, NEW fd \in Fd, Accept(c, fd)
      PROVE  TypeOK' /\ ControlOK'
  BY <1>4 DEF Accept, serverVars, checkVars, Running, TypeOK, ControlOK, Phase,
    NoRequest
<1>5. ASSUME NEW fd \in Fd, ReadSearch(fd)
      PROVE  TypeOK' /\ ControlOK'
  BY <1>5 DEF ReadSearch, serverVars, checkVars, Running, TypeOK, ControlOK,
    Phase, NoRequest
<1>6. ASSUME NEW fd \in Fd, CloseSocket(fd)
      PROVE  TypeOK' /\ ControlOK'
  BY <1>6 DEF CloseSocket, clientVars, serverVars, checkVars, TypeOK, ControlOK,
    Phase, NoRequest
<1>24. ASSUME EraseSearching
      PROVE  TypeOK' /\ ControlOK'
  <2>1. Without(searching_clients, leaving) \in Seq(Fd)
    BY WithoutProperties DEF KeptOK, TypeOK
  <2> QED BY <1>24, <2>1
    DEF EraseSearching, clientVars, serverVars, checkVars, TypeOK, ControlOK,
        Phase, NoRequest
<1>25. ASSUME EraseClient
      PROVE  TypeOK' /\ ControlOK'
  BY <1>25 DEF EraseClient, clientVars, serverVars, checkVars, TypeOK, ControlOK,
    Phase, NoRequest
<1>7. ASSUME Wake
      PROVE  TypeOK' /\ ControlOK'
  BY <1>7 DEF Wake, queueVars, clientVars, serverVars, TypeOK, ControlOK,
    Phase, NoRequest
<1>8. ASSUME NEW s \in ServerId, SendQuery(s)
      PROVE  TypeOK' /\ ControlOK'
  BY <1>8 DEF SendQuery, queueVars, clientVars, serverVars, Send, TypeOK,
    ControlOK, Phase, NoRequest
<1>9. ASSUME ReceiveStatus
      PROVE  TypeOK' /\ ControlOK'
  BY <1>9 DEF ReceiveStatus, queueVars, clientVars, serverVars, NoRequest,
    TypeOK, ControlOK, Phase
<1>10. ASSUME Matchmake
      PROVE  TypeOK' /\ ControlOK'
  BY <1>10 DEF Matchmake, queueVars, clientVars, serverVars, TypeOK, ControlOK,
    Phase, NoRequest
<1>11. ASSUME NEW s \in ServerId, SendPrepare(s)
      PROVE  TypeOK' /\ ControlOK'
  BY <1>11 DEF SendPrepare, queueVars, clientVars, serverVars, Send, TypeOK,
    ControlOK, Phase, NoRequest
<1>12. ASSUME NoPreparedServer
      PROVE  TypeOK' /\ ControlOK'
  BY <1>12 DEF NoPreparedServer, queueVars, clientVars, serverVars, TypeOK,
    ControlOK, Phase, NoRequest
<1>13. ASSUME ReceiveTokens
      PROVE  TypeOK' /\ ControlOK'
  <2>1. /\ request.server \in ServerId /\ request.epoch \in 0 .. MaxEpoch
    BY <1>13 DEF ReceiveTokens, TypeOK, ControlOK, NoRequest
  <2>2. match' \in [server : ServerId, epoch : 0 .. MaxEpoch] /\ match' # NoRequest
    BY <1>13, <2>1 DEF ReceiveTokens, NoRequest
  <2>3. server_list' \in [ServerId -> Phase]
    BY <1>13, <2>1 DEF ReceiveTokens, TypeOK, Phase
  <2> QED
    BY <1>13, <2>2, <2>3
      DEF ReceiveTokens, queueVars, clientVars, serverVars, NoRequest, TypeOK,
          ControlOK, Phase
<1>14. ASSUME Timeout
      PROVE  TypeOK' /\ ControlOK'
  BY <1>14 DEF Timeout, queueVars, clientVars, NoRequest, TypeOK, ControlOK,
    Phase
<1>15. ASSUME ReadFront
      PROVE  TypeOK' /\ ControlOK'
  BY <1>15 DEF ReadFront, queueVars, clientVars, serverVars, TypeOK, ControlOK,
    Phase, NoRequest
<1>16. ASSUME PopFront
      PROVE  TypeOK' /\ ControlOK'
  <2>1. searching_clients' \in Seq(Fd)
    <3>1. CASE searching_clients = <<>>
      BY <1>16, <3>1 DEF PopFront, TypeOK
    <3>2. CASE searching_clients # <<>>
      <4>1. Tail(searching_clients) \in Seq(Fd)
        BY <3>2, HeadTailProperties DEF TypeOK
      <4> QED BY <1>16, <3>2, <4>1 DEF PopFront
    <3> QED BY <3>1, <3>2
  <2> QED BY <1>16, <2>1
    DEF PopFront, clientVars, serverVars, TypeOK, ControlOK, Phase, NoRequest
<1>17. ASSUME SendMatch
      PROVE  TypeOK' /\ ControlOK'
  <2>1. matches' \in Seq(MatchMessage)
    <3>1. MatchOf(seat) \in MatchMessage
      BY <1>17 DEF SendMatch, MatchOf, Recipient, MatchMessage, TypeOK, ControlOK, NoRequest
    <3>2. matches \in Seq(MatchMessage)
      BY DEF TypeOK, MatchMessage
    <3> QED BY <1>17, <3>1, <3>2, AppendProperties DEF SendMatch
  <2> QED BY <1>17, <2>1 DEF SendMatch, queueVars, clientVars, serverVars, TypeOK,
      ControlOK, Phase, NoRequest, MatchMessage
<1>18. ASSUME ServeQuery
      PROVE  TypeOK' /\ ControlOK'
  BY <1>18 DEF ServeQuery, queueVars, clientVars, serverVars, TypeOK,
    ControlOK, Phase, NoRequest
<1>19. ASSUME ServePrepare
      PROVE  TypeOK' /\ ControlOK'
  <2>1. request \in [kind : {"query", "prepare"}, server : ServerId,
                     answer : Phase \cup {"none", "ignored", "tokens"}, epoch : 0 .. MaxEpoch]
    BY <1>19 DEF ServePrepare, TypeOK, NoRequest
  <2>2. /\ request.server \in ServerId /\ epoch[request.server] \in 0 .. MaxEpoch
        /\ check = "prepare_wait"
    BY <1>19, <2>1 DEF ServePrepare, TypeOK, ControlOK, NoRequest
  <2>3. /\ request' \in [kind : {"query", "prepare"}, server : ServerId,
                         answer : Phase \cup {"none", "ignored", "tokens"}, epoch : 0 .. MaxEpoch]
        /\ request'.kind = "prepare" /\ request'.answer \in {"none", "ignored", "tokens"}
    BY <1>19, <2>1, <2>2 DEF ServePrepare
  <2>4. server_phase' \in [ServerId -> Phase \ {"UNKNOWN"}]
    BY <1>19, <2>2 DEF ServePrepare, Prepared, TypeOK, Phase
  <2> QED
    BY <1>19, <2>2, <2>3, <2>4
      DEF ServePrepare, queueVars, clientVars, TypeOK, ControlOK
<1>20. ASSUME NEW s \in ServerId, LatePrepare(s)
      PROVE  TypeOK' /\ ControlOK'
  BY <1>20 DEF LatePrepare, queueVars, clientVars, checkVars, Prepared, TypeOK,
    ControlOK, Phase, NoRequest
<1>21. ASSUME NEW s \in ServerId, MatchStarts(s)
      PROVE  TypeOK' /\ ControlOK'
  BY <1>21 DEF MatchStarts, queueVars, clientVars, checkVars, TypeOK,
    ControlOK, Phase, NoRequest
<1>22. ASSUME NEW s \in ServerId, Restart(s)
      PROVE  TypeOK' /\ ControlOK'
  BY <1>22 DEF Restart, queueVars, clientVars, checkVars, TypeOK, ControlOK,
    Phase, NoRequest
<1>23. CASE UNCHANGED vars
  BY <1>23 DEF vars, queueVars, clientVars, serverVars, checkVars, TypeOK,
    ControlOK, Phase, NoRequest
<1> QED
  BY <1>1, <1>2, <1>3, <1>4, <1>5, <1>6, <1>7, <1>8, <1>9, <1>10, <1>11, <1>12,
    <1>13, <1>14, <1>15, <1>16, <1>17, <1>18, <1>19, <1>20, <1>21, <1>22, <1>23,
    <1>24, <1>25
    DEF Next, Listener, CheckThread, Environment, Answer

-----------------------------------------------------------------------------
(* The connections behind the queue. *)

\* A client waits in the queue.
Queued(c) == \E i \in 1 .. Len(searching_clients) : conn[searching_clients[i]] = c

\* A descriptor is watched while it is a connection, no client has two, and a
\* client is in one place at a time: about to connect, about to be accepted,
\* about to have its Search read, or queued.  The one the listener is forgetting
\* is of a client that closed.
ConnectionsOK ==
  /\ \A fd \in Fd : fd \in clients <=> conn[fd] # Nobody
  /\ \A fd, gd \in Fd : conn[fd] = conn[gd] /\ conn[fd] # Nobody => fd = gd
  /\ \A c \in Client : stage[c] = "new" \/ c \in backlog => \A fd \in Fd : conn[fd] # c
  /\ \A c \in backlog : stage[c] # "new"
  /\ \A c \in unread : stage[c] \notin {"new", "connected"}
  /\ \A c \in Client : Queued(c) => c \notin unread /\ stage[c] \notin {"new", "connected"}
  /\ listener = "select" => leaving = Nobody
  /\ listener # "select" =>
       /\ leaving \in clients /\ conn[leaving] \notin unread
       /\ stage[conn[leaving]] = "closed"

\* A step keeps the queue to connections the listener knows, each at most once.
LEMMA ConnectionsStep ==
  ASSUME TypeOK, ControlOK, ConnectionsOK, QueuedAreConnected, [Next]_vars
  PROVE  ConnectionsOK' /\ QueuedAreConnected'
<1> USE CoordinatorAssumption
<1>1. ASSUME UNCHANGED <<clients, searching_clients, conn, listener, leaving, clientVars>>
      PROVE  ConnectionsOK' /\ QueuedAreConnected'
  BY <1>1 DEF clientVars, ConnectionsOK, Queued, QueuedAreConnected, Elements
<1>2. ASSUME \/ Wake \/ ReceiveStatus \/ Matchmake \/ NoPreparedServer
              \/ ReceiveTokens \/ Timeout \/ ReadFront \/ SendMatch
              \/ ServeQuery \/ ServePrepare \/ UNCHANGED vars
      PROVE  ConnectionsOK' /\ QueuedAreConnected'
  BY <1>1, <1>2 DEF Wake, ReceiveStatus, Matchmake, NoPreparedServer,
    ReceiveTokens, Timeout, ReadFront, SendMatch, ServeQuery, ServePrepare,
    vars, queueVars, clientVars, serverVars, checkVars
<1>3. ASSUME NEW s \in ServerId,
              \/ SendQuery(s) \/ SendPrepare(s) \/ LatePrepare(s)
              \/ MatchStarts(s) \/ Restart(s)
      PROVE  ConnectionsOK' /\ QueuedAreConnected'
  BY <1>1, <1>3 DEF SendQuery, SendPrepare, LatePrepare, MatchStarts, Restart,
    queueVars, clientVars, serverVars, checkVars
<1>4. ASSUME NEW c \in Client, Connect(c)
      PROVE  ConnectionsOK' /\ QueuedAreConnected'
  BY <1>4 DEF Connect, queueVars, serverVars, checkVars, TypeOK, ConnectionsOK,
    Queued, QueuedAreConnected, Elements, NoRepeat
<1>5. ASSUME NEW c \in Client, SendSearch(c)
      PROVE  ConnectionsOK' /\ QueuedAreConnected'
  BY <1>5 DEF SendSearch, queueVars, serverVars, checkVars, TypeOK,
    ConnectionsOK, Queued, QueuedAreConnected, Elements, NoRepeat
<1>6. ASSUME NEW c \in Client, Close(c)
      PROVE  ConnectionsOK' /\ QueuedAreConnected'
  BY <1>6 DEF Close, queueVars, serverVars, checkVars, TypeOK, ConnectionsOK,
    Queued, QueuedAreConnected, Elements, NoRepeat
<1>7. ASSUME NEW c \in Client, NEW fd \in Fd, Accept(c, fd)
      PROVE  ConnectionsOK' /\ QueuedAreConnected'
  BY <1>7 DEF Accept, serverVars, checkVars, Running, TypeOK, ConnectionsOK,
    Queued, QueuedAreConnected, Elements, NoRepeat
<1>8. ASSUME NEW fd \in Fd, ReadSearch(fd)
      PROVE  ConnectionsOK' /\ QueuedAreConnected'
  BY <1>8, AppendProperties
    DEF ReadSearch, serverVars, checkVars, Running, TypeOK, ConnectionsOK,
        Queued, QueuedAreConnected, Elements, NoRepeat
<1>9. ASSUME NEW fd \in Fd, CloseSocket(fd)
      PROVE  ConnectionsOK' /\ QueuedAreConnected'
  BY <1>9 DEF CloseSocket, Listening, clientVars, serverVars, checkVars, TypeOK,
    ConnectionsOK, Queued, QueuedAreConnected, Elements
<1>11. ASSUME EraseSearching
      PROVE  ConnectionsOK' /\ QueuedAreConnected'
  <2> DEFINE r == Without(searching_clients, leaving)
  <2>0. KeptOK(r, searching_clients, leaving, Len(searching_clients), Fd)
    BY WithoutProperties DEF TypeOK
  <2> HIDE DEF r
  <2>1. /\ searching_clients' = r /\ listener = "closed" /\ listener' = "erased"
        /\ UNCHANGED <<clients, conn, leaving, clientVars>>
    BY <1>11 DEF EraseSearching, r
  <2>2. /\ Len(r) \in Nat /\ Len(searching_clients) \in Nat
        /\ \A i \in 1 .. Len(r) : \E j \in 1 .. Len(searching_clients) :
             r[i] = searching_clients[j] /\ r[i] # leaving
    BY <2>0, LenProperties DEF KeptOK, TypeOK
  <2>3. NoRepeat(r)
    BY <2>0 DEF KeptOK, NoRepeat, QueuedAreConnected
  <2>4. QueuedAreConnected'
    BY <2>1, <2>2, <2>3 DEF QueuedAreConnected, Elements, NoRepeat
  <2>5. \A c \in Client : Queued(c)' => Queued(c)
    BY <2>1, <2>2 DEF Queued
  <2>6. ConnectionsOK'
    BY <2>1, <2>5 DEF ConnectionsOK, clientVars
  <2> QED BY <2>4, <2>6
<1>12. ASSUME EraseClient
      PROVE  ConnectionsOK' /\ QueuedAreConnected'
  <2>1. /\ leaving \in clients /\ leaving \in Fd /\ leaving \notin Elements(searching_clients)
        /\ listener' = "select" /\ leaving' = Nobody
        /\ clients' = clients \ {leaving} /\ conn' = [conn EXCEPT ![leaving] = Nobody]
        /\ UNCHANGED <<searching_clients, clientVars>>
    BY <1>12 DEF EraseClient, ConnectionsOK, QueuedAreConnected, TypeOK
  <2>2. QueuedAreConnected'
    <3>1. Elements(searching_clients) \subseteq Fd
      BY DEF QueuedAreConnected, TypeOK
    <3> QED BY <2>1, <3>1 DEF QueuedAreConnected, Elements
  <2>3. \A c \in Client : Queued(c)' => Queued(c)
    <3> SUFFICES ASSUME NEW c \in Client, Queued(c)' PROVE Queued(c)
      OBVIOUS
    <3>1. PICK i \in 1 .. Len(searching_clients) : conn'[searching_clients[i]] = c
      BY <2>1 DEF Queued
    <3>2. searching_clients[i] # leaving /\ searching_clients[i] \in Fd
      BY <2>1, ElementOfSeq DEF Elements, TypeOK
    <3> QED BY <2>1, <3>1, <3>2 DEF Queued, TypeOK
  <2>4. ConnectionsOK'
    BY <2>1, <2>3 DEF TypeOK, ConnectionsOK, clientVars
  <2> QED BY <2>2, <2>4
<1>10. ASSUME PopFront
      PROVE  ConnectionsOK' /\ QueuedAreConnected'
  <2> DEFINE q == searching_clients
  <2>1. CASE q = <<>>
    BY <1>10, <2>1
      DEF PopFront, clientVars, serverVars, TypeOK, ConnectionsOK, Queued,
          QueuedAreConnected, Elements, NoRepeat
  <2>2. CASE q # <<>>
    <3>1. /\ Tail(q) \in Seq(Fd) /\ Len(Tail(q)) = Len(q) - 1
          /\ \A i \in 1 .. Len(Tail(q)) : Tail(q)[i] = q[i + 1]
          /\ Len(q) \in Nat
      BY <2>2, HeadTailProperties, LenProperties DEF TypeOK
    <3>2. q' = Tail(q)
      BY <1>10, <2>2 DEF PopFront
    <3>3. UNCHANGED <<clients, conn, listener, leaving, clientVars>>
      BY <1>10 DEF PopFront
    <3>4. \A i \in 1 .. Len(q') : i + 1 \in 1 .. Len(q) /\ q'[i] = q[i + 1]
      BY <3>1, <3>2
    <3>5. QueuedAreConnected'
      <4>1. Elements(q') \subseteq clients'
        BY <3>3, <3>4 DEF QueuedAreConnected, Elements
      <4>2. ASSUME NEW i \in 1 .. Len(q'), NEW j \in 1 .. Len(q'), q'[i] = q'[j]
            PROVE  i = j
        BY <3>4, <4>2 DEF QueuedAreConnected
      <4>3. Elements(q') \subseteq Elements(q)
        BY <3>4 DEF Elements
      <4> QED BY <3>3, <4>1, <4>2, <4>3 DEF QueuedAreConnected
    <3>6. \A c \in Client : Queued(c)' => Queued(c)
      BY <3>3, <3>4 DEF Queued
    <3>7. ConnectionsOK'
      BY <3>3, <3>6 DEF ConnectionsOK, clientVars
    <3> QED BY <3>5, <3>7
  <2> QED BY <2>1, <2>2
<1> QED
  BY <1>1, <1>2, <1>3, <1>4, <1>5, <1>6, <1>7, <1>8, <1>9, <1>10, <1>11, <1>12
    DEF Next, Listener, CheckThread, Environment, Answer

-----------------------------------------------------------------------------
(* Seats. *)

\* The check thread has two tokens to give away.
HandingOut == check \in {"front", "pop", "send"}

\* The tokens of process e of server s are given away and do not come again.
Spent(s, e) == e <= epoch[s] /\ (e = epoch[s] => server_phase[s] # "WAITING")

\* A match that was, is being or is about to be handed out is spent; the one
\* being handed out has sent only the seats before the next one, the one that
\* just came none.
SeatsOK ==
  /\ \A i \in 1 .. Len(matches) : Spent(matches[i].server, matches[i].epoch)
  /\ HandingOut =>
       /\ Spent(match.server, match.epoch)
       /\ \A i \in 1 .. Len(matches) :
            matches[i].server = match.server /\ matches[i].epoch = match.epoch
            => matches[i].seat < seat
  /\ request.kind = "prepare" /\ request.answer = "tokens" =>
       /\ Spent(request.server, request.epoch)
       /\ \A i \in 1 .. Len(matches) :
            ~(matches[i].server = request.server /\ matches[i].epoch = request.epoch)

\* SendMatch adds one Match, of the seat that is next, to those that were sent.
LEMMA MatchIsAppended ==
  ASSUME TypeOK, ControlOK, SendMatch
  PROVE  /\ Len(matches) \in Nat /\ Len(matches') = Len(matches) + 1
         /\ \A i \in 1 .. Len(matches) :
              matches[i] \in MatchMessage /\ matches'[i] = matches[i]
         /\ matches'[Len(matches) + 1] =
              [server |-> match.server, epoch |-> match.epoch, seat |-> seat,
               to |-> Recipient, meant |-> chosen]
         /\ seat \in Nat
<1> USE CoordinatorAssumption
<1> DEFINE m == [server |-> match.server, epoch |-> match.epoch, seat |-> seat,
                 to |-> Recipient, meant |-> chosen]
<1>1. /\ m \in MatchMessage /\ matches \in Seq(MatchMessage)
      /\ matches' = Append(matches, m) /\ seat \in Nat
  BY DEF SendMatch, MatchOf, Recipient, TypeOK, ControlOK, NoRequest, MatchMessage
<1> HIDE DEF m
<1>2. /\ Len(matches) \in Nat /\ Len(matches') = Len(matches) + 1
      /\ \A i \in 1 .. Len(matches) : matches'[i] = matches[i]
      /\ matches'[Len(matches) + 1] = m
  BY <1>1, AppendProperties, LenProperties
<1>3. \A i \in 1 .. Len(matches) : matches[i] \in MatchMessage
  BY <1>1, ElementOfSeq
<1> QED BY <1>1, <1>2, <1>3 DEF m

\* A step gives no seat away that was given before.
LEMMA SeatsStep ==
  ASSUME TypeOK, ControlOK, SeatsOK, NoSeatTwice, [Next]_vars
  PROVE  SeatsOK' /\ NoSeatTwice'
<1> USE CoordinatorAssumption
<1>1. ASSUME UNCHANGED <<serverVars, checkVars>>
      PROVE  SeatsOK' /\ NoSeatTwice'
  BY <1>1 DEF serverVars, checkVars, TypeOK, ControlOK, SeatsOK, HandingOut,
    Spent, NoSeatTwice, NoRequest
<1>2. ASSUME NEW c \in Client,
              \/ Connect(c) \/ SendSearch(c) \/ Close(c)
      PROVE  SeatsOK' /\ NoSeatTwice'
  BY <1>1, <1>2 DEF Connect, SendSearch, Close, queueVars, clientVars,
    serverVars, checkVars
<1>3. ASSUME NEW c \in Client, NEW fd \in Fd,
              \/ Accept(c, fd)
      PROVE  SeatsOK' /\ NoSeatTwice'
  BY <1>1, <1>3 DEF Accept, queueVars, clientVars, serverVars, checkVars
<1>4. ASSUME NEW fd \in Fd,
              \/ ReadSearch(fd) \/ CloseSocket(fd)
      PROVE  SeatsOK' /\ NoSeatTwice'
  BY <1>1, <1>4 DEF ReadSearch, CloseSocket, queueVars, clientVars, serverVars,
    checkVars
<1>22. ASSUME EraseSearching \/ EraseClient
      PROVE  SeatsOK' /\ NoSeatTwice'
  BY <1>1, <1>22 DEF EraseSearching, EraseClient, clientVars, serverVars, checkVars
<1>5. ASSUME \/ UNCHANGED vars
      PROVE  SeatsOK' /\ NoSeatTwice'
  BY <1>1, <1>5 DEF vars, queueVars, clientVars, serverVars, checkVars
<1>6. ASSUME Wake
      PROVE  SeatsOK' /\ NoSeatTwice'
  BY <1>6 DEF Wake, queueVars, clientVars, serverVars, TypeOK, ControlOK,
    SeatsOK, HandingOut, Spent, NoSeatTwice, NoRequest
<1>7. ASSUME NEW s \in ServerId, SendQuery(s)
      PROVE  SeatsOK' /\ NoSeatTwice'
  BY <1>7 DEF SendQuery, queueVars, clientVars, serverVars, Send, TypeOK,
    ControlOK, SeatsOK, HandingOut, Spent, NoSeatTwice, NoRequest
<1>8. ASSUME ReceiveStatus
      PROVE  SeatsOK' /\ NoSeatTwice'
  BY <1>8 DEF ReceiveStatus, queueVars, clientVars, serverVars, NoRequest,
    TypeOK, ControlOK, SeatsOK, HandingOut, Spent, NoSeatTwice
<1>9. ASSUME Matchmake
      PROVE  SeatsOK' /\ NoSeatTwice'
  BY <1>9 DEF Matchmake, queueVars, clientVars, serverVars, TypeOK, ControlOK,
    SeatsOK, HandingOut, Spent, NoSeatTwice, NoRequest
<1>10. ASSUME NEW s \in ServerId, SendPrepare(s)
      PROVE  SeatsOK' /\ NoSeatTwice'
  BY <1>10 DEF SendPrepare, queueVars, clientVars, serverVars, Send, TypeOK,
    ControlOK, SeatsOK, HandingOut, Spent, NoSeatTwice, NoRequest
<1>11. ASSUME NoPreparedServer
      PROVE  SeatsOK' /\ NoSeatTwice'
  BY <1>11 DEF NoPreparedServer, queueVars, clientVars, serverVars, TypeOK,
    ControlOK, SeatsOK, HandingOut, Spent, NoSeatTwice, NoRequest
<1>12. ASSUME ReceiveTokens
      PROVE  SeatsOK' /\ NoSeatTwice'
  BY <1>12 DEF ReceiveTokens, queueVars, clientVars, serverVars, NoRequest,
    TypeOK, ControlOK, SeatsOK, HandingOut, Spent, NoSeatTwice
<1>13. ASSUME Timeout
      PROVE  SeatsOK' /\ NoSeatTwice'
  BY <1>13 DEF Timeout, queueVars, clientVars, NoRequest, TypeOK, ControlOK,
    SeatsOK, HandingOut, Spent, NoSeatTwice
<1>14. ASSUME ReadFront
      PROVE  SeatsOK' /\ NoSeatTwice'
  BY <1>14 DEF ReadFront, queueVars, clientVars, serverVars, TypeOK, ControlOK,
    SeatsOK, HandingOut, Spent, NoSeatTwice, NoRequest
<1>15. ASSUME PopFront
      PROVE  SeatsOK' /\ NoSeatTwice'
  BY <1>15 DEF PopFront, clientVars, serverVars, TypeOK, ControlOK, SeatsOK,
    HandingOut, Spent, NoSeatTwice, NoRequest
<1>16. ASSUME SendMatch
      PROVE  SeatsOK' /\ NoSeatTwice'
  <2> DEFINE m == matches'[Len(matches) + 1]
  <2>1. /\ Len(matches) \in Nat /\ Len(matches') = Len(matches) + 1
        /\ \A i \in 1 .. Len(matches) :
             matches[i] \in MatchMessage /\ matches'[i] = matches[i]
        /\ matches'[Len(matches) + 1] = m
    BY <1>16, MatchIsAppended
  <2>2. /\ m.server = match.server /\ m.epoch = match.epoch /\ m.seat = seat
        /\ m.to = Recipient /\ m.meant = chosen /\ seat \in Nat
    BY <1>16, MatchIsAppended
  <2> HIDE DEF m
  <2>3. \A i \in 1 .. Len(matches) :
          matches[i].server = m.server /\ matches[i].epoch = m.epoch => matches[i].seat < m.seat
    BY <1>16, <2>2 DEF SendMatch, SeatsOK, HandingOut
  <2>4. NoSeatTwice'
    <3> SUFFICES ASSUME NEW i \in 1 .. Len(matches'), NEW j \in 1 .. Len(matches'),
                        matches'[i].server = matches'[j].server,
                        matches'[i].epoch = matches'[j].epoch,
                        matches'[i].seat = matches'[j].seat
                 PROVE  i = j
      BY DEF NoSeatTwice
    <3>1. CASE i \in 1 .. Len(matches) /\ j \in 1 .. Len(matches)
      <4>1. matches'[i] = matches[i] /\ matches'[j] = matches[j]
        BY <3>1, <2>1
      <4> QED BY <3>1, <4>1 DEF NoSeatTwice
    <3>2. CASE i \in 1 .. Len(matches) /\ j = Len(matches) + 1
      <4>1. matches'[i] = matches[i] /\ matches'[j] = m
        BY <3>2, <2>1
      <4> QED BY <3>2, <4>1, <2>2, <2>3
    <3>3. CASE i = Len(matches) + 1 /\ j \in 1 .. Len(matches)
      <4>1. matches'[i] = m /\ matches'[j] = matches[j]
        BY <3>3, <2>1
      <4> QED BY <3>3, <4>1, <2>2, <2>3
    <3> QED BY <3>1, <3>2, <3>3, <2>1
  <2>5. /\ server_phase' = server_phase /\ epoch' = epoch /\ match' = match
        /\ request' = request /\ check = "send" /\ check' \in {"front", "sleep"}
        /\ check' = "front" => seat = 1 /\ seat' = 2
        /\ request = NoRequest
    BY <1>16 DEF SendMatch, serverVars, ControlOK
  <2>6. \A i \in 1 .. Len(matches') : Spent(matches[i].server, matches[i].epoch)'
    <3> SUFFICES ASSUME NEW i \in 1 .. Len(matches')
                 PROVE  Spent(matches[i].server, matches[i].epoch)'
      OBVIOUS
    <3>1. CASE i \in 1 .. Len(matches)
      BY <3>1, <2>1, <2>5 DEF SeatsOK, Spent
    <3>2. CASE i = Len(matches) + 1
      BY <3>2, <2>1, <2>2, <2>5 DEF SeatsOK, HandingOut, Spent
    <3> QED BY <3>1, <3>2, <2>1
  <2>7. SeatsOK'
    <3>1. HandingOut' =>
            \A i \in 1 .. Len(matches') :
              matches'[i].server = match'.server /\ matches'[i].epoch = match'.epoch
              => matches'[i].seat < seat'
      <4> SUFFICES ASSUME HandingOut', NEW i \in 1 .. Len(matches'),
                          matches'[i].server = match'.server,
                          matches'[i].epoch = match'.epoch
                   PROVE  matches'[i].seat < seat'
        OBVIOUS
      <4>1. seat = 1 /\ seat' = 2
        BY <2>5 DEF HandingOut
      <4>2. CASE i \in 1 .. Len(matches)
        <5>1. matches'[i] = matches[i] /\ matches[i] \in MatchMessage
          BY <4>2, <2>1
        <5> QED BY <5>1, <4>1, <4>2, <2>2, <2>3, <2>5 DEF MatchMessage
      <4>3. CASE i = Len(matches) + 1
        BY <4>1, <4>3, <2>1, <2>2
      <4> QED BY <4>2, <4>3, <2>1
    <3>2. HandingOut /\ (HandingOut' => Spent(match.server, match.epoch)')
      BY <2>5 DEF SeatsOK, HandingOut, Spent
    <3>3. ~(request'.kind = "prepare")
      BY <2>5 DEF NoRequest
    <3> QED BY <2>5, <2>6, <3>1, <3>2, <3>3 DEF SeatsOK
  <2> QED BY <2>4, <2>7
<1>17. ASSUME ServeQuery
      PROVE  SeatsOK' /\ NoSeatTwice'
  BY <1>17 DEF ServeQuery, queueVars, clientVars, serverVars, TypeOK,
    ControlOK, SeatsOK, HandingOut, Spent, NoSeatTwice, NoRequest
<1>18. ASSUME ServePrepare
      PROVE  SeatsOK' /\ NoSeatTwice'
  <2> DEFINE s == request.server
  <2>1. /\ request.kind = "prepare" /\ s \in ServerId /\ epoch[s] \in 0 .. MaxEpoch
        /\ server_phase' = [server_phase EXCEPT ![s] = IF @ = "WAITING" THEN "PREPARING" ELSE @]
        /\ request' = [request EXCEPT
             !.answer = IF server_phase[s] = "WAITING" THEN "tokens" ELSE "ignored", !.epoch = epoch[s]]
        /\ UNCHANGED <<check, match, seat, matches, epoch>>
    BY <1>18 DEF ServePrepare, Prepared, TypeOK, NoRequest
  <2>2. /\ request'.server = s /\ request'.epoch = epoch[s]
        /\ request'.answer = "tokens" => server_phase[s] = "WAITING" /\ server_phase'[s] = "PREPARING"
    BY <2>1 DEF TypeOK, NoRequest
  <2> HIDE DEF s
  <2>3. ASSUME NEW r, NEW e, Spent(r, e)
        PROVE  Spent(r, e)'
    BY <2>1, <2>3 DEF TypeOK, Spent
  <2>4. ASSUME request'.answer = "tokens"
        PROVE  /\ Spent(request.server, request.epoch)'
               /\ \A i \in 1 .. Len(matches) :
                    ~(matches[i].server = request'.server /\ matches[i].epoch = request'.epoch)
    BY <2>1, <2>2, <2>4 DEF SeatsOK, Spent, TypeOK
  <2> QED BY <2>1, <2>3, <2>4 DEF SeatsOK, HandingOut, NoSeatTwice
<1>19. ASSUME NEW s \in ServerId, LatePrepare(s)
      PROVE  SeatsOK' /\ NoSeatTwice'
  BY <1>19 DEF LatePrepare, queueVars, clientVars, checkVars, Prepared, TypeOK,
    ControlOK, SeatsOK, HandingOut, Spent, NoSeatTwice, NoRequest
<1>20. ASSUME NEW s \in ServerId, MatchStarts(s)
      PROVE  SeatsOK' /\ NoSeatTwice'
  <2>1. ASSUME NEW r, NEW e, Spent(r, e)
        PROVE  Spent(r, e)'
    BY <1>20, <2>1 DEF MatchStarts, TypeOK, Spent
  <2>2. UNCHANGED checkVars
    BY <1>20 DEF MatchStarts
  <2> QED BY <2>1, <2>2 DEF checkVars, SeatsOK, HandingOut, NoSeatTwice
<1>21. ASSUME NEW s \in ServerId, Restart(s)
      PROVE  SeatsOK' /\ NoSeatTwice'
  <2>1. /\ epoch' = [epoch EXCEPT ![s] = epoch[s] + 1] /\ s \in ServerId
        /\ server_phase' = [server_phase EXCEPT ![s] = "WAITING"]
        /\ UNCHANGED <<match, request, check, seat, matches>>
    BY <1>21 DEF Restart, checkVars
  <2>2. ASSUME NEW r \in ServerId, NEW e \in 0 .. MaxEpoch, Spent(r, e)
        PROVE  Spent(r, e)'
    BY <2>1, <2>2 DEF Spent, TypeOK
  <2>3. \A i \in 1 .. Len(matches) : Spent(matches[i].server, matches[i].epoch)'
    <3> SUFFICES ASSUME NEW i \in 1 .. Len(matches)
                 PROVE  Spent(matches[i].server, matches[i].epoch)'
      OBVIOUS
    <3>1. matches[i] \in MatchMessage
      <4>1. matches \in Seq(MatchMessage)
        BY DEF TypeOK, MatchMessage
      <4> QED BY <4>1, ElementOfSeq
    <3>2. Spent(matches[i].server, matches[i].epoch)
      BY DEF SeatsOK
    <3> QED BY <2>1, <2>2, <3>1, <3>2 DEF MatchMessage, Spent
  <2>4. HandingOut => Spent(match.server, match.epoch)'
    <3>1. HandingOut => match.server \in ServerId /\ match.epoch \in 0 .. MaxEpoch
      BY DEF HandingOut, TypeOK, ControlOK, NoRequest
    <3> QED BY <2>1, <2>2, <3>1 DEF SeatsOK, Spent
  <2>5. request.kind = "prepare" /\ request.answer = "tokens"
        => Spent(request.server, request.epoch)'
    <3>1. request.kind = "prepare" => request.server \in ServerId /\ request.epoch \in 0 .. MaxEpoch
      BY DEF TypeOK, NoRequest
    <3> QED BY <2>1, <2>2, <3>1 DEF SeatsOK, Spent
  <2>6. NoSeatTwice'
    BY <2>1 DEF NoSeatTwice
  <2> QED BY <2>1, <2>3, <2>4, <2>5, <2>6 DEF SeatsOK, HandingOut, Spent
<1> QED
  BY <1>1, <1>2, <1>3, <1>4, <1>5, <1>6, <1>7, <1>8, <1>9, <1>10, <1>11, <1>12,
    <1>13, <1>14, <1>15, <1>16, <1>17, <1>18, <1>19, <1>20, <1>21, <1>22
    DEF Next, Listener, CheckThread, Environment, Answer

-----------------------------------------------------------------------------
(* Servers that are owed a player. *)

\* Seat n of the process that server s now is was sent.
Sent(s, n) == \E i \in 1 .. Len(matches) :
  matches[i].server = s /\ matches[i].epoch = epoch[s] /\ matches[i].seat = n

\* Server s prepared a match, and somebody has or had the answer.
Untroubled(s) == server_phase[s] = "PREPARING" /\ s \notin troubled

\* Such a server is on its way to two players: its tokens are in the answer that
\* was sent, or being handed out, or were sent to both.
TroubleOK ==
  /\ request.kind = "prepare" /\ request.answer = "tokens" /\ Untroubled(request.server)
     => request.epoch = epoch[request.server]
  /\ HandingOut /\ Untroubled(match.server)
     => match.epoch = epoch[match.server] /\ (seat = 2 => Sent(match.server, 1))
  /\ \A s \in ServerId :
       Running /\ Untroubled(s)
       => \/ check = "prepare_wait" /\ request.answer = "tokens" /\ request.server = s
          \/ HandingOut /\ match.server = s
          \/ Sent(s, 1) /\ Sent(s, 2)

\* A step leaves no untroubled server behind.
LEMMA TroubleStep ==
  ASSUME TypeOK, ControlOK, TroubleOK, [Next]_vars
  PROVE  TroubleOK'
<1> USE CoordinatorAssumption
<1>1. ASSUME UNCHANGED <<serverVars, checkVars>>
      PROVE  TroubleOK'
  BY <1>1 DEF serverVars, checkVars, TypeOK, ControlOK, TroubleOK, HandingOut,
    Untroubled, Sent, NoRequest, Running
<1>2. ASSUME NEW c \in Client,
              \/ Connect(c) \/ SendSearch(c) \/ Close(c)
      PROVE  TroubleOK'
  BY <1>1, <1>2 DEF Connect, SendSearch, Close, queueVars, clientVars,
    serverVars, checkVars
<1>3. ASSUME NEW c \in Client, NEW fd \in Fd,
              \/ Accept(c, fd)
      PROVE  TroubleOK'
  BY <1>1, <1>3 DEF Accept, queueVars, clientVars, serverVars, checkVars
<1>4. ASSUME NEW fd \in Fd,
              \/ ReadSearch(fd) \/ CloseSocket(fd)
      PROVE  TroubleOK'
  BY <1>1, <1>4 DEF ReadSearch, CloseSocket, queueVars, clientVars, serverVars,
    checkVars
<1>22. ASSUME EraseSearching \/ EraseClient
      PROVE  TroubleOK'
  BY <1>1, <1>22 DEF EraseSearching, EraseClient, clientVars, serverVars, checkVars
<1>5. ASSUME \/ UNCHANGED vars
      PROVE  TroubleOK'
  BY <1>1, <1>5 DEF vars, queueVars, clientVars, serverVars, checkVars
<1>6. ASSUME Wake
      PROVE  TroubleOK'
  <2>1. \A r, n : Sent(r, n)' <=> Sent(r, n)
    BY <1>6 DEF Wake, queueVars, clientVars, serverVars, Sent
  <2> QED BY <1>6, <2>1 DEF Wake, queueVars, clientVars, serverVars, TypeOK,
      ControlOK, TroubleOK, HandingOut, Untroubled, NoRequest, Running
<1>7. ASSUME NEW s \in ServerId, SendQuery(s)
      PROVE  TroubleOK'
  <2>1. \A r, n : Sent(r, n)' <=> Sent(r, n)
    BY <1>7 DEF SendQuery, queueVars, clientVars, serverVars, Sent
  <2> QED BY <1>7, <2>1 DEF SendQuery, queueVars, clientVars, serverVars, Send,
      TypeOK, ControlOK, TroubleOK, HandingOut, Untroubled, NoRequest, Running
<1>8. ASSUME ReceiveStatus
      PROVE  TroubleOK'
  <2>1. \A r, n : Sent(r, n)' <=> Sent(r, n)
    BY <1>8 DEF ReceiveStatus, queueVars, clientVars, serverVars, Sent
  <2> QED BY <1>8, <2>1 DEF ReceiveStatus, queueVars, clientVars, serverVars,
      NoRequest, TypeOK, ControlOK, TroubleOK, HandingOut, Untroubled, Running
<1>9. ASSUME Matchmake
      PROVE  TroubleOK'
  <2>1. \A r, n : Sent(r, n)' <=> Sent(r, n)
    BY <1>9 DEF Matchmake, queueVars, clientVars, serverVars, Sent
  <2> QED BY <1>9, <2>1 DEF Matchmake, queueVars, clientVars, serverVars, TypeOK,
      ControlOK, TroubleOK, HandingOut, Untroubled, NoRequest, Running
<1>10. ASSUME NEW s \in ServerId, SendPrepare(s)
      PROVE  TroubleOK'
  <2>1. \A r, n : Sent(r, n)' <=> Sent(r, n)
    BY <1>10 DEF SendPrepare, queueVars, clientVars, serverVars, Sent
  <2> QED BY <1>10, <2>1 DEF SendPrepare, queueVars, clientVars, serverVars, Send,
      TypeOK, ControlOK, TroubleOK, HandingOut, Untroubled, NoRequest, Running
<1>11. ASSUME NoPreparedServer
      PROVE  TroubleOK'
  <2>1. \A r, n : Sent(r, n)' <=> Sent(r, n)
    BY <1>11 DEF NoPreparedServer, queueVars, clientVars, serverVars, Sent
  <2> QED BY <1>11, <2>1 DEF NoPreparedServer, queueVars, clientVars, serverVars,
      TypeOK, ControlOK, TroubleOK, HandingOut, Untroubled, NoRequest, Running
<1>12. ASSUME ReceiveTokens
      PROVE  TroubleOK'
  <2>1. \A r, n : Sent(r, n)' <=> Sent(r, n)
    BY <1>12 DEF ReceiveTokens, queueVars, clientVars, serverVars, Sent
  <2> QED BY <1>12, <2>1 DEF ReceiveTokens, queueVars, clientVars, serverVars,
      NoRequest, TypeOK, ControlOK, TroubleOK, HandingOut, Untroubled, Running
<1>13. ASSUME Timeout
      PROVE  TroubleOK'
  <2>1. \A r, n : Sent(r, n)' <=> Sent(r, n)
    BY <1>13 DEF Timeout, queueVars, clientVars, Sent
  <2> QED BY <1>13, <2>1 DEF Timeout, queueVars, clientVars, NoRequest, TypeOK,
      ControlOK, TroubleOK, HandingOut, Untroubled, Running
<1>14. ASSUME ReadFront
      PROVE  TroubleOK'
  <2>1. \A r, n : Sent(r, n)' <=> Sent(r, n)
    BY <1>14 DEF ReadFront, queueVars, clientVars, serverVars, Sent
  <2> QED BY <1>14, <2>1 DEF ReadFront, queueVars, clientVars, serverVars, TypeOK,
      ControlOK, TroubleOK, HandingOut, Untroubled, NoRequest, Running
<1>15. ASSUME PopFront
      PROVE  TroubleOK'
  <2>1. \A r, n : Sent(r, n)' <=> Sent(r, n)
    BY <1>15 DEF PopFront, clientVars, serverVars, Sent
  <2> QED BY <1>15, <2>1 DEF PopFront, clientVars, serverVars, TypeOK, ControlOK,
      TroubleOK, HandingOut, Untroubled, NoRequest, Running
<1>16. ASSUME SendMatch
      PROVE  TroubleOK'
  <2> DEFINE m == matches'[Len(matches) + 1]
  <2>1. /\ Len(matches) \in Nat /\ Len(matches') = Len(matches) + 1
        /\ \A i \in 1 .. Len(matches) :
             matches[i] \in MatchMessage /\ matches'[i] = matches[i]
        /\ matches'[Len(matches) + 1] = m
    BY <1>16, MatchIsAppended
  <2>2. /\ m.server = match.server /\ m.epoch = match.epoch /\ m.seat = seat
        /\ m.to = Recipient /\ m.meant = chosen /\ seat \in Nat
    BY <1>16, MatchIsAppended
  <2> HIDE DEF m
  <2>3. \A s \in ServerId, n \in {1, 2} : Sent(s, n) => Sent(s, n)'
    BY <1>16, <2>1 DEF SendMatch, serverVars, Sent
  <2>4. /\ server_phase' = server_phase /\ epoch' = epoch /\ match' = match
        /\ request' = request /\ check = "send" /\ check' \in {"front", "sleep"}
        /\ check' = "front" => seat = 1 /\ seat' = 2
        /\ request = NoRequest /\ troubled' = troubled
    BY <1>16 DEF SendMatch, serverVars, ControlOK
  <2>5. seat = 1 /\ match.epoch = epoch[match.server] => Sent(match.server, 1)'
    BY <2>1, <2>2, <2>4 DEF Sent
  <2>6. HandingOut /\ (HandingOut' => seat = 1 /\ seat' = 2) /\ (~HandingOut' => seat = 2)
    BY <1>16, <2>4 DEF SendMatch, HandingOut, TypeOK
  <2>7. Untroubled(match.server) =>
          match.epoch = epoch[match.server] /\ (seat = 2 => Sent(match.server, 1))
    BY <2>6 DEF TroubleOK
  <2>8. ASSUME HandingOut', Untroubled(match.server)
         PROVE  match.epoch = epoch[match.server] /\ seat' = 2 /\ Sent(match.server, 1)'
    BY <2>5, <2>7, <2>6, <2>8
  <2>9. ASSUME NEW s \in ServerId, Untroubled(s)
         PROVE  \/ HandingOut' /\ match.server = s
                \/ Sent(s, 1)' /\ Sent(s, 2)'
    <3>1. CASE match.server = s /\ HandingOut'
      BY <3>1
    <3>2. CASE match.server = s /\ ~HandingOut'
      <4>1. seat = 2 /\ match.epoch = epoch[s] /\ Sent(s, 1)
        BY <3>2, <2>7, <2>6, <2>9
      <4>2. Sent(s, 1)'
        BY <4>1, <2>3
      <4>3. Sent(s, 2)'
        BY <4>1, <3>2, <2>1, <2>2, <2>4 DEF Sent
      <4> QED BY <4>2, <4>3
    <3>3. CASE match.server # s
      <4>1. Sent(s, 1) /\ Sent(s, 2)
        BY <3>3, <2>4, <2>9 DEF TroubleOK, Running
      <4> QED BY <4>1, <2>3
    <3> QED BY <3>1, <3>2, <3>3
  <2>10. request'.kind # "prepare"
    BY <2>4 DEF NoRequest
  <2>11. ASSUME NEW s PROVE Untroubled(s)' <=> Untroubled(s)
    BY <2>4 DEF Untroubled
  <2>12. HandingOut' /\ Untroubled(match.server)'
         => match'.epoch = epoch'[match'.server] /\ (seat' = 2 => Sent(match.server, 1)')
    BY <2>4, <2>8 DEF Untroubled, Sent
  <2>13. \A s \in ServerId :
           Running' /\ Untroubled(s)'
           => \/ HandingOut' /\ match'.server = s
              \/ Sent(s, 1)' /\ Sent(s, 2)'
    BY <2>4, <2>9, <2>11
  <2> QED BY <2>10, <2>12, <2>13 DEF TroubleOK
<1>17. ASSUME ServeQuery
      PROVE  TroubleOK'
  <2>1. \A r, n : Sent(r, n)' <=> Sent(r, n)
    BY <1>17 DEF ServeQuery, queueVars, clientVars, serverVars, Sent
  <2> QED BY <1>17, <2>1 DEF ServeQuery, queueVars, clientVars, serverVars, TypeOK,
      ControlOK, TroubleOK, HandingOut, Untroubled, NoRequest, Running
<1>18. ASSUME ServePrepare
      PROVE  TroubleOK'
  <2>1. \A r, n : Sent(r, n)' <=> Sent(r, n)
    BY <1>18 DEF ServePrepare, queueVars, clientVars, Sent
  <2> QED BY <1>18, <2>1 DEF ServePrepare, queueVars, clientVars, Prepared, TypeOK,
      ControlOK, TroubleOK, HandingOut, Untroubled, NoRequest, Running
<1>19. ASSUME NEW s \in ServerId, LatePrepare(s)
      PROVE  TroubleOK'
  <2>1. \A r, n : Sent(r, n)' <=> Sent(r, n)
    BY <1>19 DEF LatePrepare, queueVars, clientVars, checkVars, Sent
  <2> QED BY <1>19, <2>1 DEF LatePrepare, queueVars, clientVars, checkVars,
      Prepared, TypeOK, ControlOK, TroubleOK, HandingOut, Untroubled,
      NoRequest, Running
<1>20. ASSUME NEW s \in ServerId, MatchStarts(s)
      PROVE  TroubleOK'
  <2>1. \A r, n : Sent(r, n)' <=> Sent(r, n)
    BY <1>20 DEF MatchStarts, queueVars, clientVars, checkVars, Sent
  <2> QED BY <1>20, <2>1 DEF MatchStarts, queueVars, clientVars, checkVars, TypeOK,
      ControlOK, TroubleOK, HandingOut, Untroubled, NoRequest, Running
<1>21. ASSUME NEW s \in ServerId, Restart(s)
      PROVE  TroubleOK'
  <2>1. \A r \in ServerId, n \in {1, 2} : r # s => (Sent(r, n)' <=> Sent(r, n))
    BY <1>21 DEF Restart, checkVars, TypeOK, Sent
  <2>2. /\ UNCHANGED <<request, check, match, seat>>
        /\ troubled' = troubled \ {s} /\ server_phase'[s] = "WAITING"
        /\ \A r \in ServerId : r # s => server_phase'[r] = server_phase[r] /\ epoch'[r] = epoch[r]
    BY <1>21 DEF Restart, checkVars, TypeOK
  <2>3. HandingOut => match.server \in ServerId
    BY DEF HandingOut, TypeOK, ControlOK, NoRequest
  <2>4. request.kind = "prepare" => request.server \in ServerId
    BY DEF TypeOK, NoRequest
  <2> QED BY <2>1, <2>2, <2>3, <2>4 DEF TroubleOK, HandingOut, Untroubled, Running
<1> QED
  BY <1>1, <1>2, <1>3, <1>4, <1>5, <1>6, <1>7, <1>8, <1>9, <1>10, <1>11, <1>12,
    <1>13, <1>14, <1>15, <1>16, <1>17, <1>18, <1>19, <1>20, <1>21, <1>22
    DEF Next, Listener, CheckThread, Environment, Answer

-----------------------------------------------------------------------------
(* Who is meant by a Match. *)

\* Only a client that closed misses what was meant for it: the descriptor read
\* from the queue is its connection as long as it is there.
MeantOK ==
  /\ check \in {"pop", "send"} =>
       chosen \in Client /\ (conn[in_hand] = chosen \/ stage[chosen] = "closed")
  /\ \A i \in 1 .. Len(matches) :
       /\ matches[i].meant \in Client
       /\ matches[i].to = matches[i].meant \/ stage[matches[i].meant] = "closed"

\* A closed client stays closed.
LEMMA ClosedForever ==
  ASSUME TypeOK, ControlOK, [Next]_vars, NEW c \in Client, stage[c] = "closed"
  PROVE  stage'[c] = "closed"
<1>1. CASE UNCHANGED stage
  BY <1>1
<1>2. ASSUME NEW d \in Client, Connect(d) \/ SendSearch(d) \/ Close(d)
      PROVE  stage'[c] = "closed"
  BY <1>2 DEF Connect, SendSearch, Close, TypeOK
<1>3. UNCHANGED stage \/ \E d \in Client : Connect(d) \/ SendSearch(d) \/ Close(d)
  BY DEF Next, Listener, CheckThread, Environment, Answer, Accept, ReadSearch,
    CloseSocket, EraseSearching, EraseClient, Wake, SendQuery, SendPrepare,
    ReceiveStatus, Matchmake, NoPreparedServer, ReceiveTokens, Timeout, ReadFront,
    PopFront, SendMatch, ServeQuery, ServePrepare, LatePrepare, MatchStarts,
    Restart, vars, clientVars
<1> QED BY <1>1, <1>2, <1>3

\* What a step leaves alone that MeantOK speaks of.
LEMMA MeantKept ==
  ASSUME TypeOK, ControlOK, MeantOK, [Next]_vars, UNCHANGED <<matches, chosen, in_hand>>,
         check' \in {"pop", "send"} => check \in {"pop", "send"},
         check \in {"pop", "send"} /\ conn[in_hand] = chosen
         => conn'[in_hand] = chosen \/ stage[chosen] = "closed"
  PROVE  MeantOK'
<1>1. \A c \in Client : stage[c] = "closed" => stage'[c] = "closed"
  BY ClosedForever
<1> QED BY <1>1 DEF MeantOK

\* A step lets no client miss its Match that is still there.
LEMMA MeantStep ==
  ASSUME TypeOK, ControlOK, ConnectionsOK, QueuedAreConnected, MeantOK, [Next]_vars
  PROVE  MeantOK'
<1> USE CoordinatorAssumption
<1>1. ASSUME NEW c \in Client, NEW fd \in Fd, Accept(c, fd)
      PROVE  MeantOK'
  <2>1. /\ UNCHANGED <<matches, chosen, in_hand, check>> /\ conn[fd] = Nobody
        /\ conn' = [conn EXCEPT ![fd] = c]
    BY <1>1 DEF Accept, checkVars
  <2>2. check \in {"pop", "send"} => in_hand \in Fd /\ chosen \in Client
    BY DEF ControlOK, MeantOK
  <2> QED BY <2>1, <2>2, MeantKept DEF TypeOK
<1>2. ASSUME EraseClient
      PROVE  MeantOK'
  <2>1. /\ UNCHANGED <<matches, chosen, in_hand, check>> /\ leaving \in Fd
        /\ conn' = [conn EXCEPT ![leaving] = Nobody] /\ stage[conn[leaving]] = "closed"
    BY <1>2 DEF EraseClient, checkVars, ConnectionsOK, TypeOK
  <2>2. check \in {"pop", "send"} => in_hand \in Fd /\ chosen \in Client
    BY DEF ControlOK, MeantOK
  <2> QED BY <2>1, <2>2, MeantKept DEF TypeOK
<1>3. ASSUME UNCHANGED <<matches, chosen, in_hand, conn>>,
             check' \in {"pop", "send"} => check \in {"pop", "send"}
      PROVE  MeantOK'
  BY <1>3, MeantKept
<1>4. ASSUME NEW c \in Client, Connect(c) \/ SendSearch(c) \/ Close(c)
      PROVE  MeantOK'
  BY <1>3, <1>4 DEF Connect, SendSearch, Close, queueVars, checkVars
<1>5. ASSUME NEW fd \in Fd, ReadSearch(fd) \/ CloseSocket(fd)
      PROVE  MeantOK'
  BY <1>3, <1>5 DEF ReadSearch, CloseSocket, checkVars
<1>10. ASSUME EraseSearching
      PROVE  MeantOK'
  BY <1>3, <1>10 DEF EraseSearching, checkVars
<1>6. ASSUME \/ Wake \/ ReceiveStatus \/ Matchmake \/ NoPreparedServer
             \/ ReceiveTokens \/ Timeout \/ PopFront
             \/ ServeQuery \/ ServePrepare \/ UNCHANGED vars
      PROVE  MeantOK'
  BY <1>3, <1>6 DEF Wake, ReceiveStatus, Matchmake, NoPreparedServer,
    ReceiveTokens, Timeout, PopFront, ServeQuery, ServePrepare, vars, queueVars,
    checkVars
<1>7. ASSUME NEW s \in ServerId,
             \/ SendQuery(s) \/ SendPrepare(s) \/ LatePrepare(s)
             \/ MatchStarts(s) \/ Restart(s)
      PROVE  MeantOK'
  BY <1>3, <1>7 DEF SendQuery, SendPrepare, LatePrepare, MatchStarts, Restart,
    queueVars, checkVars
<1>8. ASSUME ReadFront
      PROVE  MeantOK'
  <2>1. CASE searching_clients = <<>>
    BY <1>8, <2>1 DEF ReadFront, MeantOK, queueVars, clientVars
  <2>2. CASE searching_clients # <<>>
    <3>1. /\ Len(searching_clients) \in Nat \ {0}
          /\ Head(searching_clients) = searching_clients[1]
      BY <2>2, EmptySeq, LenProperties DEF TypeOK
    <3>2. searching_clients[1] \in clients
      BY <3>1 DEF QueuedAreConnected, Elements
    <3>3. conn[Head(searching_clients)] \in Client
      BY <3>1, <3>2 DEF ConnectionsOK, TypeOK
    <3>4. /\ in_hand' = Head(searching_clients) /\ chosen' = conn[Head(searching_clients)]
          /\ UNCHANGED <<conn, stage, matches>>
      BY <1>8, <2>2 DEF ReadFront, queueVars, clientVars
    <3> QED BY <3>3, <3>4 DEF MeantOK
  <2> QED BY <2>1, <2>2
<1>9. ASSUME SendMatch
      PROVE  MeantOK'
  <2> DEFINE m == matches'[Len(matches) + 1]
  <2>1. /\ Len(matches) \in Nat /\ Len(matches') = Len(matches) + 1
        /\ \A i \in 1 .. Len(matches) : matches'[i] = matches[i]
        /\ m.to = Recipient /\ m.meant = chosen
    BY <1>9, MatchIsAppended
  <2>2. chosen \in Client /\ (conn[in_hand] = chosen \/ stage[chosen] = "closed")
    BY <1>9 DEF SendMatch, MeantOK
  <2>3. Recipient = chosen \/ stage[chosen] = "closed"
    BY <2>2 DEF Recipient
  <2> HIDE DEF m
  <2>4. ASSUME NEW i \in 1 .. Len(matches')
        PROVE  /\ matches'[i].meant \in Client
               /\ matches'[i].to = matches'[i].meant \/ stage[matches'[i].meant] = "closed"
    <3>1. CASE i \in 1 .. Len(matches)
      BY <3>1, <2>1 DEF MeantOK
    <3>2. CASE i = Len(matches) + 1
      BY <3>2, <2>1, <2>2, <2>3 DEF m
    <3> QED BY <3>1, <3>2, <2>1
  <2>5. stage' = stage /\ check' \notin {"pop", "send"}
    BY <1>9 DEF SendMatch, clientVars
  <2> QED BY <2>4, <2>5 DEF MeantOK
<1> QED
  BY <1>1, <1>2, <1>4, <1>5, <1>6, <1>7, <1>8, <1>9, <1>10
    DEF Next, Listener, CheckThread, Environment, Answer

-----------------------------------------------------------------------------
(* The length of the queue during matchmake. *)

\* How many clients must still be in the queue.
Needed ==
  IF check \in {"prepare", "prepare_wait"} THEN 2
  ELSE IF check \in {"front", "pop"} THEN 3 - seat
  ELSE IF check = "send" THEN 2 - seat
  ELSE 0

\* They are there unless the listener has taken one out since the size was
\* looked at, which it only does for a client that closed.
LengthOK ==
  /\ ~erased => check # "undefined" /\ Len(searching_clients) >= Needed
  /\ erased => SomebodyLeft

\* A step shortens the queue only by a client that is served or one that closed.
LEMMA LengthStep ==
  ASSUME TypeOK, ControlOK, ConnectionsOK, QueuedAreConnected, LengthOK, [Next]_vars
  PROVE  LengthOK'
<1> USE CoordinatorAssumption
<1>0. Len(searching_clients) \in Nat /\ seat \in {1, 2}
  BY LenProperties DEF TypeOK
<1>1. SomebodyLeft => SomebodyLeft'
  BY ClosedForever DEF SomebodyLeft
<1>2. ASSUME UNCHANGED <<searching_clients, erased, check, seat>>
      PROVE  LengthOK'
  BY <1>1, <1>2 DEF LengthOK, Needed
<1>3. ASSUME NEW c \in Client, Connect(c) \/ SendSearch(c) \/ Close(c)
      PROVE  LengthOK'
  BY <1>2, <1>3 DEF Connect, SendSearch, Close, queueVars, checkVars
<1>4. ASSUME NEW fd \in Fd, CloseSocket(fd) \/ \E c \in Client : Accept(c, fd)
      PROVE  LengthOK'
  BY <1>2, <1>4 DEF Accept, CloseSocket, checkVars
<1>17. ASSUME EraseClient
      PROVE  LengthOK'
  BY <1>2, <1>17 DEF EraseClient, checkVars
<1>5. ASSUME ServeQuery \/ ServePrepare \/ UNCHANGED vars
      PROVE  LengthOK'
  BY <1>2, <1>5 DEF ServeQuery, ServePrepare, vars, queueVars, checkVars
<1>6. ASSUME NEW s \in ServerId, LatePrepare(s) \/ MatchStarts(s) \/ Restart(s)
      PROVE  LengthOK'
  BY <1>2, <1>6 DEF LatePrepare, MatchStarts, Restart, queueVars, checkVars
<1>7. ASSUME NEW fd \in Fd, ReadSearch(fd)
      PROVE  LengthOK'
  <2>1. Len(searching_clients') = Len(searching_clients) + 1
    BY <1>7, AppendProperties DEF ReadSearch, TypeOK
  <2>2. UNCHANGED <<erased, check, seat>>
    BY <1>7 DEF ReadSearch, checkVars
  <2>3. Needed' = Needed /\ Needed \in Nat
    BY <2>2, <1>0 DEF Needed
  <2> QED BY <1>0, <1>1, <2>1, <2>2, <2>3 DEF LengthOK
<1>8. ASSUME EraseSearching
      PROVE  LengthOK'
  <2> DEFINE q == searching_clients
             r == Without(q, leaving)
  <2>1. /\ q' = r /\ listener = "closed"
        /\ erased' = (erased \/ leaving \in Elements(q)) /\ UNCHANGED <<check, seat>>
    BY <1>8 DEF EraseSearching, checkVars
  <2>2. SomebodyLeft
    <3>1. leaving \in clients /\ stage[conn[leaving]] = "closed"
      BY <2>1 DEF ConnectionsOK
    <3>2. conn[leaving] \in Client
      BY <3>1 DEF ConnectionsOK, TypeOK
    <3> QED BY <3>1, <3>2 DEF SomebodyLeft
  <2>3. KeptOK(r, q, leaving, Len(q), Fd)
    BY WithoutProperties DEF TypeOK
  <2> HIDE DEF r
  <2>4. leaving \notin Elements(q) => Len(q') = Len(q)
    BY <2>1, <2>3 DEF KeptOK, Elements
  <2>5. Needed' = Needed
    BY <2>1 DEF Needed
  <2> QED BY <1>1, <2>1, <2>2, <2>4, <2>5 DEF LengthOK
<1>9. ASSUME Wake \/ ReceiveStatus \/ NoPreparedServer
      PROVE  LengthOK'
  <2>1. /\ UNCHANGED <<searching_clients, erased, seat>>
        /\ check' \in {"query", "sleep"}
    BY <1>9 DEF Wake, ReceiveStatus, NoPreparedServer, queueVars
  <2>2. Needed' = 0
    BY <2>1 DEF Needed
  <2> QED BY <1>0, <1>1, <2>1, <2>2 DEF LengthOK
<1>10. ASSUME NEW s \in ServerId, SendQuery(s) \/ SendPrepare(s)
      PROVE  LengthOK'
  <2>1. /\ UNCHANGED <<searching_clients, erased, seat>>
        /\ \/ check = "query" /\ check' = "query_wait"
           \/ check = "prepare" /\ check' \in {"prepare", "prepare_wait"}
    BY <1>10 DEF SendQuery, SendPrepare, queueVars
  <2>2. Needed' = Needed
    BY <2>1 DEF Needed
  <2> QED BY <1>1, <2>1, <2>2 DEF LengthOK
<1>11. ASSUME Matchmake
      PROVE  LengthOK'
  <2>1. /\ searching_clients' = searching_clients /\ erased' = FALSE
        /\ \/ check' = "sleep"
           \/ check' = "prepare" /\ Len(searching_clients) >= 2
    BY <1>11 DEF Matchmake
  <2>2. (check' = "sleep" => Needed' = 0) /\ (check' = "prepare" => Needed' = 2)
    BY DEF Needed
  <2> QED BY <1>0, <2>1, <2>2 DEF LengthOK
<1>12. ASSUME ReceiveTokens
      PROVE  LengthOK'
  <2>1. /\ UNCHANGED <<searching_clients, erased>> /\ seat' = 1
        /\ check = "prepare_wait" /\ check' = "front"
    BY <1>12 DEF ReceiveTokens, queueVars
  <2>2. Needed' = 2 /\ Needed = 2
    BY <2>1 DEF Needed
  <2> QED BY <1>1, <2>1, <2>2 DEF LengthOK
<1>13. ASSUME Timeout
      PROVE  LengthOK'
  <2>1. /\ UNCHANGED <<searching_clients, erased, seat>>
        /\ \/ check = "query_wait" /\ check' = "query"
           \/ check = "prepare_wait" /\ check' = "prepare"
    BY <1>13 DEF Timeout, queueVars
  <2>2. Needed' = Needed
    BY <2>1 DEF Needed
  <2> QED BY <1>1, <2>1, <2>2 DEF LengthOK
<1>14. ASSUME ReadFront
      PROVE  LengthOK'
  <2>1. /\ UNCHANGED <<searching_clients, erased, seat>> /\ check = "front"
        /\ IF searching_clients = <<>> THEN check' = "undefined" ELSE check' = "pop"
    BY <1>14 DEF ReadFront, queueVars
  <2>2. Needed = 3 - seat /\ (check' = "pop" => Needed' = 3 - seat)
    BY <2>1 DEF Needed
  <2>3. ~erased => searching_clients # <<>>
    BY <1>0, <2>2, EmptySeq DEF LengthOK
  <2> QED BY <1>1, <2>1, <2>2, <2>3 DEF LengthOK
<1>15. ASSUME PopFront
      PROVE  LengthOK'
  <2>1. /\ UNCHANGED <<erased, seat>> /\ check = "pop"
        /\ IF searching_clients = <<>> THEN check' = "undefined"
           ELSE check' = "send" /\ searching_clients' = Tail(searching_clients)
    BY <1>15 DEF PopFront
  <2>2. Needed = 3 - seat /\ (check' = "send" => Needed' = 2 - seat)
    BY <2>1 DEF Needed
  <2>3. ~erased => searching_clients # <<>>
    BY <1>0, <2>2, EmptySeq DEF LengthOK
  <2>4. searching_clients # <<>> => Len(Tail(searching_clients)) = Len(searching_clients) - 1
    BY HeadTailProperties DEF TypeOK
  <2> QED BY <1>0, <1>1, <2>1, <2>2, <2>3, <2>4 DEF LengthOK
<1>16. ASSUME SendMatch
      PROVE  LengthOK'
  <2>1. /\ UNCHANGED <<searching_clients, erased>> /\ check = "send"
        /\ \/ seat = 1 /\ seat' = 2 /\ check' = "front"
           \/ seat = 2 /\ check' = "sleep"
    BY <1>16, <1>0 DEF SendMatch, queueVars
  <2>2. Needed = 2 - seat /\ Needed' = 2 - seat
    BY <2>1 DEF Needed
  <2> QED BY <1>1, <2>1, <2>2 DEF LengthOK
<1> QED
  BY <1>3, <1>4, <1>5, <1>6, <1>7, <1>8, <1>9, <1>10, <1>11, <1>12, <1>13,
    <1>14, <1>15, <1>16, <1>17
    DEF Next, Listener, CheckThread, Environment, Answer

-----------------------------------------------------------------------------
(* The order of service. *)

\* The client taken from the queue whose Match was not sent yet.
InHand == IF check = "send" THEN 1 ELSE 0

\* ServedInOrder place by place.
OrderOK ==
  ~SomebodyLeft =>
    /\ check = "pop" => in_hand = searching_clients[1]
    /\ check = "send" => in_hand \in clients
    /\ Len(arrivals) = Len(matches) + InHand + Len(searching_clients)
    /\ \A i \in 1 .. Len(matches) : arrivals[i] = matches[i].to
    /\ check = "send" => arrivals[Len(matches) + 1] = conn[in_hand]
    /\ \A i \in 1 .. Len(searching_clients) :
         arrivals[Len(matches) + InHand + i] = conn[searching_clients[i]]

\* A step keeps the order of service while nobody has left.
LEMMA OrderStep ==
  ASSUME TypeOK, ControlOK, ConnectionsOK, QueuedAreConnected, LengthOK, OrderOK,
         [Next]_vars
  PROVE  OrderOK'
<1> USE CoordinatorAssumption
<1>0. ~SomebodyLeft => Len(searching_clients) >= Needed
  BY DEF LengthOK
<1>1. ASSUME UNCHANGED <<queueVars, stage, check, seat, in_hand, matches>>
      PROVE  OrderOK'
  BY <1>1 DEF queueVars, TypeOK, ControlOK, ConnectionsOK, Queued,
    QueuedAreConnected, Elements, OrderOK, InHand, SomebodyLeft
<1>2. ASSUME \/ ServeQuery \/ ServePrepare \/ UNCHANGED vars
      PROVE  OrderOK'
  BY <1>1, <1>2 DEF ServeQuery, ServePrepare, vars, queueVars, clientVars,
    serverVars, checkVars
<1>3. ASSUME NEW s \in ServerId,
              \/ LatePrepare(s) \/ MatchStarts(s) \/ Restart(s)
      PROVE  OrderOK'
  BY <1>1, <1>3 DEF LatePrepare, MatchStarts, Restart, queueVars, clientVars,
    serverVars, checkVars
<1>4. ASSUME NEW c \in Client, Connect(c)
      PROVE  OrderOK'
  BY <1>4 DEF Connect, queueVars, serverVars, checkVars, TypeOK, ControlOK,
    ConnectionsOK, Queued, QueuedAreConnected, Elements, OrderOK, InHand, SomebodyLeft
<1>5. ASSUME NEW c \in Client, SendSearch(c)
      PROVE  OrderOK'
  BY <1>5 DEF SendSearch, queueVars, serverVars, checkVars, TypeOK, ControlOK,
    ConnectionsOK, Queued, QueuedAreConnected, Elements, OrderOK, InHand, SomebodyLeft
<1>6. ASSUME NEW c \in Client, Close(c)
      PROVE  OrderOK'
  BY <1>6 DEF Close, queueVars, serverVars, checkVars, TypeOK, ControlOK,
    ConnectionsOK, Queued, QueuedAreConnected, Elements, OrderOK, InHand, SomebodyLeft
<1>7. ASSUME NEW c \in Client, NEW fd \in Fd, Accept(c, fd)
      PROVE  OrderOK'
  BY <1>7 DEF Accept, serverVars, checkVars, Running, TypeOK, ControlOK,
    ConnectionsOK, Queued, QueuedAreConnected, Elements, OrderOK, InHand, SomebodyLeft
<1>8. ASSUME NEW fd \in Fd, ReadSearch(fd)
      PROVE  OrderOK'
  <2>1. ~SomebodyLeft' => ~SomebodyLeft
    BY <1>8 DEF ReadSearch, SomebodyLeft
  <2>2. /\ searching_clients \in Seq(Fd) /\ arrivals \in Seq(Client) /\ conn[fd] \in Client
        /\ matches \in Seq(MatchMessage)
    BY <1>8 DEF ReadSearch, TypeOK, MatchMessage
  <2>3. /\ Len(searching_clients) \in Nat /\ Len(arrivals) \in Nat /\ Len(matches) \in Nat
        /\ Len(searching_clients') = Len(searching_clients) + 1
        /\ Len(arrivals') = Len(arrivals) + 1
        /\ \A i \in 1 .. Len(searching_clients) : searching_clients'[i] = searching_clients[i]
        /\ \A i \in 1 .. Len(arrivals) : arrivals'[i] = arrivals[i]
        /\ searching_clients'[Len(searching_clients) + 1] = fd
        /\ arrivals'[Len(arrivals) + 1] = conn[fd]
    BY <1>8, <2>2, AppendProperties, LenProperties DEF ReadSearch
  <2>4. UNCHANGED <<clients, conn, stage, check, in_hand, matches, seat>>
    BY <1>8 DEF ReadSearch, serverVars, checkVars
  <2>5. InHand' = InHand /\ InHand \in {0, 1}
    BY <2>4 DEF InHand
  <2>6. ASSUME ~SomebodyLeft
        PROVE  \A i \in 1 .. Len(searching_clients') :
                 arrivals'[Len(matches) + InHand + i] = conn[searching_clients'[i]]
    <3> SUFFICES ASSUME NEW i \in 1 .. Len(searching_clients')
                 PROVE  arrivals'[Len(matches) + InHand + i] = conn[searching_clients'[i]]
      OBVIOUS
    <3>1. Len(arrivals) = Len(matches) + InHand + Len(searching_clients)
      BY <2>6 DEF OrderOK
    <3>2. CASE i = Len(searching_clients) + 1
      BY <3>1, <3>2, <2>3, <2>5
    <3>3. CASE i \in 1 .. Len(searching_clients)
      <4>1. arrivals[Len(matches) + InHand + i] = conn[searching_clients[i]]
        BY <3>3, <2>6 DEF OrderOK
      <4>2. Len(matches) + InHand + i \in 1 .. Len(arrivals)
        <5>1. Len(matches) + InHand \in Nat /\ Len(searching_clients) \in Nat
          BY <2>3, <2>5
        <5> QED BY <5>1, <3>1, <3>3
      <4> QED BY <4>1, <4>2, <3>3, <2>3
    <3> QED BY <3>2, <3>3, <2>3
  <2>7. ASSUME ~SomebodyLeft
        PROVE  /\ \A i \in 1 .. Len(matches) : arrivals'[i] = matches[i].to
               /\ check = "send" => arrivals'[Len(matches) + 1] = conn[in_hand]
               /\ check = "pop" => in_hand = searching_clients'[1]
               /\ Len(arrivals') = Len(matches) + InHand + Len(searching_clients')
    <3>1. /\ Len(arrivals) = Len(matches) + InHand + Len(searching_clients)
          /\ check = "send" => InHand = 1
          /\ Len(searching_clients) >= Needed
          /\ check = "pop" => Needed \in {1, 2}
      BY <1>0, <2>7 DEF OrderOK, InHand, Needed, TypeOK
    <3> QED BY <3>1, <2>3, <2>5, <2>7 DEF OrderOK
  <2> QED BY <2>1, <2>3, <2>4, <2>5, <2>6, <2>7 DEF OrderOK
<1>9. ASSUME EraseSearching \/ EraseClient \/ \E fd \in Fd : CloseSocket(fd)
      PROVE  OrderOK'
  <2>1. \E gd \in clients : stage[conn[gd]] = "closed"
    BY <1>9 DEF CloseSocket, EraseSearching, EraseClient, ConnectionsOK
  <2>2. \A gd \in clients : conn[gd] \in Client
    BY DEF ConnectionsOK, TypeOK
  <2>3. stage' = stage
    BY <1>9 DEF CloseSocket, EraseSearching, EraseClient, clientVars
  <2> QED BY <2>1, <2>2, <2>3 DEF OrderOK, SomebodyLeft
<1>10. ASSUME Wake
      PROVE  OrderOK'
  BY <1>10 DEF Wake, queueVars, clientVars, serverVars, TypeOK, ControlOK,
    ConnectionsOK, Queued, QueuedAreConnected, Elements, OrderOK, InHand, SomebodyLeft
<1>11. ASSUME NEW s \in ServerId, SendQuery(s)
      PROVE  OrderOK'
  BY <1>11 DEF SendQuery, queueVars, clientVars, serverVars, Send, TypeOK,
    ControlOK, ConnectionsOK, Queued, QueuedAreConnected, Elements, OrderOK,
    InHand, SomebodyLeft
<1>12. ASSUME ReceiveStatus
      PROVE  OrderOK'
  BY <1>12 DEF ReceiveStatus, queueVars, clientVars, serverVars, NoRequest,
    TypeOK, ControlOK, ConnectionsOK, Queued, QueuedAreConnected, Elements,
    OrderOK, InHand, SomebodyLeft
<1>13. ASSUME Matchmake
      PROVE  OrderOK'
  BY <1>13 DEF Matchmake, queueVars, clientVars, serverVars, TypeOK, ControlOK,
    ConnectionsOK, Queued, QueuedAreConnected, Elements, OrderOK, InHand, SomebodyLeft
<1>14. ASSUME NEW s \in ServerId, SendPrepare(s)
      PROVE  OrderOK'
  BY <1>14 DEF SendPrepare, queueVars, clientVars, serverVars, Send, TypeOK,
    ControlOK, ConnectionsOK, Queued, QueuedAreConnected, Elements, OrderOK,
    InHand, SomebodyLeft
<1>15. ASSUME NoPreparedServer
      PROVE  OrderOK'
  BY <1>15 DEF NoPreparedServer, queueVars, clientVars, serverVars, TypeOK,
    ControlOK, ConnectionsOK, Queued, QueuedAreConnected, Elements, OrderOK,
    InHand, SomebodyLeft
<1>16. ASSUME ReceiveTokens
      PROVE  OrderOK'
  BY <1>16 DEF ReceiveTokens, queueVars, clientVars, serverVars, NoRequest,
    TypeOK, ControlOK, ConnectionsOK, Queued, QueuedAreConnected, Elements,
    OrderOK, InHand, SomebodyLeft
<1>17. ASSUME Timeout
      PROVE  OrderOK'
  BY <1>17 DEF Timeout, queueVars, clientVars, NoRequest, TypeOK, ControlOK,
    ConnectionsOK, Queued, QueuedAreConnected, Elements, OrderOK, InHand, SomebodyLeft
<1>18. ASSUME ReadFront
      PROVE  OrderOK'
  BY <1>18 DEF ReadFront, queueVars, clientVars, serverVars, TypeOK, ControlOK,
    ConnectionsOK, Queued, QueuedAreConnected, Elements, OrderOK, InHand, SomebodyLeft
<1>19. ASSUME PopFront
      PROVE  OrderOK'
  <2> DEFINE q == searching_clients
  <2>1. UNCHANGED <<clients, conn, stage, arrivals, in_hand, matches, seat>> /\ check = "pop"
    BY <1>19 DEF PopFront, clientVars, serverVars
  <2>2. ASSUME ~SomebodyLeft
        PROVE  /\ q # <<>> /\ check' = "send" /\ q' = Tail(q) /\ Len(q) >= 3 - seat
               /\ in_hand = q[1]
    BY <1>0, <1>19, <2>1, <2>2, EmptySeq DEF PopFront, OrderOK, Needed, TypeOK
  <2>3. ASSUME ~SomebodyLeft
        PROVE  /\ Len(q) \in Nat /\ Len(matches) \in Nat
               /\ Len(Tail(q)) = Len(q) - 1
               /\ \A i \in 1 .. Len(Tail(q)) : Tail(q)[i] = q[i + 1]
    BY <2>2, <2>3, HeadTailProperties, LenProperties DEF TypeOK
  <2>4. ASSUME ~SomebodyLeft
        PROVE  /\ in_hand \in clients /\ Len(q) \in Nat \ {0}
               /\ Len(arrivals) = Len(matches) + Len(q)
               /\ \A i \in 1 .. Len(matches) : arrivals[i] = matches[i].to
               /\ \A i \in 1 .. Len(q) : arrivals[Len(matches) + i] = conn[q[i]]
    <3>1. Len(q) >= 3 - seat /\ seat \in {1, 2} /\ in_hand = q[1] /\ Len(q) \in Nat
      BY <2>2, <2>3, <2>4 DEF TypeOK
    <3>2. q[1] \in clients
      BY <3>1 DEF QueuedAreConnected, Elements
    <3>3. InHand = 0 /\ Len(matches) \in Nat
      BY <2>1, <2>3, <2>4 DEF InHand
    <3> QED BY <3>1, <3>2, <3>3, <2>4 DEF OrderOK
  <2>5. ~SomebodyLeft' => ~SomebodyLeft
    BY <2>1 DEF SomebodyLeft
  <2>6. ASSUME ~SomebodyLeft
        PROVE  \A i \in 1 .. Len(q') : arrivals[Len(matches) + 1 + i] = conn[q'[i]]
    BY <2>2, <2>3, <2>4, <2>6
  <2>7. ASSUME ~SomebodyLeft
        PROVE  InHand' = 1
    BY <2>2, <2>7 DEF InHand
  <2>8. ASSUME ~SomebodyLeft
        PROVE  /\ Len(arrivals') = Len(matches') + InHand' + Len(q')
               /\ arrivals'[Len(matches') + 1] = conn'[in_hand']
    <3>1. seat \in {1, 2}
      BY DEF TypeOK
    <3>2. Len(q') = Len(q) - 1 /\ Len(q) >= 3 - seat /\ Len(q) \in Nat
      BY <2>2, <2>3, <2>8
    <3>3. arrivals[Len(matches) + 1] = conn[q[1]]
      BY <2>4, <2>8
    <3> HIDE DEF q
    <3> QED BY <3>1, <3>2, <3>3, <2>1, <2>2, <2>3, <2>4, <2>7, <2>8
  <2>9. ASSUME ~SomebodyLeft
        PROVE  /\ check' = "send" /\ in_hand' \in clients'
               /\ \A i \in 1 .. Len(matches') : arrivals'[i] = matches'[i].to
               /\ \A i \in 1 .. Len(q') :
                    arrivals'[Len(matches') + InHand' + i] = conn'[q'[i]]
    BY <2>1, <2>2, <2>4, <2>6, <2>7, <2>9
  <2> QED BY <2>5, <2>8, <2>9 DEF OrderOK
<1>20. ASSUME SendMatch
      PROVE  OrderOK'
  <2> DEFINE m == matches'[Len(matches) + 1]
  <2>1. /\ Len(matches) \in Nat /\ Len(matches') = Len(matches) + 1
        /\ \A i \in 1 .. Len(matches) :
             matches[i] \in MatchMessage /\ matches'[i] = matches[i]
        /\ matches'[Len(matches) + 1] = m
    BY <1>20, MatchIsAppended
  <2>2. /\ m.server = match.server /\ m.epoch = match.epoch /\ m.seat = seat
        /\ m.to = Recipient /\ m.meant = chosen /\ seat \in Nat
    BY <1>20, MatchIsAppended
  <2> HIDE DEF m
  <2>3. /\ UNCHANGED <<clients, conn, stage, arrivals, in_hand, searching_clients>>
        /\ check = "send"
        /\ \/ seat = 1 /\ seat' = 2 /\ check' = "front"
           \/ seat = 2 /\ seat' = 1 /\ check' = "sleep"
    BY <1>20 DEF SendMatch, queueVars, clientVars, serverVars, TypeOK
  <2>4. InHand = 1 /\ InHand' = 0
    BY <2>3 DEF InHand
  <2>5. ~SomebodyLeft' => ~SomebodyLeft
    BY <2>3 DEF SomebodyLeft
  <2>6. ASSUME ~SomebodyLeft
        PROVE  \A i \in 1 .. Len(matches') : arrivals[i] = matches'[i].to
    <3> SUFFICES ASSUME NEW i \in 1 .. Len(matches')
                 PROVE  arrivals[i] = matches'[i].to
      OBVIOUS
    <3>1. CASE i \in 1 .. Len(matches)
      BY <3>1, <2>1, <2>6 DEF OrderOK
    <3>2. CASE i = Len(matches) + 1
      <4>1. in_hand \in clients /\ arrivals[Len(matches) + 1] = conn[in_hand]
        BY <2>3, <2>6 DEF OrderOK
      <4>2. conn[in_hand] \in Client
        BY <4>1 DEF ConnectionsOK, TypeOK
      <4>3. Recipient = conn[in_hand]
        BY <4>2, <2>6 DEF Recipient, SomebodyLeft
      <4> QED BY <3>2, <4>1, <4>3, <2>1, <2>2
    <3> QED BY <3>1, <3>2, <2>1
  <2>7. ASSUME ~SomebodyLeft
        PROVE  /\ Len(arrivals) = Len(matches') + Len(searching_clients)
               /\ \A i \in 1 .. Len(searching_clients) :
                    arrivals[Len(matches') + i] = conn[searching_clients[i]]
    <3>1. Len(searching_clients) \in Nat
      BY LenProperties DEF TypeOK
    <3>2. /\ Len(arrivals) = Len(matches) + 1 + Len(searching_clients)
          /\ \A i \in 1 .. Len(searching_clients) :
               arrivals[Len(matches) + 1 + i] = conn[searching_clients[i]]
      BY <2>4, <2>7 DEF OrderOK
    <3>3. Len(matches') = Len(matches) + 1
      BY <2>1
    <3>4. ASSUME NEW i \in 1 .. Len(searching_clients)
          PROVE  arrivals[Len(matches') + i] = conn[searching_clients[i]]
      BY <3>2, <3>3, <3>4
    <3> QED BY <3>2, <3>3, <3>4
  <2>8. Len(searching_clients) \in Nat
    BY LenProperties DEF TypeOK
  <2>9. ASSUME ~SomebodyLeft
        PROVE  /\ Len(arrivals') = Len(matches') + InHand' + Len(searching_clients')
               /\ \A i \in 1 .. Len(searching_clients') :
                    arrivals'[Len(matches') + InHand' + i] = conn'[searching_clients'[i]]
    <3>1. Len(matches') \in Nat /\ InHand' = 0
      BY <2>1, <2>4
    <3> QED BY <3>1, <2>3, <2>7, <2>8, <2>9
  <2>10. ASSUME ~SomebodyLeft
         PROVE  check' \notin {"pop", "send"}
    BY <2>3, <2>10
  <2> QED BY <2>3, <2>5, <2>6, <2>9, <2>10 DEF OrderOK
<1> QED
  BY <1>1, <1>2, <1>3, <1>4, <1>5, <1>6, <1>7, <1>8, <1>9, <1>10, <1>11, <1>12,
    <1>13, <1>14, <1>15, <1>16, <1>17, <1>18, <1>19, <1>20
    DEF Next, Listener, CheckThread, Environment, Answer

-----------------------------------------------------------------------------
(* Everything together. *)

\* The inductive invariant.  QueuedAreConnected needs the rest of the life of a
\* connection, NoSeatTwice needs what every phase of a server says of its
\* tokens, StrandedOnlyByTrouble and UndefinedOnlyIfLeft need the way a match
\* takes through the check thread, past what the listener does meanwhile.
IInv ==
  /\ TypeOK /\ ControlOK
  /\ ConnectionsOK /\ QueuedAreConnected
  /\ SeatsOK /\ NoSeatTwice
  /\ TroubleOK /\ MeantOK
  /\ LengthOK /\ OrderOK

\* It holds when the coordinator starts.
LEMMA InitIInv ==
  ASSUME Init
  PROVE  IInv
<1> USE CoordinatorAssumption, EmptySeq DEF Init
<1>1. TypeOK /\ ControlOK
  <2>1. server_list \in [ServerId -> Phase] /\ server_phase \in [ServerId -> Phase \ {"UNKNOWN"}]
    BY DEF Phase
  <2>2. /\ searching_clients \in Seq(Fd) /\ arrivals \in Seq(Client)
        /\ matches \in Seq(MatchMessage)
    OBVIOUS
  <2>3. ControlOK
    BY DEF ControlOK
  <2>4. epoch \in [ServerId -> 0 .. MaxEpoch]
    OBVIOUS
  <2> QED BY <2>1, <2>2, <2>3, <2>4 DEF TypeOK, MatchMessage
<1>2. ConnectionsOK /\ QueuedAreConnected
  BY DEF ConnectionsOK, Queued, QueuedAreConnected, Elements
<1>3. SeatsOK /\ NoSeatTwice
  BY DEF SeatsOK, NoSeatTwice, HandingOut, NoRequest
<1>4. TroubleOK /\ MeantOK
  BY DEF TroubleOK, MeantOK, HandingOut, NoRequest, Untroubled
<1>5. LengthOK /\ OrderOK
  BY DEF LengthOK, OrderOK, Needed, InHand
<1> QED BY <1>1, <1>2, <1>3, <1>4, <1>5 DEF IInv

\* Every step of either thread, of a client, a server or the network keeps it.
LEMMA StepIInv ==
  ASSUME IInv, [Next]_vars
  PROVE  IInv'
BY TypeStep, ConnectionsStep, SeatsStep, TroubleStep, MeantStep, LengthStep, OrderStep
  DEF IInv

\* So it holds in every state.
THEOREM Invariance == Spec => []IInv
<1>1. Init => IInv
  BY InitIInv
<1>2. IInv /\ [Next]_vars => IInv'
  BY StepIInv
<1> QED BY <1>1, <1>2, PTL DEF Spec

-----------------------------------------------------------------------------
(* The invariants of the runs. *)

\* Every variable keeps its type; for one, the check thread never sends to a
\* descriptor it did not read from the queue.
THEOREM TypeCorrect == Spec => []TypeOK
<1>1. IInv => TypeOK
  BY DEF IInv
<1> QED BY <1>1, Invariance, PTL

\* Whatever order the two threads touch the queue in, it holds each descriptor
\* once and none that was given back, so none that is given to the next client;
\* a closed one can be read from it only between the close and the erase of the
\* disconnect the listener is handling.
THEOREM QueueIsConnected == Spec => []QueuedAreConnected
<1>1. IInv => QueuedAreConnected
  BY DEF IInv
<1> QED BY <1>1, Invariance, PTL

\* No seat of a server process is given to two clients, for any number of
\* servers, restarts, and lost, late or repeated datagrams.
THEOREM TokensAreSentOnce == Spec => []NoSeatTwice
<1>1. IInv => NoSeatTwice
  BY DEF IInv
<1> QED BY <1>1, Invariance, PTL

\* front() and pop_front() meet an empty deque only if the listener has taken a
\* client that left out of it since matchmake looked at its size: that one look
\* is good enough otherwise, whoever left before.
THEOREM EmptyQueueNeedsLeaver == Spec => []UndefinedOnlyIfLeft
<1>1. IInv => UndefinedOnlyIfLeft
  BY DEF IInv, LengthOK, UndefinedOnlyIfLeft
<1> QED BY <1>1, Invariance, PTL

\* A server waits for players that were not told of it only if nobody has the
\* answer to its Prepare, or one of the two clients had closed when its Match was
\* sent; otherwise each of its two Matches went to the client whose turn it was.
THEOREM StrandedNeedsTrouble == Spec => []StrandedOnlyByTrouble
<1>1. ASSUME IInv, Running, NEW s \in ServerId, Stranded(s), s \notin troubled
      PROVE  Left(s)
  <2>1. Untroubled(s)
    BY <1>1 DEF Stranded, Untroubled
  <2>2. Sent(s, 1) /\ Sent(s, 2)
    <3>1. \/ check = "prepare_wait" /\ request.answer = "tokens" /\ request.server = s
          \/ HandingOut /\ match.server = s
          \/ Sent(s, 1) /\ Sent(s, 2)
      BY <1>1, <2>1 DEF IInv, TroubleOK
    <3> QED BY <1>1, <3>1 DEF Stranded, HandingOut
  <2>3. PICK n \in {1, 2} : ~Told(s, n)
    BY <1>1 DEF Stranded
  <2>4. PICK i \in 1 .. Len(matches) :
          matches[i].server = s /\ matches[i].epoch = epoch[s] /\ matches[i].seat = n
    BY <2>2, <2>3 DEF Sent
  <2>5. matches[i].to # matches[i].meant
    BY <2>3, <2>4 DEF Told
  <2> QED BY <1>1, <2>4, <2>5 DEF IInv, MeantOK, Left
<1>2. IInv => StrandedOnlyByTrouble
  BY <1>1 DEF StrandedOnlyByTrouble
<1> QED BY <1>2, Invariance, PTL

\* Place by place, the order of arrival is Matches, client in hand, queue.
LEMMA OrderGivesConcatenation ==
  ASSUME IInv
  PROVE  ServedInOrder
<1> DEFINE C == Client \cup {Nobody}
           sent == [i \in 1 .. Len(matches) |-> matches[i].to]
           hand == IF check = "send" THEN <<conn[in_hand]>> ELSE <<>>
           wait == [i \in 1 .. Len(searching_clients) |-> conn[searching_clients[i]]]
<1> SUFFICES ASSUME ~SomebodyLeft
             PROVE  arrivals = sent \o hand \o wait
  BY DEF ServedInOrder
<1>1. /\ matches \in Seq(MatchMessage) /\ searching_clients \in Seq(Fd)
      /\ arrivals \in Seq(C) /\ conn \in [Fd -> C]
  BY SeqMonotonic DEF IInv, TypeOK, MatchMessage
<1>2. Len(matches) \in Nat /\ Len(searching_clients) \in Nat
  BY <1>1, LenProperties
<1>3. sent \in Seq(C) /\ Len(sent) = Len(matches)
  <2>1. ASSUME NEW i \in 1 .. Len(matches)
        PROVE  matches[i].to \in C
    <3>1. matches[i] \in MatchMessage
      BY <1>1, ElementOfSeq
    <3> QED BY <3>1 DEF MatchMessage
  <2> QED BY <2>1, <1>2
<1>4. hand \in Seq(C) /\ Len(hand) = InHand /\ (InHand = 1 => hand[1] = conn[in_hand])
  <2>1. CASE check = "send"
    <3>1. conn[in_hand] \in C
      BY <1>1, <2>1 DEF IInv, ControlOK
    <3> QED BY <2>1, <3>1 DEF InHand
  <2>2. CASE check # "send"
    BY <2>2, EmptySeq DEF InHand
  <2> QED BY <2>1, <2>2
<1>5. wait \in Seq(C) /\ Len(wait) = Len(searching_clients)
  <2>1. \A i \in 1 .. Len(searching_clients) : conn[searching_clients[i]] \in C
    BY <1>1, ElementOfSeq
  <2> QED BY <2>1, <1>2
<1>6. /\ \A i \in 1 .. Len(matches) : sent[i] = matches[i].to
      /\ \A i \in 1 .. Len(searching_clients) : wait[i] = conn[searching_clients[i]]
  OBVIOUS
<1>7. /\ Len(arrivals) = Len(matches) + InHand + Len(searching_clients)
      /\ \A i \in 1 .. Len(matches) : arrivals[i] = matches[i].to
      /\ InHand = 1 => arrivals[Len(matches) + 1] = conn[in_hand]
      /\ \A i \in 1 .. Len(searching_clients) :
           arrivals[Len(matches) + InHand + i] = conn[searching_clients[i]]
      /\ InHand \in {0, 1}
  BY DEF IInv, OrderOK, InHand
<1> HIDE DEF sent, hand, wait, C
<1>8. /\ sent \o hand \in Seq(C) /\ Len(sent \o hand) = Len(matches) + InHand
      /\ \A i \in 1 .. Len(matches) : (sent \o hand)[i] = sent[i]
      /\ InHand = 1 => (sent \o hand)[Len(matches) + 1] = hand[1]
  <2>1. /\ sent \o hand \in Seq(C) /\ Len(sent \o hand) = Len(sent) + Len(hand)
        /\ \A i \in 1 .. Len(sent) + Len(hand) :
             (sent \o hand)[i] = IF i <= Len(sent) THEN sent[i] ELSE hand[i - Len(sent)]
    BY <1>3, <1>4, ConcatProperties
  <2> QED BY <2>1, <1>2, <1>3, <1>4, <1>7
<1>9. /\ sent \o hand \o wait \in Seq(C)
      /\ Len(sent \o hand \o wait) = Len(matches) + InHand + Len(searching_clients)
      /\ \A i \in 1 .. Len(matches) + InHand : (sent \o hand \o wait)[i] = (sent \o hand)[i]
      /\ \A i \in 1 .. Len(searching_clients) :
           (sent \o hand \o wait)[Len(matches) + InHand + i] = wait[i]
  <2> DEFINE front == sent \o hand
  <2> HIDE DEF front
  <2>1. front \in Seq(C) /\ Len(front) = Len(matches) + InHand /\ Len(front) \in Nat
    BY <1>2, <1>7, <1>8 DEF front
  <2>2. /\ front \o wait \in Seq(C) /\ Len(front \o wait) = Len(front) + Len(wait)
        /\ \A i \in 1 .. Len(front) + Len(wait) :
             (front \o wait)[i] = IF i <= Len(front) THEN front[i] ELSE wait[i - Len(front)]
    <3>1. front \in Seq(C) /\ wait \in Seq(C)
      BY <2>1, <1>5
    <3> QED BY <3>1, ConcatProperties
  <2>3. /\ front \o wait \in Seq(C)
        /\ Len(front \o wait) = Len(matches) + InHand + Len(searching_clients)
        /\ \A i \in 1 .. Len(matches) + InHand : (front \o wait)[i] = front[i]
        /\ \A i \in 1 .. Len(searching_clients) :
             (front \o wait)[Len(matches) + InHand + i] = wait[i]
    BY <2>1, <2>2, <1>2, <1>5, <1>7
  <2> QED BY <2>3 DEF front
<1>10. ASSUME NEW i \in 1 .. Len(arrivals)
       PROVE  arrivals[i] = (sent \o hand \o wait)[i]
  <2>1. CASE i \in 1 .. Len(matches)
    BY <2>1, <1>2, <1>6, <1>7, <1>8, <1>9
  <2>2. CASE i = Len(matches) + 1 /\ InHand = 1
    BY <2>2, <1>2, <1>4, <1>7, <1>8, <1>9
  <2>3. CASE i \in Len(matches) + InHand + 1 .. Len(arrivals)
    <3> DEFINE j == i - Len(matches) - InHand
    <3>1. j \in 1 .. Len(searching_clients) /\ i = Len(matches) + InHand + j
      BY <2>3, <1>2, <1>7
    <3> HIDE DEF j
    <3> QED BY <3>1, <1>6, <1>7, <1>9
  <2>4. CASE InHand = 0
    <3>1. i \in 1 .. Len(matches) \/ i \in Len(matches) + InHand + 1 .. Len(arrivals)
      BY <2>4, <1>2, <1>7
    <3> QED BY <3>1, <2>1, <2>3
  <2>5. CASE InHand = 1
    <3>1. \/ i \in 1 .. Len(matches)
          \/ i = Len(matches) + 1
          \/ i \in Len(matches) + InHand + 1 .. Len(arrivals)
      BY <2>5, <1>2, <1>7
    <3> QED BY <3>1, <2>1, <2>2, <2>3, <2>5
  <2> QED BY <2>4, <2>5, <1>7
<1> QED BY <1>1, <1>7, <1>9, <1>10, SeqEqual

\* While nobody leaves, the clients are served in the order they searched, each
\* once, for any number of them.
THEOREM ServedInArrivalOrder == Spec => []ServedInOrder
<1>1. IInv => ServedInOrder
  BY OrderGivesConcatenation
<1> QED BY <1>1, Invariance, PTL

-----------------------------------------------------------------------------
(* The rounds of the check thread: the safety half of WaitingAreMatched.   *)

\* How many steps of its own the check thread is at most from the end of its
\* round.  A server it has still to ask takes a request and an answer, in the
\* loop over the phases and again in the loop that looks for a prepared server.
RoundLeft ==
  LET open == 2 * Cardinality(todo)
  IN  CASE check \in {"sleep", "undefined"} -> 0
        [] check = "query"        -> open + 2 * Cardinality(ServerId) + 8
        [] check = "query_wait"   -> open + 2 * Cardinality(ServerId) + 9
        [] check = "prepare"      -> open + 7
        [] check = "prepare_wait" -> open + 8
        [] check = "front"        -> IF seat = 1 THEN 6 ELSE 3
        [] check = "pop"          -> IF seat = 1 THEN 5 ELSE 2
        [] check = "send"         -> IF seat = 1 THEN 4 ELSE 1

\* A server that is visited is one less to visit.
LEMMA OneLessToVisit ==
  ASSUME IsFiniteSet(ServerId), todo \subseteq ServerId
  PROVE  /\ Cardinality(todo) \in Nat /\ Cardinality(ServerId) \in Nat
         /\ Cardinality(todo) <= Cardinality(ServerId)
         /\ \A s \in todo : Cardinality(todo \ {s}) = Cardinality(todo) - 1
<1>1. IsFiniteSet(todo)
  BY FS_Subset
<1> QED BY <1>1, FS_Subset, FS_RemoveElement, FS_CardinalityType

\* The number is one, and no round is longer than two loops over the servers and
\* two tokens.
LEMMA RoundBounded ==
  ASSUME IsFiniteSet(ServerId), TypeOK
  PROVE  RoundLeft \in 0 .. 4 * Cardinality(ServerId) + 9
<1> DEFINE k == Cardinality(todo)
           n == Cardinality(ServerId)
<1>1. k \in Nat /\ n \in Nat /\ k <= n
  BY OneLessToVisit DEF TypeOK
<1>2. RoundLeft =
        CASE check \in {"sleep", "undefined"} -> 0
          [] check = "query"        -> 2 * k + 2 * n + 8
          [] check = "query_wait"   -> 2 * k + 2 * n + 9
          [] check = "prepare"      -> 2 * k + 7
          [] check = "prepare_wait" -> 2 * k + 8
          [] check = "front"        -> IF seat = 1 THEN 6 ELSE 3
          [] check = "pop"          -> IF seat = 1 THEN 5 ELSE 2
          [] check = "send"         -> IF seat = 1 THEN 4 ELSE 1
  BY DEF RoundLeft
<1>3. /\ check \in {"sleep", "query", "query_wait", "prepare", "prepare_wait",
                   "front", "pop", "send", "undefined"}
      /\ seat \in {1, 2}
  BY DEF TypeOK
<1> HIDE DEF k, n
<1>4. /\ 2 * k + 2 * n + 8 \in 0 .. 4 * n + 9 /\ 2 * k + 2 * n + 9 \in 0 .. 4 * n + 9
      /\ 2 * k + 7 \in 0 .. 4 * n + 9 /\ 2 * k + 8 \in 0 .. 4 * n + 9
      /\ 0 .. 6 \subseteq 0 .. 4 * n + 9
  BY <1>1
<1>5. RoundLeft \in 0 .. 4 * n + 9
  BY <1>2, <1>3, <1>4
<1> QED BY <1>5 DEF n

\* Every step of the check thread but waking brings the end of the round nearer,
\* and waking starts the longest round.
LEMMA RoundShorter ==
  ASSUME IsFiniteSet(ServerId), TypeOK, ControlOK, CheckThread, check # "sleep"
  PROVE  RoundLeft' < RoundLeft
<1> DEFINE k == Cardinality(todo)
           n == Cardinality(ServerId)
           kk == Cardinality(todo')
<1>1. k \in Nat /\ n \in Nat /\ \A s \in todo : Cardinality(todo \ {s}) = k - 1
  BY OneLessToVisit DEF TypeOK
<1>2. todo = {} => k = 0
  BY FS_EmptySet
<1>3. /\ todo' = todo => kk = k
      /\ todo' = ServerId => kk = n
      /\ \A s \in todo : todo' = todo \ {s} => kk = k - 1
  BY <1>1
<1>4. RoundLeft =
        CASE check \in {"sleep", "undefined"} -> 0
          [] check = "query"        -> 2 * k + 2 * n + 8
          [] check = "query_wait"   -> 2 * k + 2 * n + 9
          [] check = "prepare"      -> 2 * k + 7
          [] check = "prepare_wait" -> 2 * k + 8
          [] check = "front"        -> IF seat = 1 THEN 6 ELSE 3
          [] check = "pop"          -> IF seat = 1 THEN 5 ELSE 2
          [] check = "send"         -> IF seat = 1 THEN 4 ELSE 1
  BY DEF RoundLeft
<1>5. RoundLeft' =
        CASE check' \in {"sleep", "undefined"} -> 0
          [] check' = "query"        -> 2 * kk + 2 * n + 8
          [] check' = "query_wait"   -> 2 * kk + 2 * n + 9
          [] check' = "prepare"      -> 2 * kk + 7
          [] check' = "prepare_wait" -> 2 * kk + 8
          [] check' = "front"        -> IF seat' = 1 THEN 6 ELSE 3
          [] check' = "pop"          -> IF seat' = 1 THEN 5 ELSE 2
          [] check' = "send"         -> IF seat' = 1 THEN 4 ELSE 1
  BY DEF RoundLeft
<1> HIDE DEF k, n, kk
<1>6. CASE Wake
  BY <1>6 DEF Wake
<1>7. ASSUME NEW s \in ServerId, SendQuery(s)
      PROVE  RoundLeft' < RoundLeft
  <2>1. check = "query" /\ check' = "query_wait" /\ kk = k - 1
    BY <1>7, <1>3 DEF SendQuery, Send
  <2> QED BY <2>1, <1>1, <1>4, <1>5
<1>8. ASSUME NEW s \in ServerId, SendPrepare(s)
      PROVE  RoundLeft' < RoundLeft
  <2>1. check = "prepare" /\ check' \in {"prepare", "prepare_wait"} /\ kk = k - 1
    BY <1>8, <1>3 DEF SendPrepare, Send
  <2> QED BY <2>1, <1>1, <1>4, <1>5
<1>9. CASE ReceiveStatus
  <2>1. check = "query_wait" /\ check' = "query" /\ kk = k
    BY <1>9, <1>3 DEF ReceiveStatus
  <2> QED BY <2>1, <1>1, <1>4, <1>5
<1>10. CASE Matchmake
  <2>1. /\ check = "query" /\ k = 0
        /\ check' = "sleep" \/ (check' = "prepare" /\ kk = n)
    BY <1>10, <1>2, <1>3 DEF Matchmake
  <2> QED BY <2>1, <1>1, <1>4, <1>5
<1>11. CASE NoPreparedServer
  <2>1. check = "prepare" /\ check' = "sleep"
    BY <1>11 DEF NoPreparedServer
  <2> QED BY <2>1, <1>1, <1>4, <1>5
<1>12. CASE ReceiveTokens
  <2>1. check = "prepare_wait" /\ check' = "front" /\ seat' = 1
    BY <1>12 DEF ReceiveTokens
  <2> QED BY <2>1, <1>1, <1>4, <1>5
<1>13. CASE Timeout
  <2>1. /\ kk = k
        /\ \/ check = "query_wait" /\ check' = "query"
           \/ check = "prepare_wait" /\ check' = "prepare"
    BY <1>13, <1>3 DEF Timeout
  <2> QED BY <2>1, <1>1, <1>4, <1>5
<1>14. CASE ReadFront
  <2>1. check = "front" /\ check' \in {"undefined", "pop"} /\ seat' = seat
    BY <1>14 DEF ReadFront
  <2> QED BY <2>1, <1>4, <1>5
<1>15. CASE PopFront
  <2>1. check = "pop" /\ check' \in {"undefined", "send"} /\ seat' = seat
    BY <1>15 DEF PopFront
  <2> QED BY <2>1, <1>4, <1>5
<1>16. CASE SendMatch
  <2>1. /\ check = "send"
        /\ \/ seat = 1 /\ seat' = 2 /\ check' = "front"
           \/ seat # 1 /\ check' = "sleep"
    BY <1>16 DEF SendMatch
  <2> QED BY <2>1, <1>4, <1>5
<1> QED BY <1>6, <1>7, <1>8, <1>9, <1>10, <1>11, <1>12, <1>13, <1>14, <1>15, <1>16
        DEF CheckThread

\* The listener, the clients, the servers and the network neither lengthen nor
\* shorten it.
LEMMA OthersLeaveRound ==
  ASSUME Listener \/ Environment \/ UNCHANGED vars
  PROVE  RoundLeft' = RoundLeft
<1>1. UNCHANGED <<check, todo, seat>>
  BY DEF Listener, Environment, Accept, ReadSearch, CloseSocket,
         EraseSearching, EraseClient, Connect,
         SendSearch, Close, Answer, ServeQuery, ServePrepare, LatePrepare,
         MatchStarts, Restart, vars, checkVars
<1> QED BY <1>1 DEF RoundLeft

\* A round of check_status ends, whatever the listener, the servers and the
\* network do meanwhile: at most 4n + 8 steps of the thread after it woke, with n
\* servers listed, it sleeps again (or came to an empty queue).  With the fairness
\* of the two threads this is why WaitingAreMatched can count on the next round;
\* nobody can keep the thread busy with what it has already done.
THEOREM RoundsEnd ==
  ASSUME IsFiniteSet(ServerId)
  PROVE  Spec => /\ [](RoundLeft \in 0 .. 4 * Cardinality(ServerId) + 9)
                 /\ [][ /\ CheckThread /\ check # "sleep" => RoundLeft' < RoundLeft
                        /\ ~CheckThread => RoundLeft' = RoundLeft ]_vars
<1>1. IInv => RoundLeft \in 0 .. 4 * Cardinality(ServerId) + 9
  BY RoundBounded DEF IInv
<1>2. IInv /\ [Next]_vars =>
        [ /\ CheckThread /\ check # "sleep" => RoundLeft' < RoundLeft
          /\ ~CheckThread => RoundLeft' = RoundLeft ]_vars
  BY RoundShorter, OthersLeaveRound DEF IInv, Next
<1> QED BY <1>1, <1>2, Invariance, PTL DEF Spec
=============================================================================
