-------------------------- MODULE CoordinatorsProofs --------------------------
(***************************************************************************)
(* The Java and the Python coordinator, proved for any number of clients,  *)
(* servers, departures and late answers: a seat is given once, a Match     *)
(* fits its server, and clients are served in order, each with the         *)
(* exceptions that the properties name; every variable has its type; and   *)
(* rounds of checks end.                                                   *)
(*                                                                         *)
(* What the two do to requests, tokens and queue is alike: their steps are *)
(* sorted into a few kinds (StepKind), and each part of the invariant is   *)
(* kept by every kind.                                                     *)
(***************************************************************************)
EXTENDS MCCoordinators, SequenceTheorems, FiniteSetTheorems, WellFoundedInduction, TLAPS

-----------------------------------------------------------------------------
(* The kinds of steps. *)

Waits == {"query_wait", "prepare_wait"}  \* the check thread waits for an answer
HandsOut == {"pop", "send"}              \* the check thread hands out a match
Wait(kind) == IF kind = "query" THEN "query_wait" ELSE "prepare_wait"
Sock(kind) == IF impl = "java" THEN kind ELSE "fresh"
Then(kind) == IF impl = "java" THEN kind ELSE "closed"

\* The order of service is promised: Python promises it until a reset.
Calm == impl = "java" \/ Python!NobodyReset

netState == <<server_phase, inflight, inbox, late>>
handState == <<match, seat, in_hand, matches>>
queueState == <<queue, arrivals, unread, open, closing, stage>>

Asks(kind) ==
  /\ check = kind /\ check' = Wait(kind)
  /\ \E s \in ServerId : Ask(kind, s, Sock(kind))
  /\ UNCHANGED <<server_phase, inbox, late, handState, queueState>>

Misses(kind) ==
  /\ check = Wait(kind) /\ check' = kind
  /\ NothingComes(Sock(kind), Then(kind))
  /\ UNCHANGED <<server_phase, inbox, late, handState, queueState>>

Hears ==
  /\ check = "query_wait" /\ check' = "query"
  /\ Receive(Sock("query"))
  /\ UNCHANGED <<handState, queueState>>

Obtains ==
  /\ check = "prepare_wait" /\ check' = "pop"
  /\ Receive(Sock("prepare"))
  /\ match' = [server |-> asked, of |-> Head(inbox[Sock("prepare")]).server]
  /\ UNCHANGED <<seat, in_hand, matches, queueState>>

Goes ==
  /\ check \in {"sleep", "query", "prepare"} /\ check' \in {"sleep", "query", "prepare"}
  /\ check' = "prepare" => check = "prepare" \/ Len(queue) >= 2
  /\ UNCHANGED <<netState, handState, queueState>>

Pops ==
  /\ check = "pop"
  /\ \/ queue = <<>> /\ check' = "dead" /\ UNCHANGED <<queue, in_hand>>
     \/ queue # <<>> /\ check' = "send" /\ in_hand' = Head(queue) /\ queue' = Tail(queue)
  /\ UNCHANGED <<netState, match, seat, matches, arrivals, unread, open, closing, stage>>

Sends ==
  /\ check = "send"
  /\ \/ /\ matches' = Append(matches, [server |-> match.server, of |-> match.of, seat |-> seat,
                                       to |-> in_hand])
        /\ IF seat = 1 THEN seat' = 2 /\ check' = "pop" ELSE seat' = 1 /\ check' = "sleep"
     \/ /\ impl = "python" /\ (in_hand \notin open \/ stage[in_hand] = "reset")
        /\ check' = "dead" /\ UNCHANGED <<matches, seat>>
  /\ UNCHANGED <<netState, match, in_hand, queueState>>

Delivers ==
  /\ \E r \in inflight :
       \/ /\ r.answer = "none"
          /\ IF r.kind = "query" \/ server_phase[r.server] = "WAITING"
             THEN inflight' = (inflight \ {r}) \cup
                    {[r EXCEPT !.answer = IF r.kind = "query" THEN server_phase[r.server] ELSE "tokens"]}
             ELSE inflight' = inflight \ {r}
          /\ server_phase' = IF r.kind = "query" THEN server_phase
                             ELSE [server_phase EXCEPT ![r.server] = "PREPARING"]
          /\ UNCHANGED <<inbox, late>>
       \/ /\ r.answer # "none"
          /\ inflight' = inflight \ {r}
          /\ IF r.socket = "closed" THEN UNCHANGED <<inbox, late>>
             ELSE /\ inbox' = [inbox EXCEPT ![r.socket] =
                                 Append(@, [server |-> r.server, answer |-> r.answer])]
                  /\ late' = (late \/ (r.late /\ r.kind = "prepare"))
          /\ UNCHANGED server_phase
  /\ UNCHANGED <<check, asked, handState, queueState>>

Arrives ==
  /\ \E c \in unread :
       /\ unread' = unread \ {c} /\ arrivals' = Append(arrivals, c)
       /\ queue' \in {queue, Append(queue, c)}
       /\ (\A i \in 1 .. Len(queue) : queue[i] # c) => queue' = Append(queue, c)
       /\ impl = "python" => c \in open
  /\ UNCHANGED <<netState, handState, check, asked, open, closing, stage>>

\* What else the listener and the clients do: the queue changes in no calm state.
Stirs ==
  /\ UNCHANGED <<arrivals, unread>>
  /\ Calm' => Calm /\ UNCHANGED queue /\ (impl = "python" => open \subseteq open')
  /\ queue' \in Seq(Client)
  /\ UNCHANGED <<netState, handState, check, asked>>

StepKind ==
  \/ \E kind \in {"query", "prepare"} : Asks(kind) \/ Misses(kind)
  \/ Hears \/ Obtains \/ Goes \/ Pops \/ Sends \/ Delivers \/ Arrives \/ Stirs

-----------------------------------------------------------------------------
(* What is left of a queue is a queue. *)

\* A set of natural numbers has a least element.
LEMMA LeastNatural ==
  ASSUME NEW S, S \subseteq Nat, S # {}
  PROVE  \E i \in S : \A j \in S : i <= j
<1> DEFINE Below == {ss \in Nat \X Nat : ss[1] < ss[2]}
<1>1. IsWellFoundedOn(Below, Nat)
  BY NatLessThanWellFounded DEF OpToRel
<1> HIDE DEF Below
<1>2. PICK i \in S : \A j \in S : ~ (<<j, i>> \in Below)
  BY <1>1, WFMin
<1>3. \A j \in S : ~ (j < i)
  BY <1>2 DEF Below
<1> QED BY <1>3

\* What is left of a queue without the first place of a client is a queue.
LEMMA WithoutIsSequence ==
  ASSUME NEW q \in Seq(Client), NEW c, \E i \in 1 .. Len(q) : q[i] = c
  PROVE  Python!Without(q, c) \in Seq(Client)
<1> DEFINE First(i) == q[i] = c /\ \A j \in 1 .. i - 1 : q[j] # c
           k == CHOOSE i \in 1 .. Len(q) : First(i)
           S == {i \in 1 .. Len(q) : q[i] = c}
<1>1. Len(q) \in Nat /\ \A i \in 1 .. Len(q) : q[i] \in Client
  BY LenProperties, ElementOfSeq
<1>2. PICK i \in S : \A j \in S : i <= j
  <2>1. S \subseteq Nat /\ S # {}
    BY <1>1
  <2> HIDE DEF S
  <2> QED BY <2>1, LeastNatural
<1>3. i \in 1 .. Len(q) /\ First(i)
  BY <1>1, <1>2
<1>4. k \in 1 .. Len(q)
  <2> HIDE DEF First
  <2> QED BY <1>3
<1>5. Python!Without(q, c) = SubSeq(q, 1, k - 1) \o SubSeq(q, k + 1, Len(q))
  BY DEF Python!Without
<1> HIDE DEF k
<1>6. SubSeq(q, 1, k - 1) \in Seq(Client)
  <2>1. 1 \in Int /\ k - 1 \in Int /\ \A j \in 1 .. k - 1 : q[j] \in Client
    BY <1>1, <1>4
  <2> QED BY <2>1, SubSeqProperties
<1>7. SubSeq(q, k + 1, Len(q)) \in Seq(Client)
  <2>1. k + 1 \in Int /\ Len(q) \in Int /\ \A j \in k + 1 .. Len(q) : q[j] \in Client
    BY <1>1, <1>4
  <2> QED BY <2>1, SubSeqProperties
<1> QED BY <1>5, <1>6, <1>7, ConcatProperties

-----------------------------------------------------------------------------
(* Every step is of one of these kinds. *)

\* What the listeners' steps need: a connection is closed only after a reset.
ClosingOK ==
  /\ impl \in {"java", "python"}
  /\ stage \in [Client -> {"searched", "closed", "reset"}]
  /\ closing # Nobody => impl = "python" /\ closing \in Client /\ stage[closing] = "reset"

\* A request is answered, or an answer arrives: alike for both coordinators.
LEMMA NetworkKind ==
  ASSUME Network
  PROVE  Delivers
BY DEF Network, Serve, Deliver, Delivers, clientVars, queueVars, checkVars, handState, queueState

\* Every step of the Java coordinator is of one of the kinds.
LEMMA JavaStepKind ==
  ASSUME ClosingOK, queue \in Seq(Client), impl = "java", impl' = impl, Java!Next
  PROVE  StepKind
<1> USE DEF netState, handState, queueState
<1>1. ASSUME NEW c \in Client, Java!Accept(c) \/ Java!HandleDisconnection(c) \/ Java!Leave(c, "closed")
      PROVE  Stirs
  BY <1>1 DEF Java!Accept, Java!HandleDisconnection, Java!Leave, Java!clientVars, Java!queueVars,
     Java!checkVars, Java!netVars, Stirs, Calm, ClosingOK
<1>2. ASSUME NEW c \in Client, Java!ReadSearch(c)
      PROVE  Arrives
  BY <1>2 DEF Java!ReadSearch, Java!checkVars, Java!netVars, Arrives
<1>3. ASSUME NEW s \in ServerId, Java!SendQuery(s)
      PROVE  Asks("query")
  BY <1>3 DEF Java!SendQuery, Java!Ask, Ask, Asks, Sock, Wait, Java!clientVars, Java!queueVars
<1>4. ASSUME NEW s \in ServerId, Java!SendPrepare(s)
      PROVE  Asks("prepare") \/ Goes
  BY <1>4 DEF Java!SendPrepare, Java!Ask, Ask, Asks, Goes, Sock, Wait, Java!clientVars, Java!queueVars
<1>5. ASSUME Java!ReceiveStatus PROVE Hears
  BY <1>5 DEF Java!ReceiveStatus, Java!Receive, Receive, Hears, Sock, Java!clientVars, Java!queueVars
<1>6. ASSUME Java!Timeout PROVE Misses("query") \/ Misses("prepare")
  <2>1. ASSUME NEW kind \in {"query", "prepare"}, check = Wait(kind), check' = kind,
               Java!NothingComes(kind, kind)
        PROVE  Misses(kind)
    <3>1. NothingComes(kind, kind)
      BY <2>1, Zenon DEF Java!NothingComes, NothingComes, Java!Cardinality, Cardinality
    <3> QED BY <1>6, <2>1, <3>1 DEF Java!Timeout, Misses, Sock, Then, Java!clientVars, Java!queueVars
  <2> QED BY <1>6, <2>1 DEF Java!Timeout, Wait
<1>7. ASSUME Java!ReceiveTokens PROVE Obtains
  BY <1>7 DEF Java!ReceiveTokens, Java!Receive, Receive, Obtains, Sock, Java!clientVars, Java!queueVars
<1>8. ASSUME Java!Matchmake \/ Java!NoPreparedServer \/ Java!Wake PROVE Goes
  BY <1>8 DEF Java!Matchmake, Java!NoPreparedServer, Java!Wake, Goes, Java!clientVars,
     Java!queueVars, Java!netVars
<1>9. ASSUME Java!Pop PROVE Pops
  BY <1>9 DEF Java!Pop, Pops, Java!clientVars, Java!netVars
<1>10. ASSUME Java!SendMatch PROVE Sends
  BY <1>10 DEF Java!SendMatch, Sends, Java!clientVars, Java!queueVars, Java!netVars
<1>11. ASSUME Java!Network PROVE Delivers
  BY <1>11, NetworkKind DEF Java!Network, Java!Serve, Java!Deliver, Java!clientVars, Java!queueVars,
     Java!checkVars, Network, Serve, Deliver, clientVars, queueVars, checkVars
<1>12. Java!Listen \/ (\E c \in Client : Java!Leave(c, "closed")) => Stirs \/ Arrives
  BY <1>1, <1>2 DEF Java!Listen
<1>13. Java!CheckStatus => StepKind
  BY <1>3, <1>4, <1>5, <1>6, <1>7, <1>8, <1>9, <1>10 DEF Java!CheckStatus, StepKind
<1> QED BY <1>11, <1>12, <1>13 DEF Java!Next, StepKind

\* Every step of the Python coordinator is of one of the kinds.
LEMMA PythonStepKind ==
  ASSUME ClosingOK, queue \in Seq(Client), impl = "python", impl' = impl, Python!Next
  PROVE  StepKind
<1> USE DEF netState, handState, queueState
<1>1. ASSUME NEW c \in Client,
             Python!Accept(c) \/ Python!Leave(c, "closed") \/ Python!Leave(c, "reset")
      PROVE  Stirs
  <2>1. Calm' => Calm
    BY <1>1 DEF Python!Accept, Python!Leave, Python!Left, Calm, Python!NobodyReset, ClosingOK
  <2> QED BY <1>1, <2>1 DEF Python!Accept, Python!Leave, Python!clientVars, Python!queueVars,
      Python!checkVars, Python!netVars, Stirs, ClosingOK
<1>2. ASSUME NEW c \in Client, Python!CloseConnection(c)
      PROVE  Stirs
  <2>1. ~ Calm'
    BY <1>2 DEF Python!CloseConnection, Python!clientVars, Calm, Python!NobodyReset, ClosingOK
  <2> QED BY <1>2, <2>1 DEF Python!CloseConnection, Python!clientVars, Python!checkVars,
      Python!netVars, Stirs, ClosingOK
<1>3. ASSUME Python!RemoveConnection
      PROVE  Stirs
  <2>1. ~ Calm'
    BY <1>3 DEF Python!RemoveConnection, Python!clientVars, Calm, Python!NobodyReset, ClosingOK
  <2>2. queue' \in Seq(Client)
    BY <1>3, WithoutIsSequence DEF Python!RemoveConnection, ClosingOK
  <2> QED BY <1>3, <2>1, <2>2 DEF Python!RemoveConnection, Python!clientVars, Python!checkVars,
      Python!netVars, Stirs
<1>4. ASSUME NEW c \in Client, Python!ReadSearch(c)
      PROVE  Arrives
  BY <1>4 DEF Python!ReadSearch, Python!checkVars, Python!netVars, Arrives
<1>5. ASSUME NEW s \in ServerId, Python!SendQuery(s)
      PROVE  Asks("query")
  BY <1>5 DEF Python!SendQuery, Python!Ask, Ask, Asks, Sock, Wait, Python!clientVars, Python!queueVars
<1>6. ASSUME NEW s \in ServerId, Python!SendPrepare(s)
      PROVE  Asks("prepare") \/ Goes
  BY <1>6 DEF Python!SendPrepare, Python!Ask, Ask, Asks, Goes, Sock, Wait, Python!clientVars,
     Python!queueVars
<1>7. ASSUME Python!ReceiveStatus PROVE Hears
  BY <1>7 DEF Python!ReceiveStatus, Python!Receive, Receive, Hears, Sock, Python!clientVars,
     Python!queueVars
<1>8. ASSUME Python!Timeout PROVE Misses("query") \/ Misses("prepare")
  <2>1. ASSUME NEW kind \in {"query", "prepare"}, check = Wait(kind), check' = kind
        PROVE  Misses(kind)
    <3>1. NothingComes("fresh", "closed")
      <4>1. Python!NothingComes("fresh", "closed")
        BY <1>8 DEF Python!Timeout, Python!CloseSocket
      <4> QED BY <4>1, Zenon DEF Python!NothingComes, NothingComes, Python!Cardinality,
            Cardinality
    <3> QED BY <1>8, <2>1, <3>1 DEF Python!Timeout, Misses, Sock, Then, Python!clientVars,
        Python!queueVars
  <2> QED BY <1>8, <2>1 DEF Python!Timeout, Wait
<1>9. ASSUME Python!ReceiveTokens PROVE Obtains
  BY <1>9 DEF Python!ReceiveTokens, Python!Receive, Receive, Obtains, Sock, Python!clientVars,
     Python!queueVars
<1>10. ASSUME Python!Matchmake \/ Python!NoPreparedServer \/ Python!Wake PROVE Goes
  BY <1>10 DEF Python!Matchmake, Python!NoPreparedServer, Python!Wake, Goes, Python!clientVars,
     Python!queueVars, Python!netVars
<1>11. ASSUME Python!PopFirst PROVE Pops
  BY <1>11 DEF Python!PopFirst, Pops, Python!clientVars, Python!netVars
<1>12. ASSUME Python!SendMatch PROVE Sends
  BY <1>12 DEF Python!SendMatch, Sends, Python!clientVars, Python!queueVars, Python!netVars
<1>13. ASSUME Python!Network PROVE Delivers
  BY <1>13, NetworkKind DEF Python!Network, Python!Serve, Python!Deliver, Python!clientVars,
     Python!queueVars, Python!checkVars, Network, Serve, Deliver, clientVars, queueVars, checkVars
<1>14. Python!Listen \/ (\E c \in Client, how \in {"closed", "reset"} : Python!Leave(c, how))
          => Stirs \/ Arrives
  BY <1>1, <1>2, <1>3, <1>4 DEF Python!Listen
<1>15. Python!CheckStatus => StepKind
  BY <1>5, <1>6, <1>7, <1>8, <1>9, <1>10, <1>11, <1>12 DEF Python!CheckStatus, StepKind
<1> QED BY <1>13, <1>14, <1>15 DEF Python!Next, StepKind

\* A connection is taken for reset only when it is.
LEMMA ClosingKept ==
  ASSUME ClosingOK, CoordinatorsNext
  PROVE  ClosingOK'
<1>1. impl' = impl
  BY DEF CoordinatorsNext
<1>2. CASE impl = "java" /\ Java!Next
  <2>1. UNCHANGED closing
    BY <1>2 DEF Java!Next, Java!Listen, Java!Accept, Java!ReadSearch, Java!HandleDisconnection,
       Java!CheckStatus, Java!SendQuery, Java!SendPrepare, Java!ReceiveStatus, Java!Timeout,
       Java!Matchmake, Java!NoPreparedServer, Java!ReceiveTokens, Java!Pop, Java!SendMatch, Java!Wake,
       Java!Network, Java!Serve, Java!Deliver, Java!Leave, Java!queueVars
  <2>2. stage' = stage \/ \E c \in Client : stage' = [stage EXCEPT ![c] = "closed"]
    BY <1>2 DEF Java!Next, Java!Listen, Java!Accept, Java!ReadSearch, Java!HandleDisconnection,
       Java!CheckStatus, Java!SendQuery, Java!SendPrepare, Java!ReceiveStatus, Java!Timeout,
       Java!Matchmake, Java!NoPreparedServer, Java!ReceiveTokens, Java!Pop, Java!SendMatch, Java!Wake,
       Java!Network, Java!Serve, Java!Deliver, Java!Leave, Java!clientVars
  <2> QED BY <1>1, <1>2, <2>1, <2>2 DEF ClosingOK
<1>3. CASE impl = "python" /\ Python!Next
  <2>1. ASSUME NEW c \in Client, NEW how \in {"closed", "reset"}, Python!Leave(c, how)
        PROVE  ClosingOK'
    BY <1>1, <1>3, <2>1 DEF Python!Leave, Python!Left, Python!queueVars, ClosingOK
  <2>2. ASSUME NEW c \in Client, Python!CloseConnection(c)
        PROVE  ClosingOK'
    BY <1>1, <1>3, <2>2 DEF Python!CloseConnection, Python!clientVars, ClosingOK
  <2>3. ASSUME Python!RemoveConnection
        PROVE  ClosingOK'
    BY <1>1, <1>3, <2>3 DEF Python!RemoveConnection, Python!clientVars, ClosingOK
  <2>4. ASSUME Python!CheckStatus \/ Python!Network \/ \E c \in Client : Python!Accept(c) \/ Python!ReadSearch(c)
        PROVE  UNCHANGED <<closing, stage>>
    BY <2>4 DEF Python!Accept, Python!ReadSearch, Python!CheckStatus, Python!SendQuery,
       Python!SendPrepare, Python!ReceiveStatus, Python!Timeout, Python!Matchmake,
       Python!NoPreparedServer, Python!ReceiveTokens, Python!PopFirst, Python!SendMatch, Python!Wake,
       Python!Network, Python!Serve, Python!Deliver, Python!queueVars, Python!clientVars
  <2> QED BY <1>1, <1>3, <2>1, <2>2, <2>3, <2>4 DEF Python!Next, Python!Listen, ClosingOK
<1> QED BY <1>2, <1>3 DEF CoordinatorsNext

-----------------------------------------------------------------------------
(* Types. *)

Request == [kind : {"query", "prepare"}, server : ServerId, socket : Socket \cup {"closed"},
            answer : Phase \cup {"none", "tokens"}, late : BOOLEAN]
Answer == [server : ServerId, answer : Phase \cup {"none", "tokens"}]
Sent == [server : ServerId, of : ServerId, seat : {1, 2}, to : Client]

NetTypes ==
  /\ server_phase \in [ServerId -> {"WAITING", "PREPARING"}]
  /\ inflight \subseteq Request /\ inbox \in [Socket -> Seq(Answer)] /\ late \in BOOLEAN
  /\ check \in Waits => asked \in ServerId

HandTypes ==
  /\ check \in {"sleep", "query", "query_wait", "prepare", "prepare_wait", "pop", "send", "dead"}
  /\ check \in HandsOut => match \in [server : ServerId, of : ServerId]
  /\ check = "send" => in_hand \in Client
  /\ seat \in {1, 2} /\ (check \notin HandsOut \cup {"dead"} => seat = 1)
  /\ matches \in Seq(Sent)
  /\ queue \in Seq(Client) /\ arrivals \in Seq(Client) /\ unread \subseteq Client

Types == impl \in {"java", "python"} /\ NetTypes /\ HandTypes

\* After a timeout what is on its way is late: it was, or is from now on.
LEMMA Forgotten ==
  ASSUME NEW socket, NEW then, NothingComes(socket, then)
  PROVE  \A x \in inflight' :
           \/ x \in inflight /\ x.late
           \/ \E r \in inflight : ~r.late /\ x = [r EXCEPT !.late = TRUE, !.socket = then]
BY Zenon DEF NothingComes

\* Every step keeps the types of what is on its way and of what arrived.
LEMMA NetTypesKept ==
  ASSUME Types, StepKind, impl' = impl
  PROVE  NetTypes'
<1> USE DEF Types, NetTypes, netState
<1>1. ASSUME NEW kind \in {"query", "prepare"}, Asks(kind)
      PROVE  NetTypes'
  <2>1. PICK s \in ServerId : Ask(kind, s, Sock(kind))
    BY <1>1 DEF Asks
  <2>2. Sock(kind) \in Socket
    BY DEF Sock, Socket
  <2>3. [kind |-> kind, server |-> s, socket |-> Sock(kind), answer |-> "none", late |-> FALSE] \in Request
    BY <2>2 DEF Request
  <2>4. inflight' \subseteq Request
    BY <2>1, <2>3 DEF Ask
  <2> QED BY <1>1, <2>1, <2>4 DEF Asks, Ask
<1>2. ASSUME NEW kind \in {"query", "prepare"}, Misses(kind)
      PROVE  NetTypes'
  <2>1. Then(kind) \in Socket \cup {"closed"}
    BY DEF Then, Socket
  <2>2. inflight' \subseteq Request
    <3>1. ASSUME NEW r \in Request
          PROVE  [r EXCEPT !.late = TRUE, !.socket = Then(kind)] \in Request
      BY <2>1 DEF Request
    <3>2. NothingComes(Sock(kind), Then(kind))
      BY <1>2 DEF Misses
    <3>3. ASSUME NEW x \in inflight'
          PROVE  x \in Request
      <4>1. \/ x \in inflight
            \/ \E r \in inflight : x = [r EXCEPT !.late = TRUE, !.socket = Then(kind)]
        BY <3>2, <3>3, Forgotten
      <4> QED BY <3>1, <4>1
    <3> QED BY <3>3
  <2> QED BY <1>2, <2>2 DEF Misses, Waits
<1>3. ASSUME NEW k \in Socket, Receive(k), check' \notin Waits
      PROVE  NetTypes'
  <2>1. Tail(inbox[k]) \in Seq(Answer)
    BY <1>3, HeadTailProperties DEF Receive
  <2>2. inflight' \subseteq Request
    <3>1. \A r \in Request : [r EXCEPT !.late = TRUE] \in Request
      BY DEF Request
    <3>2. \A x \in inflight' : \E r \in inflight : x = [r EXCEPT !.late = TRUE]
      BY <1>3 DEF Receive
    <3> QED BY <3>1, <3>2
  <2>3. inbox' \in [Socket -> Seq(Answer)]
    BY <1>3, <2>1 DEF Receive
  <2> QED BY <1>3, <2>2, <2>3 DEF Receive
<1>4. ASSUME Hears \/ Obtains
      PROVE  NetTypes'
  <2>1. Sock("query") \in Socket /\ Sock("prepare") \in Socket
    BY DEF Sock, Socket
  <2> QED BY <1>3, <1>4, <2>1 DEF Hears, Obtains, Waits
<1>5. ASSUME Goes \/ Pops \/ Sends
      PROVE  NetTypes'
  BY <1>5 DEF Goes, Pops, Sends, Waits
<1>6. ASSUME Delivers
      PROVE  NetTypes'
  <2>1. UNCHANGED <<check, asked>>
    BY <1>6 DEF Delivers
  <2>2. PICK r \in inflight : Delivers!1!(r)
    BY <1>6 DEF Delivers
  <2>3. r \in Request
    OBVIOUS
  <2>4. CASE r.answer = "none"
    <3>1. server_phase' \in [ServerId -> {"WAITING", "PREPARING"}]
      BY <2>2, <2>3, <2>4 DEF Request
    <3>2. inflight' \subseteq Request
      BY <2>2, <2>3, <2>4 DEF Request, Phase
    <3> QED BY <2>1, <2>2, <2>4, <3>1, <3>2
  <2>5. CASE r.answer # "none" /\ r.socket # "closed"
    <3>1. r.socket \in Socket /\ [server |-> r.server, answer |-> r.answer] \in Answer
      BY <2>3, <2>5 DEF Request, Answer
    <3>2. Append(inbox[r.socket], [server |-> r.server, answer |-> r.answer]) \in Seq(Answer)
      BY <3>1, AppendProperties
    <3>3. inbox' \in [Socket -> Seq(Answer)]
      BY <2>2, <2>5, <3>1, <3>2
    <3>4. late' \in BOOLEAN
      BY <2>2, <2>3, <2>5 DEF Request
    <3> QED BY <2>1, <2>2, <2>5, <3>3, <3>4
  <2>6. CASE r.answer # "none" /\ r.socket = "closed"
    BY <2>1, <2>2, <2>6
  <2> QED BY <2>4, <2>5, <2>6
<1>7. ASSUME Arrives \/ Stirs
      PROVE  NetTypes'
  BY <1>7 DEF Arrives, Stirs
<1> QED BY <1>1, <1>2, <1>4, <1>5, <1>6, <1>7 DEF StepKind

\* Every step keeps the types of the queue and of what is handed out.
LEMMA HandTypesKept ==
  ASSUME Types, StepKind, impl' = impl
  PROVE  HandTypes'
<1> USE DEF Types, HandTypes, HandsOut, handState, queueState
<1>1. ASSUME NEW kind \in {"query", "prepare"}, Asks(kind) \/ Misses(kind)
      PROVE  HandTypes'
  BY <1>1 DEF Asks, Misses, Wait
<1>2. ASSUME Hears \/ Goes \/ Delivers \/ Stirs
      PROVE  HandTypes'
  BY <1>2 DEF Hears, Goes, Delivers, Stirs
<1>3. ASSUME Obtains
      PROVE  HandTypes'
  <2>1. Head(inbox[Sock("prepare")]) \in Answer
    <3>1. Sock("prepare") \in Socket
      BY DEF Sock, Socket
    <3> QED BY <1>3, <3>1, HeadTailProperties DEF Obtains, Receive, NetTypes
  <2>2. match' \in [server : ServerId, of : ServerId]
    BY <1>3, <2>1 DEF Obtains, Answer, NetTypes, Waits
  <2> QED BY <1>3, <2>2 DEF Obtains
<1>4. ASSUME Pops
      PROVE  HandTypes'
  <2>1. queue # <<>> => Head(queue) \in Client /\ Tail(queue) \in Seq(Client)
    BY HeadTailProperties
  <2> QED BY <1>4, <2>1 DEF Pops
<1>5. ASSUME Sends
      PROVE  HandTypes'
  <2>1. [server |-> match.server, of |-> match.of, seat |-> seat, to |-> in_hand] \in Sent
    BY <1>5 DEF Sends, Sent
  <2>2. Append(matches, [server |-> match.server, of |-> match.of, seat |-> seat, to |-> in_hand])
          \in Seq(Sent)
    BY <2>1, AppendProperties
  <2> QED BY <1>5, <2>2 DEF Sends
<1>6. ASSUME Arrives
      PROVE  HandTypes'
  <2>1. PICK c \in unread : Arrives!1!(c)
    BY <1>6 DEF Arrives
  <2>2. c \in Client
    OBVIOUS
  <2>3. Append(queue, c) \in Seq(Client) /\ Append(arrivals, c) \in Seq(Client)
    BY <2>2, AppendProperties
  <2> QED BY <1>6, <2>1, <2>3 DEF Arrives
<1> QED BY <1>1, <1>2, <1>3, <1>4, <1>5, <1>6 DEF StepKind

-----------------------------------------------------------------------------
(* What is on its way. *)

\* The socket that answers to a Prepare come to.
Desk == Sock("prepare")

\* A request that is not late is the one waited for, and there is one of them.
CurrentOK ==
  /\ \A r \in inflight : ~r.late => check = Wait(r.kind) /\ r.server = asked
  /\ \A r, t \in inflight : ~r.late /\ ~t.late => r = t

\* An answer comes to the socket of its request, to a closed one when it is
\* late and the socket was the request's own; tokens answer a Prepare.
AddressOK ==
  /\ \A r \in inflight :
       /\ r.socket = IF r.late THEN Then(r.kind) ELSE Sock(r.kind)
       /\ r.answer = "tokens" <=> r.kind = "prepare" /\ r.answer # "none"
  /\ impl = "java" =>
       \A k \in Socket : \A i \in 1 .. Len(inbox[k]) : inbox[k][i].answer = "tokens" <=> k = "prepare"
  /\ impl = "python" => ~late

\* As long as nothing came late: what waits is the answer that is waited for.
WaitingOK ==
  ~late /\ inbox[Desk] # <<>> =>
    /\ Len(inbox[Desk]) = 1
    /\ check \in Waits /\ Head(inbox[Desk]).server = asked
    /\ check = "prepare_wait" <=> Head(inbox[Desk]).answer = "tokens"
    /\ \A r \in inflight : r.late

Requests == CurrentOK /\ AddressOK /\ WaitingOK

\* The two sockets are sockets, and the first answer at one is an answer.
LEMMA SocketFacts ==
  ASSUME Types
  PROVE  /\ \A kind \in {"query", "prepare"} : Sock(kind) \in Socket
         /\ Desk \in Socket
         /\ \A k \in Socket : /\ Len(inbox[k]) \in Nat
                              /\ inbox[k] # <<>> => /\ Len(inbox[k]) # 0
                                                    /\ Head(inbox[k]) = inbox[k][1]
                                                    /\ Head(inbox[k]) \in Answer
                                                    /\ Len(Tail(inbox[k])) = Len(inbox[k]) - 1
                                                    /\ \A i \in 1 .. Len(Tail(inbox[k])) :
                                                         Tail(inbox[k])[i] = inbox[k][i + 1]
<1>1. \A k \in Socket : inbox[k] \in Seq(Answer)
  BY DEF Types, NetTypes
<1>2. ASSUME NEW k \in Socket
      PROVE  /\ Len(inbox[k]) \in Nat
             /\ inbox[k] # <<>> => /\ Len(inbox[k]) # 0
                                   /\ Head(inbox[k]) = inbox[k][1]
                                   /\ Head(inbox[k]) \in Answer
                                   /\ Len(Tail(inbox[k])) = Len(inbox[k]) - 1
                                   /\ \A i \in 1 .. Len(Tail(inbox[k])) :
                                        Tail(inbox[k])[i] = inbox[k][i + 1]
  BY <1>1, HeadTailProperties, EmptySeq, LenProperties
<1> QED BY <1>2 DEF Desk, Sock, Socket

\* At the socket of the queries an answer is received: nothing waits at the
\* desk then, or it is what is received.
LEMMA DeskFacts ==
  ASSUME Types, Requests, check = "query_wait", ~late
  PROVE  \/ inbox[Desk] = <<>>
         \/ impl = "python" /\ Desk = Sock("query") /\ Len(inbox[Desk]) = 1
<1>1. ASSUME impl = "java", inbox[Desk] # <<>>
      PROVE  FALSE
  <2>1. Desk = "prepare" /\ 1 \in 1 .. Len(inbox[Desk]) /\ Head(inbox[Desk]) = inbox[Desk][1]
    BY <1>1, SocketFacts DEF Desk, Sock
  <2>2. inbox["prepare"][1].answer = "tokens"
    BY <1>1, <2>1, SocketFacts DEF Requests, AddressOK
  <2>3. Head(inbox[Desk]).answer # "tokens"
    BY <1>1 DEF Requests, WaitingOK
  <2> QED BY <2>1, <2>2, <2>3
<1> QED BY <1>1 DEF Types, Requests, WaitingOK, Desk, Sock

\* A request is sent: no other one is waited for.
LEMMA RequestsAsk ==
  ASSUME Types, Requests, impl' = impl, NEW kind \in {"query", "prepare"}, Asks(kind)
  PROVE  Requests'
<1> USE DEF Types, NetTypes, netState
<1>1. PICK s \in ServerId : Ask(kind, s, Sock(kind))
  BY DEF Asks
<1> DEFINE new == [kind |-> kind, server |-> s, socket |-> Sock(kind), answer |-> "none", late |-> FALSE]
<1>2. inflight' = inflight \cup {new} /\ asked' = s /\ check' = Wait(kind)
  BY <1>1 DEF Asks, Ask
<1>3. \A r \in inflight : r.late
  BY DEF Asks, Requests, CurrentOK, Wait
<1>4. CurrentOK'
  <2>1. ~new.late /\ new.kind = kind /\ new.server = s
    OBVIOUS
  <2> HIDE DEF new
  <2>2. \A r \in inflight' : r = new \/ r.late
    BY <1>2, <1>3
  <2> QED BY <1>2, <2>1, <2>2 DEF CurrentOK, Wait
<1>5. AddressOK'
  <2>1. Sock(kind)' = Sock(kind) /\ Then(kind)' = Then(kind)
    BY DEF Sock, Then
  <2> QED BY <1>2, <2>1 DEF Asks, Requests, AddressOK, Sock, Then
<1>6. WaitingOK'
  <2>1. ~late => inbox[Desk] = <<>>
    BY DEF Asks, Requests, WaitingOK, Waits
  <2> QED BY <2>1 DEF Asks, WaitingOK, Desk, Sock
<1> QED BY <1>4, <1>5, <1>6 DEF Requests

\* A timeout makes late what is on its way.
LEMMA RequestsMiss ==
  ASSUME Types, Requests, impl' = impl, NEW kind \in {"query", "prepare"}, Misses(kind)
  PROVE  Requests'
<1> USE DEF Types, NetTypes, netState
<1>1. NothingComes(Sock(kind), Then(kind)) /\ check = Wait(kind) /\ UNCHANGED <<inbox, late>>
  BY DEF Misses
<1>2. ASSUME NEW x \in inflight'
      PROVE  /\ x.late
             /\ x.socket = Then(x.kind)
             /\ x.answer = "tokens" <=> x.kind = "prepare" /\ x.answer # "none"
  <2>1. CASE x \in inflight /\ x.late
    BY <2>1 DEF Requests, AddressOK
  <2>2. CASE \E r \in inflight : ~r.late /\ x = [r EXCEPT !.late = TRUE, !.socket = Then(kind)]
    <3>1. PICK r \in inflight : ~r.late /\ x = [r EXCEPT !.late = TRUE, !.socket = Then(kind)]
      BY <2>2
    <3>2. r \in Request
      OBVIOUS
    <3>3. x.late /\ x.kind = r.kind /\ x.answer = r.answer /\ x.socket = Then(kind)
      BY <3>1, <3>2 DEF Request
    <3>4. r.kind = kind
      BY <1>1, <3>1, <3>2 DEF Requests, CurrentOK, Wait, Request
    <3> QED BY <3>3, <3>4 DEF Requests, AddressOK
  <2> QED BY <1>1, <2>1, <2>2, Forgotten
<1>3. CurrentOK'
  BY <1>2 DEF CurrentOK
<1>4. AddressOK'
  <2>1. \A k : Then(k)' = Then(k)
    BY DEF Then
  <2> QED BY <1>1, <1>2, <2>1 DEF Requests, AddressOK
<1>5. WaitingOK'
  <2>1. ~late => inbox[Desk] = <<>>
    <3>1. CASE kind = "query"
      <4>1. inbox[Sock("query")] = <<>> /\ check = "query_wait"
        BY <1>1, <3>1 DEF NothingComes, Wait
      <4> QED BY <4>1, DeskFacts, EmptySeq
    <3>2. CASE kind = "prepare"
      BY <1>1, <3>2 DEF NothingComes, Desk
    <3> QED BY <3>1, <3>2
  <2> QED BY <1>1, <2>1 DEF WaitingOK, Desk, Sock
<1> QED BY <1>3, <1>4, <1>5 DEF Requests

\* An answer is received: what else is on its way is late.
LEMMA RequestsReceive ==
  ASSUME Types, Requests, impl' = impl, Hears \/ Obtains
  PROVE  Requests'
<1> USE DEF Types, NetTypes, netState
<1> DEFINE k == IF Hears THEN Sock("query") ELSE Desk
<1>1. Receive(k) /\ k \in Socket /\ (Hears => check = "query_wait") /\ (~Hears => check = "prepare_wait")
  BY SocketFacts DEF Hears, Obtains, Desk
<1>2. (Hears => k = Sock("query")) /\ (~Hears => k = Desk)
  OBVIOUS
<1> HIDE DEF k
<1>3. inbox[k] # <<>> /\ inbox' = [inbox EXCEPT ![k] = Tail(inbox[k])] /\ UNCHANGED late
  BY <1>1 DEF Receive
<1>4. ASSUME NEW x \in inflight'
      PROVE  \E r \in inflight : /\ x.late /\ x.kind = r.kind /\ x.answer = r.answer /\ x.socket = r.socket
  BY <1>1 DEF Receive, Request
<1>5. CurrentOK'
  BY <1>4 DEF CurrentOK
<1>6. impl = "java" \/ \A r \in inflight : r.late
  <2>1. ASSUME impl = "python"
        PROVE  \A r \in inflight : r.late
    <3>1. ~late /\ k = Desk
      BY <1>1, <1>2, <2>1 DEF Requests, AddressOK, Desk, Sock
    <3> QED BY <1>3, <3>1 DEF Requests, WaitingOK
  <2> QED BY <2>1
<1>7. \A x \in inflight' : /\ x.socket = Then(x.kind)
                           /\ x.answer = "tokens" <=> x.kind = "prepare" /\ x.answer # "none"
  BY <1>4, <1>6 DEF Requests, AddressOK, Sock, Then
<1>8. AddressOK'
  <2>1. \A kind : Then(kind)' = Then(kind)
    BY DEF Then
  <2>2. ASSUME impl = "java", NEW l \in Socket, NEW i \in 1 .. Len(inbox'[l])
        PROVE  (inbox'[l])[i].answer = "tokens" <=> l = "prepare"
    <3>1. CASE l = k
      <4>1. inbox'[l] = Tail(inbox[k])
        BY <1>1, <1>3, <3>1
      <4>2. i + 1 \in 1 .. Len(inbox[k]) /\ (inbox'[l])[i] = inbox[k][i + 1]
        <5>1. /\ Len(inbox[k]) \in Nat /\ Len(Tail(inbox[k])) = Len(inbox[k]) - 1
              /\ \A j \in 1 .. Len(Tail(inbox[k])) : Tail(inbox[k])[j] = inbox[k][j + 1]
          BY <1>1, <1>3, SocketFacts
        <5> QED BY <2>2, <4>1, <5>1
      <4> QED BY <1>1, <2>2, <3>1, <4>2 DEF Requests, AddressOK
    <3>2. CASE l # k
      BY <1>3, <2>2, <3>2 DEF Requests, AddressOK
    <3> QED BY <3>1, <3>2
  <2> QED BY <1>3, <1>4, <1>7, <2>1, <2>2 DEF Requests, AddressOK
<1>9. WaitingOK'
  <2>1. ASSUME ~late
        PROVE  inbox'[Desk] = <<>>
    <3>1. CASE k = Desk
      <4>1. Len(inbox[Desk]) = 1 /\ inbox'[Desk] = Tail(inbox[Desk])
        BY <1>1, <1>3, <2>1, <3>1 DEF Requests, WaitingOK
      <4>2. inbox'[Desk] \in Seq(Answer) /\ Len(inbox'[Desk]) = 0
        BY <1>1, <1>3, <3>1, <4>1, HeadTailProperties
      <4> QED BY <4>2, EmptySeq
    <3>2. CASE k # Desk
      <4>1. inbox[Desk] = <<>>
        BY <1>1, <1>2, <2>1, <3>2, DeskFacts
      <4> QED BY <1>3, <3>2, <4>1, SocketFacts
    <3> QED BY <3>1, <3>2
  <2> QED BY <1>3, <2>1 DEF WaitingOK, Desk, Sock
<1> QED BY <1>5, <1>8, <1>9 DEF Requests

\* The network serves a request or delivers an answer.
LEMMA RequestsDeliver ==
  ASSUME Types, Requests, impl' = impl, Delivers
  PROVE  Requests'
<1> USE DEF Types, NetTypes
<1>1. UNCHANGED <<check, asked>>
  BY DEF Delivers
<1>2. PICK r \in inflight : Delivers!1!(r)
  BY DEF Delivers
<1>3. r \in Request
  OBVIOUS
<1>4. CASE r.answer = "none"
  <2> DEFINE new == [r EXCEPT !.answer = IF r.kind = "query" THEN server_phase[r.server] ELSE "tokens"]
  <2>1. UNCHANGED <<inbox, late>> /\ inflight' \in {(inflight \ {r}) \cup {new}, inflight \ {r}}
    BY <1>2, <1>4
  <2>2. /\ new.kind = r.kind /\ new.server = r.server /\ new.socket = r.socket /\ new.late = r.late
        /\ new.answer = "tokens" <=> new.kind = "prepare" /\ new.answer # "none"
    BY <1>3 DEF Request
  <2> HIDE DEF new
  <2>3. CurrentOK'
    BY <1>1, <2>1, <2>2 DEF Requests, CurrentOK, Wait
  <2>4. AddressOK'
    BY <2>1, <2>2 DEF Requests, AddressOK, Sock, Then
  <2>5. WaitingOK'
    BY <1>1, <2>1, <2>2 DEF Requests, WaitingOK, Desk, Sock
  <2> QED BY <2>3, <2>4, <2>5 DEF Requests
<1>5. CASE r.answer # "none"
  <2> DEFINE new == [server |-> r.server, answer |-> r.answer]
  <2>1. inflight' = inflight \ {r}
    BY <1>2, <1>5
  <2>2. CurrentOK'
    BY <1>1, <2>1 DEF Requests, CurrentOK, Wait
  <2>3. CASE r.socket = "closed"
    <3>1. UNCHANGED <<inbox, late>>
      BY <1>2, <1>5, <2>3
    <3> QED BY <1>1, <2>1, <2>2, <3>1 DEF Requests, AddressOK, WaitingOK, Desk, Sock, Then
  <2>4. CASE r.socket # "closed"
    <3>1. /\ inbox' = [inbox EXCEPT ![r.socket] = Append(inbox[r.socket], new)]
          /\ late' = (late \/ (r.late /\ r.kind = "prepare"))
      BY <1>2, <1>5, <2>4
    <3>2. r.socket \in Socket /\ new \in Answer /\ new.server = r.server /\ new.answer = r.answer
      BY <1>3, <2>4 DEF Request, Answer
    <3> HIDE DEF new
    <3>3. /\ inbox[r.socket] \in Seq(Answer) /\ Len(inbox[r.socket]) \in Nat
          /\ Append(inbox[r.socket], new) \in Seq(Answer)
          /\ Len(Append(inbox[r.socket], new)) = Len(inbox[r.socket]) + 1
          /\ \A i \in 1 .. Len(inbox[r.socket]) : Append(inbox[r.socket], new)[i] = inbox[r.socket][i]
          /\ Append(inbox[r.socket], new)[Len(inbox[r.socket]) + 1] = new
      BY <3>2, AppendProperties, LenProperties
    <3>4. inbox'[r.socket] = Append(inbox[r.socket], new)
      BY <3>1, <3>2
    <3>5. impl = "python" => ~r.late /\ r.socket = Desk
      BY <2>4 DEF Requests, AddressOK, Sock, Then, Desk
    <3>6. impl = "java" => r.socket = r.kind
      BY DEF Requests, AddressOK, Sock, Then
    <3>7. AddressOK'
      <4>1. ASSUME impl = "java", NEW k \in Socket, NEW i \in 1 .. Len(inbox'[k])
            PROVE  (inbox'[k])[i].answer = "tokens" <=> k = "prepare"
        <5>1. CASE k # r.socket
          BY <3>1, <4>1, <5>1 DEF Requests, AddressOK
        <5>2. CASE k = r.socket /\ i = Len(inbox[k]) + 1
          <6>1. (inbox'[k])[i] = new
            BY <3>3, <3>4, <5>2
          <6> QED BY <1>3, <1>5, <3>2, <3>6, <4>1, <5>2, <6>1 DEF Requests, AddressOK, Request
        <5>3. CASE k = r.socket /\ i \in 1 .. Len(inbox[k])
          <6>1. (inbox'[k])[i] = inbox[k][i]
            BY <3>3, <3>4, <5>3
          <6> QED BY <4>1, <5>3, <6>1 DEF Requests, AddressOK
        <5>4. k = r.socket => i \in 1 .. Len(inbox[k]) \/ i = Len(inbox[k]) + 1
          BY <3>3, <3>4, <4>1
        <5> QED BY <5>1, <5>2, <5>3, <5>4
      <4>2. impl = "python" => ~late'
        BY <3>1, <3>5 DEF Requests, AddressOK
      <4> QED BY <2>1, <4>1, <4>2 DEF Requests, AddressOK, Sock, Then
    <3>8. WaitingOK'
      <4>1. CASE r.socket # Desk
        <5>1. Desk \in Socket /\ inbox'[Desk] = inbox[Desk]
          BY <3>1, <4>1, SocketFacts
        <5>2. ~late' => ~late
          BY <3>1
        <5> QED BY <1>1, <2>1, <5>1, <5>2 DEF Requests, WaitingOK, Desk, Sock
      <4>2. CASE r.socket = Desk /\ ~late'
        <5>1. ~late /\ ~r.late
          <6>1. impl = "java" => r.kind = "prepare"
            BY <3>6, <4>2 DEF Desk, Sock
          <6> QED BY <1>3, <3>1, <3>5, <4>2, <6>1 DEF Request
        <5>2. check = Wait(r.kind) /\ r.server = asked /\ \A t \in inflight \ {r} : t.late
          BY <5>1 DEF Requests, CurrentOK
        <5>3. inbox[Desk] = <<>>
          BY <5>1 DEF Requests, WaitingOK
        <5>4. Len(inbox'[Desk]) = 1 /\ inbox'[Desk] \in Seq(Answer) /\ (inbox'[Desk])[1] = new
          <6>1. Len(inbox[Desk]) = 0
            BY <5>3, EmptySeq
          <6>2. Len(inbox[r.socket]) = 0
            BY <4>2, <6>1
          <6>3. Len(Append(inbox[r.socket], new)) = 1 /\ Append(inbox[r.socket], new)[1] = new
            BY <3>3, <6>2
          <6> QED BY <3>3, <3>4, <4>2, <6>3
        <5>5. Head(inbox'[Desk]) = new
          BY <5>4
        <5>6. check = "prepare_wait" <=> new.answer = "tokens"
          BY <1>3, <1>5, <3>2, <5>2 DEF Requests, AddressOK, Request, Wait
        <5>7. check \in Waits
          BY <1>3, <5>2 DEF Request, Wait, Waits
        <5> QED BY <1>1, <2>1, <3>2, <5>2, <5>4, <5>5, <5>6, <5>7 DEF WaitingOK, Desk, Sock
      <4> QED BY <4>1, <4>2 DEF WaitingOK
    <3> QED BY <2>2, <3>7, <3>8 DEF Requests
  <2> QED BY <2>3, <2>4
<1> QED BY <1>4, <1>5

\* Every step keeps what holds of requests and answers.
LEMMA RequestsKept ==
  ASSUME Types, Requests, StepKind, impl' = impl
  PROVE  Requests'
<1>1. ASSUME Goes \/ Pops \/ Sends
      PROVE  Requests'
  <2>1. UNCHANGED netState /\ check \notin Waits /\ check' \notin Waits
    BY <1>1 DEF Goes, Pops, Sends, Waits
  <2> QED BY <2>1 DEF netState, Requests, CurrentOK, AddressOK, WaitingOK, Waits, Wait, Desk, Sock, Then,
      Types, NetTypes
<1>2. ASSUME Arrives \/ Stirs
      PROVE  Requests'
  <2>1. UNCHANGED <<netState, check, asked>>
    BY <1>2 DEF Arrives, Stirs
  <2> QED BY <2>1 DEF netState, Requests, CurrentOK, AddressOK, WaitingOK, Wait, Desk, Sock, Then
<1> QED BY <1>1, <1>2, RequestsAsk, RequestsMiss, RequestsReceive, RequestsDeliver DEF StepKind

-----------------------------------------------------------------------------
(* What is handed out fits. *)

FitOK ==
  ~late =>
    /\ check \in HandsOut => match.server = match.of
    /\ \A i \in 1 .. Len(matches) : matches[i].server = matches[i].of

\* What sending a Match does to the matches sent.
LEMMA SentFacts ==
  ASSUME Types, Sends
  PROVE  \/ UNCHANGED <<matches, seat>> /\ check' = "dead"
         \/ /\ Len(matches) \in Nat /\ Len(matches') = Len(matches) + 1
            /\ \A i \in 1 .. Len(matches) : matches'[i] = matches[i]
            /\ matches'[Len(matches) + 1] = [server |-> match.server, of |-> match.of, seat |-> seat,
                                             to |-> in_hand]
            /\ IF seat = 1 THEN seat' = 2 /\ check' = "pop" ELSE seat' = 1 /\ check' = "sleep"
<1>1. [server |-> match.server, of |-> match.of, seat |-> seat, to |-> in_hand] \in Sent
  BY DEF Sends, Sent, Types, HandTypes, HandsOut
<1>2. matches \in Seq(Sent)
  BY DEF Types, HandTypes
<1> QED BY <1>1, <1>2, AppendProperties, LenProperties DEF Sends

\* Every step keeps that what is handed out fits.
LEMMA FitKept ==
  ASSUME Types, Requests, FitOK, StepKind, impl' = impl
  PROVE  FitOK'
<1> USE DEF netState, handState
<1>1. ASSUME NEW kind \in {"query", "prepare"}, Asks(kind) \/ Misses(kind)
      PROVE  FitOK'
  BY <1>1 DEF Asks, Misses, FitOK, Wait, HandsOut
<1>2. ASSUME Hears \/ Goes
      PROVE  FitOK'
  BY <1>2 DEF Hears, Goes, Receive, FitOK, HandsOut
<1>3. ASSUME Obtains
      PROVE  FitOK'
  <2>1. inbox[Desk] # <<>> /\ match' = [server |-> asked, of |-> Head(inbox[Desk]).server]
        /\ UNCHANGED <<matches, late>>
    BY <1>3 DEF Obtains, Receive, Desk
  <2>2. ~late => match'.server = match'.of
    BY <2>1 DEF Requests, WaitingOK
  <2> QED BY <2>1, <2>2 DEF FitOK
<1>4. ASSUME Pops
      PROVE  FitOK'
  BY <1>4 DEF Pops, FitOK, HandsOut
<1>5. ASSUME Sends
      PROVE  FitOK'
  <2>1. UNCHANGED <<match, late>> /\ check = "send"
    BY <1>5 DEF Sends
  <2>2. ASSUME ~late, Len(matches) \in Nat, Len(matches') = Len(matches) + 1,
               \A i \in 1 .. Len(matches) : matches'[i] = matches[i],
               matches'[Len(matches) + 1] = [server |-> match.server, of |-> match.of, seat |-> seat,
                                             to |-> in_hand],
               NEW i \in 1 .. Len(matches')
        PROVE  (matches'[i]).server = (matches'[i]).of
    <3>1. i \in 1 .. Len(matches) \/ i = Len(matches) + 1
      BY <2>2
    <3> QED BY <2>1, <2>2, <3>1 DEF FitOK, HandsOut
  <2> QED BY <1>5, <2>1, <2>2, SentFacts DEF FitOK, HandsOut
<1>6. ASSUME Delivers \/ Arrives \/ Stirs
      PROVE  FitOK'
  BY <1>6 DEF Delivers, Arrives, Stirs, FitOK, HandsOut
<1> QED BY <1>1, <1>2, <1>3, <1>4, <1>5, <1>6 DEF StepKind

-----------------------------------------------------------------------------
(* The tokens of a server are in one place. *)

Flies(r) == r \in inflight /\ r.answer = "tokens"
Waiting(k, i) == k \in Socket /\ i \in 1 .. Len(inbox[k]) /\ inbox[k][i].answer = "tokens"

\* A server whose tokens are anywhere has left WAITING, for good.
LeftWaiting ==
  /\ \A r \in inflight : Flies(r) => server_phase[r.server] # "WAITING"
  /\ \A k \in Socket : \A i \in 1 .. Len(inbox[k]) :
       Waiting(k, i) => server_phase[inbox[k][i].server] # "WAITING"
  /\ check \in HandsOut => server_phase[match.of] # "WAITING"
  /\ \A i \in 1 .. Len(matches) : server_phase[matches[i].of] # "WAITING"

\* Tokens on their way are nowhere else.
FlyingOnce ==
  \A r \in inflight : Flies(r) =>
    /\ \A t \in inflight : Flies(t) /\ t.server = r.server => t = r
    /\ \A k \in Socket : \A i \in 1 .. Len(inbox[k]) : Waiting(k, i) => inbox[k][i].server # r.server
    /\ check \in HandsOut => match.of # r.server
    /\ \A i \in 1 .. Len(matches) : matches[i].of # r.server

\* Tokens that wait to be received are nowhere else.
WaitingOnce ==
  \A k \in Socket : \A i \in 1 .. Len(inbox[k]) : Waiting(k, i) =>
    /\ \A l \in Socket : \A j \in 1 .. Len(inbox[l]) :
         Waiting(l, j) /\ inbox[l][j].server = inbox[k][i].server => k = l /\ i = j
    /\ check \in HandsOut => match.of # inbox[k][i].server
    /\ \A j \in 1 .. Len(matches) : matches[j].of # inbox[k][i].server

\* Of the tokens in hand only the seats before the next one were sent.
HandedOnce ==
  /\ check \in HandsOut => \A i \in 1 .. Len(matches) : matches[i].of = match.of => matches[i].seat < seat
  /\ NoSeatGivenTwice

Tokens == LeftWaiting /\ FlyingOnce /\ WaitingOnce /\ HandedOnce

\* Tokens that were on their way or waited, and are or do so still or again.
LEMMA TokensMove ==
  ASSUME Types, Tokens, check \notin HandsOut, check' \notin HandsOut,
         UNCHANGED <<server_phase, inbox, matches, seat>>,
         \A x \in inflight' : Flies(x)' =>
           \E r \in inflight : Flies(r) /\ r.server = x.server
             /\ \A y \in inflight' : Flies(y)' /\ y.server = x.server => y = x
  PROVE  Tokens'
<1> USE DEF Tokens, Waiting
<1>1. LeftWaiting'
  BY DEF LeftWaiting
<1>2. FlyingOnce'
  BY DEF FlyingOnce
<1>3. WaitingOnce' /\ HandedOnce'
  BY DEF WaitingOnce, HandedOnce, NoSeatGivenTwice
<1> QED BY <1>1, <1>2, <1>3

\* A request or a timeout keeps tokens in one place.
LEMMA TokensAskOrMiss ==
  ASSUME Types, Tokens, impl' = impl, NEW kind \in {"query", "prepare"}, Asks(kind) \/ Misses(kind)
  PROVE  Tokens'
<1> USE DEF Types, NetTypes
<1>1. /\ check \notin HandsOut /\ check' \notin HandsOut
      /\ UNCHANGED <<server_phase, inbox, matches, seat>>
  BY DEF Asks, Misses, handState, Wait, HandsOut
<1>2. CASE Asks(kind)
  <2>1. PICK s \in ServerId : Ask(kind, s, Sock(kind))
    BY <1>2 DEF Asks
  <2>2. \A x \in inflight' : Flies(x)' => x \in inflight /\ Flies(x)
    BY <2>1 DEF Ask, Flies
  <2> QED BY <1>1, <2>2, TokensMove DEF Tokens, FlyingOnce
<1>3. CASE Misses(kind)
  <2>1. NothingComes(Sock(kind), Then(kind))
    BY <1>3 DEF Misses
  <2>2. ASSUME NEW x \in inflight'
        PROVE  \E r \in inflight : /\ r.server = x.server /\ r.answer = x.answer
                                   /\ x = IF r.late THEN r ELSE [r EXCEPT !.late = TRUE, !.socket = Then(kind)]
    <3>1. CASE x \in inflight /\ x.late
      BY <3>1
    <3>2. ASSUME NEW r \in inflight, ~r.late, x = [r EXCEPT !.late = TRUE, !.socket = Then(kind)]
          PROVE  r.server = x.server /\ r.answer = x.answer
      BY <3>2 DEF Request
    <3>3. \/ x \in inflight /\ x.late
          \/ \E r \in inflight : ~r.late /\ x = [r EXCEPT !.late = TRUE, !.socket = Then(kind)]
      BY <2>1, Forgotten
    <3> QED BY <3>1, <3>2, <3>3
  <2>3. ASSUME NEW x \in inflight', Flies(x)'
        PROVE  \E r \in inflight : Flies(r) /\ r.server = x.server
                 /\ \A y \in inflight' : Flies(y)' /\ y.server = x.server => y = x
    <3>1. PICK r \in inflight : /\ r.server = x.server /\ r.answer = x.answer
                                /\ x = IF r.late THEN r ELSE [r EXCEPT !.late = TRUE, !.socket = Then(kind)]
      BY <2>2
    <3>2. Flies(r)
      BY <2>3, <3>1 DEF Flies
    <3>3. ASSUME NEW y \in inflight', Flies(y)', y.server = x.server
          PROVE  y = x
      <4>1. PICK t \in inflight :
              /\ t.server = y.server /\ t.answer = y.answer
              /\ y = IF t.late THEN t ELSE [t EXCEPT !.late = TRUE, !.socket = Then(kind)]
        BY <2>2
      <4>2. Flies(t) /\ t.server = r.server
        BY <3>1, <3>3, <4>1 DEF Flies
      <4>3. t = r
        BY <3>2, <4>2 DEF Tokens, FlyingOnce
      <4> QED BY <3>1, <4>1, <4>3
    <3> QED BY <3>1, <3>2, <3>3
  <2> QED BY <1>1, <2>3, TokensMove
<1> QED BY <1>2, <1>3

\* Tokens are received for a Prepare, and only then.
LEMMA ObtainsTokens ==
  ASSUME Types, Requests, Obtains
  PROVE  Head(inbox[Desk]).answer = "tokens"
<1>1. inbox[Desk] # <<>> /\ check = "prepare_wait"
  BY DEF Obtains, Receive, Desk
<1>2. CASE impl = "java"
  <2>1. Desk = "prepare" /\ 1 \in 1 .. Len(inbox[Desk]) /\ Head(inbox[Desk]) = inbox[Desk][1]
    BY <1>1, <1>2, SocketFacts DEF Desk, Sock
  <2>2. inbox["prepare"][1].answer = "tokens"
    BY <1>2, <2>1, SocketFacts DEF Requests, AddressOK
  <2> QED BY <2>1, <2>2
<1>3. CASE impl = "python"
  BY <1>1, <1>3 DEF Requests, AddressOK, WaitingOK
<1> QED BY <1>2, <1>3 DEF Types

\* What is received is taken from where it waited; it may go in hand.
LEMMA TokensReceive ==
  ASSUME Types, Requests, Tokens, impl' = impl, Hears \/ Obtains
  PROVE  Tokens'
<1> USE DEF Types, NetTypes
<1> DEFINE k == IF Hears THEN Sock("query") ELSE Desk
<1>1. Receive(k) /\ k \in Socket
  BY SocketFacts DEF Hears, Obtains, Desk
<1>2. /\ check \notin HandsOut /\ UNCHANGED <<server_phase, matches, seat>>
      /\ seat = 1
  BY DEF Hears, Obtains, Receive, handState, HandsOut, HandTypes
<1>3. check' \in HandsOut => Obtains
  BY DEF Hears, HandsOut
<1>4. Obtains => k = Desk /\ match'.of = Head(inbox[k]).server /\ Head(inbox[k]).answer = "tokens"
  <2>1. Obtains => ~ Hears
    BY DEF Obtains, Hears
  <2> QED BY <2>1, ObtainsTokens DEF Obtains, Desk
<1> HIDE DEF k
<1>5. inbox[k] # <<>> /\ inbox' = [inbox EXCEPT ![k] = Tail(inbox[k])]
  BY <1>1 DEF Receive
<1>6. /\ Len(inbox[k]) \in Nat /\ Len(inbox[k]) # 0 /\ Head(inbox[k]) = inbox[k][1]
      /\ Len(Tail(inbox[k])) = Len(inbox[k]) - 1
      /\ \A i \in 1 .. Len(Tail(inbox[k])) : Tail(inbox[k])[i] = inbox[k][i + 1]
  BY <1>1, <1>5, SocketFacts
<1> DEFINE Old(l, i) == IF l = k THEN i + 1 ELSE i
<1>7. ASSUME NEW l \in Socket, NEW i \in 1 .. Len(inbox'[l])
      PROVE  /\ Old(l, i) \in 1 .. Len(inbox[l]) /\ (inbox'[l])[i] = inbox[l][Old(l, i)]
             /\ l = k => Old(l, i) # 1
  <2>1. CASE l = k
    <3>1. inbox'[l] = Tail(inbox[k])
      BY <1>1, <1>5, <2>1
    <3> QED BY <1>6, <1>7, <2>1, <3>1
  <2>2. CASE l # k
    BY <1>5, <1>7, <2>2
  <2> QED BY <2>1, <2>2
<1>8. ASSUME NEW l \in Socket, NEW i \in 1 .. Len(inbox'[l]), Waiting(l, i)'
      PROVE  Waiting(l, Old(l, i))
  BY <1>7, <1>8 DEF Waiting
<1>9. Obtains => Waiting(k, 1)
  BY <1>1, <1>4, <1>6 DEF Waiting
<1>10. ASSUME NEW x \in inflight'
       PROVE  \E r \in inflight : x = [r EXCEPT !.late = TRUE] /\ x.server = r.server /\ x.answer = r.answer
  BY <1>1 DEF Receive, Request
<1>11. ASSUME NEW x \in inflight', Flies(x)'
       PROVE  \E r \in inflight : /\ Flies(r) /\ x.server = r.server
                                  /\ \A y \in inflight' : Flies(y)' /\ y.server = x.server => y = x
  <2>1. PICK r \in inflight : x = [r EXCEPT !.late = TRUE] /\ x.server = r.server /\ x.answer = r.answer
    BY <1>10
  <2>2. Flies(r)
    BY <1>11, <2>1 DEF Flies
  <2>3. ASSUME NEW y \in inflight', Flies(y)', y.server = x.server
        PROVE  y = x
    <3>1. PICK t \in inflight : y = [t EXCEPT !.late = TRUE] /\ y.server = t.server /\ y.answer = t.answer
      BY <1>10
    <3>2. Flies(t) /\ t.server = r.server
      BY <2>1, <2>3, <3>1 DEF Flies
    <3>3. t = r
      BY <2>2, <3>2 DEF Tokens, FlyingOnce
    <3> QED BY <2>1, <3>1, <3>3
  <2> QED BY <2>1, <2>2, <2>3
<1> HIDE DEF Old
<1>12. LeftWaiting'
  <2>1. \A x \in inflight' : Flies(x)' => server_phase'[x.server] # "WAITING"
    BY <1>2, <1>11 DEF Tokens, LeftWaiting
  <2>2. ASSUME NEW l \in Socket, NEW i \in 1 .. Len(inbox'[l]), Waiting(l, i)'
        PROVE  server_phase'[(inbox'[l])[i].server] # "WAITING"
    BY <1>2, <1>7, <1>8, <2>2 DEF Tokens, LeftWaiting
  <2>3. Obtains => server_phase'[match'.of] # "WAITING"
    BY <1>1, <1>2, <1>4, <1>6, <1>9 DEF Tokens, LeftWaiting
  <2>4. \A i \in 1 .. Len(matches') : server_phase'[(matches'[i]).of] # "WAITING"
    BY <1>2 DEF Tokens, LeftWaiting
  <2> QED BY <1>3, <2>1, <2>2, <2>3, <2>4 DEF LeftWaiting
<1>13. FlyingOnce'
  <2>1. ASSUME NEW x \in inflight', Flies(x)'
        PROVE  /\ \A l \in Socket : \A i \in 1 .. Len(inbox'[l]) :
                    Waiting(l, i)' => (inbox'[l])[i].server # x.server
               /\ check' \in HandsOut => match'.of # x.server
               /\ \A i \in 1 .. Len(matches') : (matches'[i]).of # x.server
    <3>1. PICK r \in inflight : Flies(r) /\ x.server = r.server
      BY <1>11, <2>1
    <3>2. ASSUME NEW l \in Socket, NEW i \in 1 .. Len(inbox'[l]), Waiting(l, i)'
          PROVE  (inbox'[l])[i].server # x.server
      BY <1>7, <1>8, <3>1, <3>2 DEF Tokens, FlyingOnce
    <3>3. check' \in HandsOut => match'.of # x.server
      BY <1>1, <1>3, <1>4, <1>6, <1>9, <3>1 DEF Tokens, FlyingOnce
    <3>4. \A i \in 1 .. Len(matches') : (matches'[i]).of # x.server
      BY <1>2, <3>1 DEF Tokens, FlyingOnce
    <3> QED BY <3>2, <3>3, <3>4
  <2> QED BY <1>11, <2>1 DEF FlyingOnce
<1>14. WaitingOnce'
  <2>1. ASSUME NEW l \in Socket, NEW i \in 1 .. Len(inbox'[l]), Waiting(l, i)'
        PROVE  /\ \A m \in Socket : \A j \in 1 .. Len(inbox'[m]) :
                    Waiting(m, j)' /\ (inbox'[m])[j].server = (inbox'[l])[i].server => l = m /\ i = j
               /\ check' \in HandsOut => match'.of # (inbox'[l])[i].server
               /\ \A j \in 1 .. Len(matches') : (matches'[j]).of # (inbox'[l])[i].server
    <3>1. /\ Waiting(l, Old(l, i)) /\ Old(l, i) \in 1 .. Len(inbox[l])
          /\ (inbox'[l])[i] = inbox[l][Old(l, i)]
          /\ l = k => Old(l, i) # 1
      BY <1>7, <1>8, <2>1
    <3>2. ASSUME NEW m \in Socket, NEW j \in 1 .. Len(inbox'[m]), Waiting(m, j)',
                 (inbox'[m])[j].server = (inbox'[l])[i].server
          PROVE  l = m /\ i = j
      <4>1. /\ Waiting(m, Old(m, j)) /\ Old(m, j) \in 1 .. Len(inbox[m])
            /\ (inbox'[m])[j] = inbox[m][Old(m, j)]
        BY <1>7, <1>8, <3>2
      <4>2. l = m /\ Old(l, i) = Old(m, j)
        BY <3>1, <3>2, <4>1 DEF Tokens, WaitingOnce
      <4>3. i \in Int /\ j \in Int
        OBVIOUS
      <4> QED BY <4>2, <4>3 DEF Old
    <3>3. check' \in HandsOut => match'.of # (inbox'[l])[i].server
      BY <1>1, <1>3, <1>4, <1>6, <1>9, <3>1 DEF Tokens, WaitingOnce
    <3>4. \A j \in 1 .. Len(matches') : (matches'[j]).of # (inbox'[l])[i].server
      BY <1>2, <3>1 DEF Tokens, WaitingOnce
    <3> QED BY <3>2, <3>3, <3>4
  <2> QED BY <2>1 DEF WaitingOnce
<1>15. HandedOnce'
  <2>1. Obtains => \A j \in 1 .. Len(matches) : matches[j].of # match'.of
    BY <1>1, <1>4, <1>6, <1>9 DEF Tokens, WaitingOnce
  <2> QED BY <1>2, <1>3, <2>1 DEF Tokens, HandedOnce, NoSeatGivenTwice
<1> QED BY <1>12, <1>13, <1>14, <1>15 DEF Tokens

\* A Match is sent with the next seat, which nobody had.
LEMMA TokensSend ==
  ASSUME Types, Tokens, Sends
  PROVE  Tokens'
<1>1. UNCHANGED <<server_phase, inflight, inbox, match>> /\ check = "send"
  BY DEF Sends, netState
<1>2. CASE UNCHANGED <<matches, seat>> /\ check' = "dead"
  BY <1>1, <1>2 DEF Tokens, LeftWaiting, FlyingOnce, WaitingOnce, HandedOnce, NoSeatGivenTwice, Flies,
     Waiting, HandsOut
<1>3. CASE /\ Len(matches) \in Nat /\ Len(matches') = Len(matches) + 1
           /\ \A i \in 1 .. Len(matches) : matches'[i] = matches[i]
           /\ matches'[Len(matches) + 1] = [server |-> match.server, of |-> match.of, seat |-> seat,
                                            to |-> in_hand]
           /\ IF seat = 1 THEN seat' = 2 /\ check' = "pop" ELSE seat' = 1 /\ check' = "sleep"
  <2>1. check \in HandsOut
    BY <1>1 DEF HandsOut
  <2>2. \A i \in 1 .. Len(matches') :
          \/ i \in 1 .. Len(matches) /\ matches'[i] = matches[i]
          \/ i = Len(matches) + 1 /\ (matches'[i]).of = match.of /\ (matches'[i]).seat = seat
    BY <1>3
  <2>3. seat \in {1, 2} /\ \A i \in 1 .. Len(matches) : matches[i].seat \in {1, 2}
    <3>1. \A i \in 1 .. Len(matches) : matches[i] \in Sent
      BY ElementOfSeq DEF Types, HandTypes
    <3> QED BY <3>1 DEF Types, HandTypes, Sent
  <2>4. LeftWaiting' /\ FlyingOnce' /\ WaitingOnce'
    BY <1>1, <2>1, <2>2 DEF Tokens, LeftWaiting, FlyingOnce, WaitingOnce, Flies, Waiting
  <2>5. check' \in HandsOut => seat = 1 /\ seat' = 2
    BY <1>3 DEF HandsOut
  <2>6. check' \in HandsOut =>
          \A i \in 1 .. Len(matches') : (matches'[i]).of = match'.of => (matches'[i]).seat < seat'
    BY <1>1, <2>1, <2>2, <2>3, <2>5 DEF Tokens, HandedOnce
  <2>7. NoSeatGivenTwice'
    <3>1. \A i \in 1 .. Len(matches) : matches[i].of = match.of => matches[i].seat # seat
      BY <2>1, <2>3 DEF Tokens, HandedOnce
    <3> QED BY <2>2, <3>1 DEF Tokens, HandedOnce, NoSeatGivenTwice
  <2> QED BY <2>4, <2>6, <2>7 DEF Tokens, HandedOnce
<1> QED BY <1>2, <1>3, SentFacts

\* A server that answers a Prepare leaves WAITING, so it does so once.
LEMMA TokensServe ==
  ASSUME Types, Requests, Tokens, NEW r \in inflight, Delivers!1!(r), r.answer = "none",
         UNCHANGED <<check, handState>>
  PROVE  Tokens'
<1> USE DEF Types, NetTypes, handState
<1> DEFINE new == [r EXCEPT !.answer = IF r.kind = "query" THEN server_phase[r.server] ELSE "tokens"]
<1>1. r \in Request
  OBVIOUS
<1>2. /\ UNCHANGED <<inbox, matches, seat, match, check>>
      /\ server_phase' = IF r.kind = "query" THEN server_phase
                         ELSE [server_phase EXCEPT ![r.server] = "PREPARING"]
      /\ IF r.kind = "query" \/ server_phase[r.server] = "WAITING"
         THEN inflight' = (inflight \ {r}) \cup {new}
         ELSE inflight' = inflight \ {r}
  OBVIOUS
<1>3. /\ new.server = r.server /\ r.server \in ServerId
      /\ new.answer = "tokens" => r.kind # "query"
  BY <1>1 DEF Request
<1> HIDE DEF new
<1>4. \A s \in ServerId : server_phase[s] # "WAITING" => server_phase'[s] # "WAITING"
  BY <1>2, <1>3
<1>5. ASSUME NEW x \in inflight', Flies(x)'
      PROVE  \/ x \in inflight /\ Flies(x)
             \/ x = new /\ x.server = r.server /\ server_phase[r.server] = "WAITING"
                /\ server_phase'[r.server] # "WAITING"
  BY <1>2, <1>3, <1>5 DEF Flies
<1>6. (\A x \in inflight : x.server \in ServerId)
      /\ (\A k \in Socket : \A i \in 1 .. Len(inbox[k]) : inbox[k][i].server \in ServerId)
      /\ (\A i \in 1 .. Len(matches) : matches[i].of \in ServerId)
      /\ (check \in HandsOut => match.of \in ServerId)
  <2>1. \A k \in Socket : \A i \in 1 .. Len(inbox[k]) : inbox[k][i] \in Answer
    BY ElementOfSeq
  <2>2. \A i \in 1 .. Len(matches) : matches[i] \in Sent
    BY ElementOfSeq DEF HandTypes
  <2> QED BY <2>1, <2>2 DEF Request, Answer, Sent, HandTypes
<1>7. LeftWaiting'
  BY <1>2, <1>4, <1>5, <1>6 DEF Tokens, LeftWaiting, Waiting
<1>8. FlyingOnce'
  <2>1. ASSUME NEW x \in inflight', Flies(x)'
        PROVE  /\ \A t \in inflight' : Flies(t)' /\ t.server = x.server => t = x
               /\ \A k \in Socket : \A i \in 1 .. Len(inbox[k]) : Waiting(k, i) => inbox[k][i].server # x.server
               /\ check \in HandsOut => match.of # x.server
               /\ \A i \in 1 .. Len(matches) : matches[i].of # x.server
    <3>1. CASE x \in inflight /\ Flies(x)
      <4>1. ASSUME NEW t \in inflight', Flies(t)', t.server = x.server
            PROVE  t = x
        <5>1. ~(t = new /\ t.server = r.server /\ server_phase[r.server] = "WAITING")
          BY <3>1, <4>1 DEF Tokens, LeftWaiting
        <5>2. t \in inflight /\ Flies(t)
          BY <1>5, <4>1, <5>1
        <5> QED BY <3>1, <4>1, <5>2 DEF Tokens, FlyingOnce
      <4> QED BY <3>1, <4>1 DEF Tokens, FlyingOnce
    <3>2. CASE x = new /\ x.server = r.server /\ server_phase[r.server] = "WAITING"
      <4>1. ASSUME NEW t \in inflight', Flies(t)', t.server = x.server
            PROVE  t = x
        <5>1. ~(t \in inflight /\ Flies(t))
          BY <3>2, <4>1 DEF Tokens, LeftWaiting
        <5> QED BY <1>5, <3>2, <4>1, <5>1
      <4> QED BY <3>2, <4>1 DEF Tokens, LeftWaiting
    <3> QED BY <1>5, <2>1, <3>1, <3>2
  <2> QED BY <1>2, <2>1 DEF FlyingOnce, Waiting
<1>9. WaitingOnce' /\ HandedOnce'
  BY <1>2 DEF Tokens, WaitingOnce, HandedOnce, NoSeatGivenTwice, Waiting
<1> QED BY <1>7, <1>8, <1>9 DEF Tokens

\* Tokens that arrive wait where they arrived, or are lost with the socket.
LEMMA TokensArrive ==
  ASSUME Types, Requests, Tokens, NEW r \in inflight, Delivers!1!(r), r.answer # "none",
         UNCHANGED <<check, handState>>
  PROVE  Tokens'
<1> USE DEF Types, NetTypes, handState
<1> DEFINE new == [server |-> r.server, answer |-> r.answer]
<1>1. r \in Request
  OBVIOUS
<1>2. UNCHANGED <<server_phase, matches, seat, match, check>> /\ inflight' = inflight \ {r}
  OBVIOUS
<1>3. CASE r.socket = "closed"
  <2>1. UNCHANGED inbox
    BY <1>3
  <2> QED BY <1>2, <2>1 DEF Tokens, LeftWaiting, FlyingOnce, WaitingOnce, HandedOnce, NoSeatGivenTwice,
      Flies, Waiting
<1>4. CASE r.socket # "closed"
  <2>1. /\ r.socket \in Socket /\ new \in Answer /\ new.server = r.server /\ new.answer = r.answer
        /\ inbox' = [inbox EXCEPT ![r.socket] = Append(inbox[r.socket], new)]
    BY <1>1, <1>4 DEF Request, Answer
  <2> HIDE DEF new
  <2>2. /\ inbox[r.socket] \in Seq(Answer) /\ Len(inbox[r.socket]) \in Nat
        /\ Len(Append(inbox[r.socket], new)) = Len(inbox[r.socket]) + 1
        /\ \A i \in 1 .. Len(inbox[r.socket]) : Append(inbox[r.socket], new)[i] = inbox[r.socket][i]
        /\ Append(inbox[r.socket], new)[Len(inbox[r.socket]) + 1] = new
    BY <2>1, AppendProperties, LenProperties
  <2>3. inbox'[r.socket] = Append(inbox[r.socket], new)
    BY <2>1
  <2> DEFINE IsNew(k, i) == k = r.socket /\ i = Len(inbox[r.socket]) + 1
  <2>4. ASSUME NEW k \in Socket, NEW i \in 1 .. Len(inbox'[k])
        PROVE  \/ ~ IsNew(k, i) /\ i \in 1 .. Len(inbox[k]) /\ (inbox'[k])[i] = inbox[k][i]
               \/ IsNew(k, i) /\ (inbox'[k])[i] = new
    <3>1. CASE k # r.socket
      BY <2>1, <2>4, <3>1
    <3>2. CASE k = r.socket
      <4>1. i \in 1 .. Len(inbox[r.socket]) \/ i = Len(inbox[r.socket]) + 1
        BY <2>2, <2>3, <2>4, <3>2
      <4> QED BY <2>2, <2>3, <3>2, <4>1
    <3> QED BY <3>1, <3>2
  <2> HIDE DEF IsNew
  <2>5. ASSUME NEW k \in Socket, NEW i \in 1 .. Len(inbox'[k]), Waiting(k, i)'
        PROVE  \/ ~ IsNew(k, i) /\ i \in 1 .. Len(inbox[k]) /\ Waiting(k, i) /\ (inbox'[k])[i] = inbox[k][i]
               \/ IsNew(k, i) /\ Flies(r) /\ (inbox'[k])[i].server = r.server
    BY <2>1, <2>4, <2>5 DEF Waiting, Flies
  <2>6. LeftWaiting'
    <3>1. ASSUME NEW k \in Socket, NEW i \in 1 .. Len(inbox'[k]), Waiting(k, i)'
          PROVE  server_phase[(inbox'[k])[i].server] # "WAITING"
      BY <2>5, <3>1 DEF Tokens, LeftWaiting
    <3> QED BY <1>2, <3>1 DEF Tokens, LeftWaiting, Flies
  <2>7. FlyingOnce'
    <3>1. ASSUME NEW x \in inflight', Flies(x)'
          PROVE  \A k \in Socket : \A i \in 1 .. Len(inbox'[k]) :
                   Waiting(k, i)' => (inbox'[k])[i].server # x.server
      <4>1. x \in inflight /\ x # r /\ Flies(x)
        BY <1>2, <3>1 DEF Flies
      <4> QED BY <2>5, <4>1 DEF Tokens, FlyingOnce
    <3> QED BY <1>2, <3>1 DEF Tokens, FlyingOnce, Flies
  <2>8. WaitingOnce'
    <3>1. ASSUME NEW k \in Socket, NEW i \in 1 .. Len(inbox'[k]), Waiting(k, i)'
          PROVE  /\ \A l \in Socket : \A j \in 1 .. Len(inbox'[l]) :
                      Waiting(l, j)' /\ (inbox'[l])[j].server = (inbox'[k])[i].server => k = l /\ i = j
                 /\ check \in HandsOut => match.of # (inbox'[k])[i].server
                 /\ \A j \in 1 .. Len(matches) : matches[j].of # (inbox'[k])[i].server
      <4>1. ASSUME NEW l \in Socket, NEW j \in 1 .. Len(inbox'[l]), Waiting(l, j)',
                   (inbox'[l])[j].server = (inbox'[k])[i].server
            PROVE  k = l /\ i = j
        <5>1. CASE IsNew(k, i) /\ IsNew(l, j)
          BY <5>1 DEF IsNew
        <5>2. CASE ~ IsNew(k, i) /\ ~ IsNew(l, j)
          BY <2>5, <3>1, <4>1, <5>2 DEF Tokens, WaitingOnce
        <5>3. CASE IsNew(k, i) /\ ~ IsNew(l, j)
          BY <2>5, <3>1, <4>1, <5>3 DEF Tokens, FlyingOnce
        <5>4. CASE ~ IsNew(k, i) /\ IsNew(l, j)
          BY <2>5, <3>1, <4>1, <5>4 DEF Tokens, FlyingOnce
        <5> QED BY <5>1, <5>2, <5>3, <5>4
      <4>2. /\ check \in HandsOut => match.of # (inbox'[k])[i].server
            /\ \A j \in 1 .. Len(matches) : matches[j].of # (inbox'[k])[i].server
        BY <2>5, <3>1 DEF Tokens, WaitingOnce, FlyingOnce
      <4> QED BY <4>1, <4>2
    <3> QED BY <1>2, <3>1 DEF WaitingOnce
  <2>9. HandedOnce'
    BY <1>2 DEF Tokens, HandedOnce, NoSeatGivenTwice
  <2> QED BY <2>6, <2>7, <2>8, <2>9 DEF Tokens
<1> QED BY <1>3, <1>4

\* Every step keeps the tokens of a server in one place.
LEMMA TokensKept ==
  ASSUME Types, Requests, Tokens, StepKind, impl' = impl
  PROVE  Tokens'
<1>1. ASSUME Delivers
      PROVE  Tokens'
  <2>1. UNCHANGED <<check, handState>>
    BY <1>1 DEF Delivers
  <2>2. PICK r \in inflight : Delivers!1!(r)
    BY <1>1 DEF Delivers
  <2> QED BY <2>1, <2>2, TokensServe, TokensArrive
<1>2. ASSUME Goes \/ Pops \/ Arrives \/ Stirs
      PROVE  Tokens'
  <2>1. /\ UNCHANGED <<netState, match, seat, matches>>
        /\ check' \in HandsOut => check \in HandsOut
    BY <1>2 DEF Goes, Pops, Arrives, Stirs, handState, HandsOut
  <2> QED BY <2>1 DEF netState, Tokens, LeftWaiting, FlyingOnce, WaitingOnce, HandedOnce, NoSeatGivenTwice,
      Flies, Waiting
<1> QED BY <1>1, <1>2, TokensAskOrMiss, TokensReceive, TokensSend DEF StepKind

-----------------------------------------------------------------------------
(* Clients are served in order. *)

\* 1 when a client is in hand.
InHand == IF check = "send" THEN 1 ELSE 0

\* The clients whose Search was read: those that were sent a Match, the one in
\* hand, those that wait.
InOrder ==
  /\ Len(arrivals) = Len(matches) + InHand + Len(queue)
  /\ \A i \in 1 .. Len(matches) : arrivals[i] = matches[i].to
  /\ check = "send" => arrivals[Len(matches) + 1] = in_hand
  /\ \A i \in 1 .. Len(queue) : arrivals[Len(matches) + InHand + i] = queue[i]

\* While a match is made there are as many clients as it needs.
Enough ==
  /\ check # "dead"
  /\ check \in {"prepare", "prepare_wait"} => Len(queue) >= 2
  /\ check = "pop" => Len(queue) >= 3 - seat
  /\ check = "send" => Len(queue) >= 2 - seat

\* A client whose Search was read has none unread, and its connection stays
\* open in Python.
Arrived ==
  \A i \in 1 .. Len(arrivals) : arrivals[i] \notin unread /\ (impl = "python" => arrivals[i] \in open)

Order == Calm => InOrder /\ Enough /\ Arrived

\* The lengths of the three sequences are numbers.
LEMMA Lengths ==
  ASSUME Types
  PROVE  /\ Len(queue) \in Nat /\ Len(arrivals) \in Nat /\ Len(matches) \in Nat
         /\ queue = <<>> <=> Len(queue) = 0
BY LenProperties, EmptySeq DEF Types, HandTypes

\* A client that arrives is the last of the queue.
LEMMA OrderArrives ==
  ASSUME Types, Order, impl' = impl, Arrives
  PROVE  Order'
<1>1. PICK c \in unread : Arrives!1!(c)
  BY DEF Arrives
<1>2. c \in Client /\ queue \in Seq(Client) /\ arrivals \in Seq(Client)
  BY DEF Types, HandTypes
<1>3. UNCHANGED <<matches, check, in_hand, seat, open, stage>>
  BY DEF Arrives, handState
<1>4. Calm' => Calm
  BY <1>3 DEF Calm, Python!NobodyReset
<1>5. CASE Calm
  <2>1. \A i \in 1 .. Len(queue) : queue[i] # c
    <3>1. ASSUME NEW i \in 1 .. Len(queue)
          PROVE  \E j \in 1 .. Len(arrivals) : arrivals[j] = queue[i]
      <4>1. Len(matches) + InHand + i \in 1 .. Len(arrivals)
        BY <1>5, Lengths DEF Order, InOrder, InHand
      <4> QED BY <1>5, <4>1 DEF Order, InOrder
    <3> QED BY <1>1, <1>5, <3>1 DEF Order, Arrived
  <2>2. queue' = Append(queue, c) /\ arrivals' = Append(arrivals, c)
    BY <1>1, <2>1
  <2>3. /\ Len(queue') = Len(queue) + 1 /\ queue'[Len(queue) + 1] = c
        /\ \A i \in 1 .. Len(queue) : queue'[i] = queue[i]
    BY <1>2, <2>2, AppendProperties
  <2>4. /\ Len(arrivals') = Len(arrivals) + 1 /\ arrivals'[Len(arrivals) + 1] = c
        /\ \A i \in 1 .. Len(arrivals) : arrivals'[i] = arrivals[i]
    BY <1>2, <2>2, AppendProperties
  <2>5. InHand' = InHand /\ InHand \in {0, 1} /\ (check = "send" => InHand = 1)
    BY <1>3 DEF InHand
  <2>6. Len(arrivals) = Len(matches) + InHand + Len(queue)
    BY <1>5 DEF Order, InOrder
  <2>7. InOrder'
    <3>1. Len(arrivals') = Len(matches') + InHand' + Len(queue')
      BY <1>3, <2>3, <2>4, <2>5, <2>6, Lengths
    <3>2. ASSUME NEW i \in 1 .. Len(matches')
          PROVE  arrivals'[i] = (matches'[i]).to
      <4>1. i \in 1 .. Len(matches) /\ i \in 1 .. Len(arrivals)
        BY <1>3, <2>5, <2>6, Lengths
      <4> QED BY <1>3, <1>5, <2>4, <4>1 DEF Order, InOrder
    <3>3. check' = "send" => arrivals'[Len(matches') + 1] = in_hand'
      <4>1. check = "send" => Len(matches) + 1 \in 1 .. Len(arrivals)
        BY <2>5, <2>6, Lengths
      <4> QED BY <1>3, <1>5, <2>4, <4>1 DEF Order, InOrder
    <3>4. ASSUME NEW i \in 1 .. Len(queue')
          PROVE  arrivals'[Len(matches') + InHand' + i] = queue'[i]
      <4>1. CASE i = Len(queue) + 1
        <5>1. Len(matches) + InHand + i = Len(arrivals) + 1
          BY <2>5, <2>6, <4>1, Lengths
        <5> QED BY <1>3, <2>3, <2>4, <2>5, <4>1, <5>1
      <4>2. CASE i \in 1 .. Len(queue)
        <5>1. Len(matches) + InHand + i \in 1 .. Len(arrivals)
          BY <2>5, <2>6, <4>2, Lengths
        <5> QED BY <1>3, <1>5, <2>3, <2>4, <2>5, <4>2, <5>1 DEF Order, InOrder
      <4> QED BY <2>3, <4>1, <4>2, Lengths
    <3> QED BY <3>1, <3>2, <3>3, <3>4 DEF InOrder
  <2>8. Enough'
    BY <1>3, <1>5, <2>3, Lengths DEF Order, Enough, Types, HandTypes
  <2>9. Arrived'
    <3>1. ASSUME NEW i \in 1 .. Len(arrivals')
          PROVE  arrivals'[i] \notin unread' /\ (impl' = "python" => arrivals'[i] \in open')
      <4>1. i \in 1 .. Len(arrivals) \/ i = Len(arrivals) + 1
        BY <2>4, Lengths
      <4> QED BY <1>1, <1>3, <1>5, <2>4, <4>1 DEF Order, Arrived
    <3> QED BY <3>1 DEF Arrived
  <2> QED BY <2>7, <2>8, <2>9 DEF Order
<1> QED BY <1>4, <1>5 DEF Order

\* The client that is popped is the next one, and there is one.
LEMMA OrderPops ==
  ASSUME Types, Order, impl' = impl, Pops
  PROVE  Order'
<1>1. UNCHANGED <<matches, arrivals, unread, open, stage, seat>> /\ check = "pop"
  BY DEF Pops
<1>2. Calm' => Calm
  BY <1>1 DEF Calm, Python!NobodyReset
<1>3. CASE Calm
  <2>1. queue # <<>>
    BY <1>1, <1>3, Lengths DEF Order, Enough, Types, HandTypes
  <2>2. check' = "send" /\ in_hand' = Head(queue) /\ queue' = Tail(queue)
    BY <2>1 DEF Pops
  <2>3. /\ Head(queue) = queue[1] /\ Len(queue') = Len(queue) - 1
        /\ \A i \in 1 .. Len(queue') : queue'[i] = queue[i + 1]
    BY <2>1, <2>2, HeadTailProperties DEF Types, HandTypes
  <2>4. InHand = 0 /\ InHand' = 1
    BY <1>1, <2>2 DEF InHand
  <2>5. InOrder'
    <3>1. Len(arrivals') = Len(matches') + InHand' + Len(queue')
      <4>1. Len(arrivals) = Len(matches) + 0 + Len(queue)
        BY <1>3, <2>4 DEF Order, InOrder
      <4> QED BY <1>1, <2>3, <2>4, <4>1, Lengths
    <3>2. \A i \in 1 .. Len(matches') : arrivals'[i] = (matches'[i]).to
      BY <1>1, <1>3 DEF Order, InOrder
    <3>3. arrivals'[Len(matches') + 1] = in_hand'
      <4>1. 1 \in 1 .. Len(queue) /\ Len(matches) + 0 + 1 = Len(matches) + 1
        BY <2>1, Lengths
      <4>2. arrivals[Len(matches) + 0 + 1] = queue[1]
        BY <1>3, <2>4, <4>1 DEF Order, InOrder
      <4> QED BY <1>1, <2>2, <2>3, <4>1, <4>2
    <3>4. ASSUME NEW i \in 1 .. Len(queue')
          PROVE  arrivals'[Len(matches') + InHand' + i] = queue'[i]
      <4>1. i + 1 \in 1 .. Len(queue) /\ Len(matches) + 0 + (i + 1) = Len(matches) + 1 + i
        BY <2>3, Lengths
      <4>2. arrivals[Len(matches) + 0 + (i + 1)] = queue[i + 1]
        BY <1>3, <2>4, <4>1 DEF Order, InOrder
      <4> QED BY <1>1, <2>3, <2>4, <4>1, <4>2
    <3> QED BY <3>1, <3>2, <3>3, <3>4 DEF InOrder
  <2>6. Enough'
    BY <1>1, <1>3, <2>2, <2>3, Lengths DEF Order, Enough, Types, HandTypes
  <2>7. Arrived'
    BY <1>1, <1>3 DEF Order, Arrived
  <2> QED BY <2>5, <2>6, <2>7 DEF Order
<1> QED BY <1>2, <1>3 DEF Order

\* The client in hand is sent its Match.
LEMMA OrderSends ==
  ASSUME Types, Order, impl' = impl, Sends
  PROVE  Order'
<1>1. UNCHANGED <<queue, arrivals, unread, open, stage, in_hand>> /\ check = "send"
  BY DEF Sends, queueState
<1>2. Calm' => Calm
  BY <1>1 DEF Calm, Python!NobodyReset
<1>3. CASE Calm
  <2>1. InHand = 1
    BY <1>1 DEF InHand
  <2>2. Len(matches) + 1 \in 1 .. Len(arrivals) /\ arrivals[Len(matches) + 1] = in_hand
    BY <1>1, <1>3, <2>1, Lengths DEF Order, InOrder
  <2>3. ~(impl = "python" /\ (in_hand \notin open \/ stage[in_hand] = "reset"))
    BY <1>1, <1>3, <2>2 DEF Calm, Python!NobodyReset, Order, Arrived, Types, HandTypes
  <2>4. check' # "dead"
    <3>1. CASE IF seat = 1 THEN seat' = 2 /\ check' = "pop" ELSE seat' = 1 /\ check' = "sleep"
      BY <3>1
    <3> QED BY <2>3, <3>1 DEF Sends
  <2>5. /\ Len(matches') = Len(matches) + 1
        /\ \A i \in 1 .. Len(matches) : matches'[i] = matches[i]
        /\ (matches'[Len(matches) + 1]).to = in_hand
        /\ IF seat = 1 THEN seat' = 2 /\ check' = "pop" ELSE seat' = 1 /\ check' = "sleep"
    BY <2>4, SentFacts
  <2>6. InHand' = 0 /\ check' # "send"
    BY <2>5 DEF InHand
  <2>7. InOrder'
    <3>1. Len(arrivals') = Len(matches') + InHand' + Len(queue')
      BY <1>1, <1>3, <2>1, <2>5, <2>6, Lengths DEF Order, InOrder
    <3>2. ASSUME NEW i \in 1 .. Len(matches')
          PROVE  arrivals'[i] = (matches'[i]).to
      <4>1. i \in 1 .. Len(matches) \/ i = Len(matches) + 1
        BY <2>5, Lengths
      <4> QED BY <1>1, <1>3, <2>2, <2>5, <4>1 DEF Order, InOrder
    <3>3. ASSUME NEW i \in 1 .. Len(queue')
          PROVE  arrivals'[Len(matches') + InHand' + i] = queue'[i]
      <4>1. Len(matches) + 1 + i = Len(matches') + 0 + i
        BY <2>5, Lengths
      <4> QED BY <1>1, <1>3, <2>1, <2>6, <4>1 DEF Order, InOrder
    <3> QED BY <2>6, <3>1, <3>2, <3>3 DEF InOrder
  <2>8. Enough'
    BY <1>1, <1>3, <2>5, Lengths DEF Order, Enough, Types, HandTypes
  <2>9. Arrived'
    BY <1>1, <1>3 DEF Order, Arrived
  <2> QED BY <2>7, <2>8, <2>9 DEF Order
<1> QED BY <1>2, <1>3 DEF Order

\* Every step keeps the order of service.
LEMMA OrderKept ==
  ASSUME Types, Order, StepKind, impl' = impl
  PROVE  Order'
<1> USE DEF Order, InOrder, Enough, Arrived, InHand
<1>1. ASSUME NEW kind \in {"query", "prepare"}, Asks(kind) \/ Misses(kind)
      PROVE  Order'
  BY <1>1 DEF Asks, Misses, Wait, handState, queueState, Calm, Python!NobodyReset
<1>2. ASSUME Hears \/ Goes \/ Delivers
      PROVE  Order'
  BY <1>2 DEF Hears, Goes, Delivers, handState, queueState, Calm, Python!NobodyReset
<1>3. ASSUME Obtains
      PROVE  Order'
  <2>1. /\ UNCHANGED <<seat, in_hand, matches, queue, arrivals, unread, open, stage>>
        /\ check = "prepare_wait" /\ check' = "pop" /\ seat = 1
    BY <1>3 DEF Obtains, queueState, Types, HandTypes, HandsOut
  <2> QED BY <2>1, Lengths DEF Calm, Python!NobodyReset
<1>4. ASSUME Stirs
      PROVE  Order'
  <2>1. UNCHANGED <<check, seat, in_hand, matches, arrivals, unread>>
    BY <1>4 DEF Stirs, handState
  <2>2. Calm' => Calm /\ UNCHANGED queue /\ (impl = "python" => open \subseteq open')
    BY <1>4 DEF Stirs
  <2> QED BY <2>1, <2>2
<1> QED BY <1>1, <1>2, <1>3, <1>4, OrderArrives, OrderPops, OrderSends DEF StepKind

-----------------------------------------------------------------------------
(* The theorems. *)

CoordinatorsInv == ClosingOK /\ Types /\ Requests /\ FitOK /\ Tokens /\ Order

\* The invariant holds at the start: nothing is on its way, nobody waits.
LEMMA InitInv == CoordinatorsInit => CoordinatorsInv
<1> SUFFICES ASSUME CoordinatorsInit
             PROVE  CoordinatorsInv
  OBVIOUS
<1> USE DEF CoordinatorsInit, Init
<1>1. /\ \A S : <<>> \in Seq(S) /\ Len(<<>>) = 0 /\ 1 .. 0 = {}
      /\ \A k \in Socket : inbox[k] = <<>>
      /\ Desk \in Socket
  BY EmptySeq DEF Desk, Sock, Socket
<1>2. ClosingOK
  BY DEF ClosingOK
<1>3. Types
  BY <1>1 DEF Types, NetTypes, HandTypes, Waits, HandsOut
<1>4. Requests
  BY <1>1 DEF Requests, CurrentOK, AddressOK, WaitingOK
<1>5. FitOK /\ Tokens
  BY <1>1 DEF FitOK, Tokens, LeftWaiting, FlyingOnce, WaitingOnce, HandedOnce, NoSeatGivenTwice, HandsOut
<1>6. Order
  BY <1>1 DEF Order, InOrder, InHand, Enough, Arrived
<1> QED BY <1>2, <1>3, <1>4, <1>5, <1>6 DEF CoordinatorsInv

\* Every step keeps the invariant.
LEMMA NextInv == CoordinatorsInv /\ [CoordinatorsNext]_<<vars, impl>> => CoordinatorsInv'
<1> SUFFICES ASSUME CoordinatorsInv, [CoordinatorsNext]_<<vars, impl>>
             PROVE  CoordinatorsInv'
  OBVIOUS
<1> USE DEF CoordinatorsInv
<1>1. CASE CoordinatorsNext
  <2>1. impl' = impl /\ StepKind
    BY <1>1, JavaStepKind, PythonStepKind DEF CoordinatorsNext, Types, HandTypes
  <2>2. ClosingOK'
    BY <1>1, ClosingKept
  <2>3. Types'
    BY <2>1, NetTypesKept, HandTypesKept DEF Types
  <2> QED BY <2>1, <2>2, <2>3, RequestsKept, FitKept, TokensKept, OrderKept
<1>2. CASE UNCHANGED <<vars, impl>>
  <2> USE <1>2 DEF vars, clientVars, queueVars, checkVars, netVars
  <2>1. ClosingOK' /\ Types'
    BY DEF ClosingOK, Types, NetTypes, HandTypes
  <2>2. Requests' /\ FitOK'
    BY DEF Requests, CurrentOK, AddressOK, WaitingOK, FitOK, Desk, Sock, Then
  <2>3. Tokens'
    BY DEF Tokens, LeftWaiting, FlyingOnce, WaitingOnce, HandedOnce, NoSeatGivenTwice, Flies, Waiting
  <2>4. Order'
    BY DEF Order, Calm, Python!NobodyReset, InOrder, InHand, Enough, Arrived
  <2> QED BY <2>1, <2>2, <2>3, <2>4
<1> QED BY <1>1, <1>2

\* The invariant holds in every state either coordinator can reach.
THEOREM CoordinatorsInvariant == CoordinatorsSpec => []CoordinatorsInv
BY InitInv, NextInv, PTL DEF CoordinatorsSpec

\* The clients served and to be served, one after the other, are those that
\* arrived.
LEMMA OrderIsServed ==
  ASSUME Types, InOrder
  PROVE  arrivals = Served
<1> DEFINE sent == [i \in 1 .. Len(matches) |-> matches[i].to]
           hand == IF check = "send" THEN <<in_hand>> ELSE <<>>
<1>1. \A i \in 1 .. Len(matches) : matches[i].to \in Client
  <2>1. \A i \in 1 .. Len(matches) : matches[i] \in Sent
    BY ElementOfSeq DEF Types, HandTypes
  <2> QED BY <2>1 DEF Sent
<1>2. sent \in Seq(Client) /\ Len(sent) = Len(matches) /\ \A i \in 1 .. Len(matches) : sent[i] = matches[i].to
  BY <1>1, Lengths
<1>3. hand \in Seq(Client) /\ Len(hand) = InHand /\ (check = "send" => hand[1] = in_hand)
  BY EmptySeq DEF InHand, Types, HandTypes
<1>4. queue \in Seq(Client) /\ arrivals \in Seq(Client)
  BY DEF Types, HandTypes
<1>5. Served = (sent \o hand) \o queue
  BY DEF Served
<1> HIDE DEF sent, hand
<1>6. /\ sent \o hand \in Seq(Client) /\ Len(sent \o hand) = Len(matches) + InHand
      /\ \A i \in 1 .. Len(matches) + InHand :
           (sent \o hand)[i] = IF i <= Len(matches) THEN sent[i] ELSE hand[i - Len(matches)]
  <2>1. /\ sent \o hand \in Seq(Client) /\ Len(sent \o hand) = Len(sent) + Len(hand)
        /\ \A i \in 1 .. Len(sent) + Len(hand) :
             (sent \o hand)[i] = IF i <= Len(sent) THEN sent[i] ELSE hand[i - Len(sent)]
    BY <1>2, <1>3, ConcatProperties
  <2> QED BY <1>2, <1>3, <2>1
<1>7. /\ Served \in Seq(Client) /\ Len(Served) = Len(matches) + InHand + Len(queue)
      /\ \A i \in 1 .. Len(matches) + InHand + Len(queue) :
           Served[i] = IF i <= Len(matches) + InHand THEN (sent \o hand)[i]
                       ELSE queue[i - (Len(matches) + InHand)]
  BY <1>4, <1>5, <1>6, ConcatProperties
<1>8. Len(arrivals) = Len(Served)
  BY <1>7 DEF InOrder
<1>9. ASSUME NEW i \in 1 .. Len(arrivals)
      PROVE  arrivals[i] = Served[i]
  <2>1. InHand \in {0, 1} /\ (InHand = 1 <=> check = "send") /\ i \in 1 .. Len(matches) + InHand + Len(queue)
    BY DEF InHand, InOrder
  <2>2. CASE i <= Len(matches)
    <3>1. /\ i \in 1 .. Len(matches) /\ i <= Len(matches) + InHand
          /\ i \in 1 .. Len(matches) + InHand
      BY <2>1, <2>2, Lengths
    <3>2. Served[i] = sent[i]
      BY <1>6, <1>7, <2>1, <2>2, <3>1
    <3> QED BY <1>2, <3>1, <3>2 DEF InOrder
  <2>3. CASE i = Len(matches) + 1 /\ InHand = 1
    <3>1. i - Len(matches) = 1 /\ ~(i <= Len(matches)) /\ i <= Len(matches) + InHand
          /\ i \in 1 .. Len(matches) + InHand
      BY <2>3, Lengths
    <3>2. Served[i] = hand[1]
      BY <1>6, <1>7, <2>1, <3>1
    <3> QED BY <1>3, <2>1, <2>3, <3>2 DEF InOrder
  <2>4. CASE i > Len(matches) + InHand
    <3>1. PICK j \in 1 .. Len(queue) : i = Len(matches) + InHand + j
      <4>1. i - (Len(matches) + InHand) \in 1 .. Len(queue)
            /\ i = Len(matches) + InHand + (i - (Len(matches) + InHand))
        BY <2>1, <2>4, Lengths
      <4> QED BY <4>1
    <3>2. i - (Len(matches) + InHand) = j
      BY <2>1, <3>1, Lengths
    <3>3. Served[i] = queue[j]
      BY <1>7, <2>1, <2>4, <3>2, Lengths
    <3> QED BY <3>1, <3>3 DEF InOrder
  <2> QED BY <2>1, <2>2, <2>3, <2>4, Lengths
<1> QED BY <1>4, <1>7, <1>8, <1>9, SeqEqual

\* No two Matches carry the same seat of the same server's tokens, whatever is
\* lost or late, in either coordinator.
THEOREM SeatsGivenOnce == CoordinatorsSpec => []NoSeatGivenTwice
<1>1. CoordinatorsInv => NoSeatGivenTwice
  BY DEF CoordinatorsInv, Tokens, HandedOnce
<1> QED BY <1>1, CoordinatorsInvariant, PTL

\* The Java coordinator sends tokens with the address of their own server until
\* an answer to a Prepare comes late.
THEOREM JavaFits == CoordinatorsSpec => []JavaMatchFitsServer
<1>1. CoordinatorsInv => JavaMatchFitsServer
  BY DEF CoordinatorsInv, FitOK, JavaMatchFitsServer, Java!MatchFitsServer
<1> QED BY <1>1, CoordinatorsInvariant, PTL

\* The Python coordinator always does: a late answer finds its socket closed.
THEOREM PythonFits == CoordinatorsSpec => []PythonMatchFitsServer
<1>1. CoordinatorsInv => PythonMatchFitsServer
  BY DEF CoordinatorsInv, FitOK, Requests, AddressOK, PythonMatchFitsServer, Python!MatchFitsServer
<1> QED BY <1>1, CoordinatorsInvariant, PTL

\* The Java coordinator serves clients in the order in which they searched,
\* each once, and its check thread does not end.
THEOREM JavaInOrder == CoordinatorsSpec => []JavaServedInOrder
<1>1. CoordinatorsInv => JavaServedInOrder
  <2> SUFFICES ASSUME CoordinatorsInv, impl = "java"
               PROVE  Java!ServedInOrder
    BY DEF JavaServedInOrder
  <2>1. Types /\ InOrder /\ check # "dead"
    BY DEF CoordinatorsInv, Order, Calm, Enough
  <2>2. Java!Served = Served
    BY DEF Java!Served, Served
  <2> QED BY <2>1, <2>2, OrderIsServed DEF Java!ServedInOrder
<1> QED BY <1>1, CoordinatorsInvariant, PTL

\* The Python coordinator does so until a client's connection is reset.
THEOREM PythonInOrder == CoordinatorsSpec => []PythonServedInOrder
<1>1. CoordinatorsInv => PythonServedInOrder
  <2> SUFFICES ASSUME CoordinatorsInv, impl = "python", Python!NobodyReset
               PROVE  arrivals = Python!Served /\ check # "dead"
    BY DEF PythonServedInOrder, Python!ServedInOrderUnlessReset
  <2>1. Types /\ InOrder /\ check # "dead"
    BY DEF CoordinatorsInv, Order, Calm, Enough
  <2>2. Python!Served = Served
    BY DEF Python!Served, Served
  <2> QED BY <2>1, <2>2, OrderIsServed
<1> QED BY <1>1, CoordinatorsInvariant, PTL

-----------------------------------------------------------------------------
(* The types of everything, and the bound of the mail boxes. *)

\* What the check thread reads from a socket is an answer.  A socket that the
\* program does not have receives nothing.
InboxOK ==
  /\ \A k \in Socket : \A i \in 1 .. Len(inbox[k]) : inbox[k][i].answer # "none"
  /\ impl = "java" => inbox["fresh"] = <<>>
  /\ impl = "python" => inbox["query"] = <<>> /\ inbox["prepare"] = <<>>

\* The requests and answers that can still come to the check thread, and
\* whether one of them is what it waits for.
InMail == Len(inbox["query"]) + Len(inbox["prepare"])
Pending == Cardinality(inflight) + InMail
Due == \E kind \in {"query", "prepare"} :
         check = Wait(kind) /\ (inbox[kind] # <<>> \/ \E r \in inflight : ~r.late)

\* Of what the Java coordinator has on its way only what it waits for is not
\* one of the late ones, of which there are at most MaxLate.
RoomOK ==
  /\ IsFiniteSet(inflight)
  /\ impl = "java" => Pending <= MaxLate \/ (Pending = MaxLate + 1 /\ Due)

\* The check thread's own variables, and the connections.
ListTypes ==
  /\ backlog \subseteq Client /\ open \subseteq Client
  /\ server_list \in [ServerId -> Phase] /\ todo \subseteq ServerId
  /\ asked \in ServerId \cup {Nobody} /\ in_hand \in Client \cup {Nobody}
  /\ match \in [server : ServerId \cup {Nobody}, of : ServerId \cup {Nobody}]

\* Making the members of a finite set late leaves no more of them.
LEMMA LateIsNoMore ==
  ASSUME NEW S, IsFiniteSet(S)
  PROVE  /\ IsFiniteSet({[r EXCEPT !.late = TRUE] : r \in S})
         /\ Cardinality({[r EXCEPT !.late = TRUE] : r \in S}) <= Cardinality(S)
<1> DEFINE T == {[r EXCEPT !.late = TRUE] : r \in S}
           f == [r \in S |-> [r EXCEPT !.late = TRUE]]
<1>1. f \in Surjection(S, T)
  BY DEF Surjection
<1> HIDE DEF f
<1> QED BY <1>1, FS_Surjection

\* Every step leaves answers at the sockets.
LEMMA InboxKept ==
  ASSUME Types, Requests, InboxOK, StepKind, impl' = impl
  PROVE  InboxOK'
<1> USE DEF Types, NetTypes, netState
<1>1. ASSUME UNCHANGED inbox
      PROVE  InboxOK'
  BY <1>1 DEF InboxOK
<1>2. ASSUME NEW k \in Socket, Receive(k)
      PROVE  InboxOK'
  <2>1. inbox[k] # <<>> /\ inbox' = [inbox EXCEPT ![k] = Tail(inbox[k])]
    BY <1>2 DEF Receive
  <2>2. /\ Len(inbox[k]) \in Nat /\ Len(Tail(inbox[k])) = Len(inbox[k]) - 1
        /\ \A i \in 1 .. Len(Tail(inbox[k])) : Tail(inbox[k])[i] = inbox[k][i + 1]
    BY <1>2, <2>1, SocketFacts
  <2>3. \A i \in 1 .. Len(Tail(inbox[k])) : i + 1 \in 1 .. Len(inbox[k])
    BY <2>2
  <2>4. \A i \in 1 .. Len(Tail(inbox[k])) : Tail(inbox[k])[i].answer # "none"
    BY <1>2, <2>2, <2>3 DEF InboxOK
  <2>5. \A l \in Socket : inbox'[l] = IF l = k THEN Tail(inbox[k]) ELSE inbox[l]
    BY <2>1
  <2>6. \A l \in Socket : \A i \in 1 .. Len(inbox'[l]) : (inbox'[l])[i].answer # "none"
    BY <2>4, <2>5 DEF InboxOK
  <2>7. \A l \in Socket : inbox[l] = <<>> => inbox'[l] = <<>>
    BY <2>1, <2>5
  <2> QED BY <2>6, <2>7 DEF InboxOK, Socket
<1>3. ASSUME Delivers
      PROVE  InboxOK'
  <2>1. PICK r \in inflight : Delivers!1!(r)
    BY <1>3 DEF Delivers
  <2>2. r \in Request
    OBVIOUS
  <2>3. CASE r.answer = "none" \/ r.socket = "closed"
    BY <1>1, <2>1, <2>3
  <2>4. CASE r.answer # "none" /\ r.socket # "closed"
    <3> DEFINE new == [server |-> r.server, answer |-> r.answer]
    <3>1. inbox' = [inbox EXCEPT ![r.socket] = Append(inbox[r.socket], new)]
      BY <2>1, <2>4
    <3>2. r.socket \in Socket /\ new \in Answer /\ new.answer # "none"
      BY <2>2, <2>4 DEF Request, Answer
    <3>3. (impl = "java" => r.socket # "fresh") /\ (impl = "python" => r.socket = "fresh")
      BY <2>2, <2>4 DEF Requests, AddressOK, Sock, Then, Request
    <3> HIDE DEF new
    <3>4. /\ Len(inbox[r.socket]) \in Nat /\ Len(Append(inbox[r.socket], new)) = Len(inbox[r.socket]) + 1
          /\ \A i \in 1 .. Len(inbox[r.socket]) : Append(inbox[r.socket], new)[i] = inbox[r.socket][i]
          /\ Append(inbox[r.socket], new)[Len(inbox[r.socket]) + 1] = new
      BY <3>2, AppendProperties, LenProperties
    <3>5. \A i \in 1 .. Len(inbox[r.socket]) + 1 : i \in 1 .. Len(inbox[r.socket]) \/ i = Len(inbox[r.socket]) + 1
      BY <3>4
    <3>6. \A i \in 1 .. Len(Append(inbox[r.socket], new)) : Append(inbox[r.socket], new)[i].answer # "none"
      BY <3>2, <3>4, <3>5 DEF InboxOK
    <3>7. \A l \in Socket : inbox'[l] = IF l = r.socket THEN Append(inbox[r.socket], new) ELSE inbox[l]
      BY <3>1
    <3> QED BY <3>3, <3>6, <3>7 DEF InboxOK, Socket
  <2> QED BY <2>3, <2>4
<1>4. ASSUME Hears \/ Obtains
      PROVE  InboxOK'
  BY <1>2, <1>4, SocketFacts DEF Hears, Obtains
<1>5. ASSUME NEW kind \in {"query", "prepare"}, Asks(kind) \/ Misses(kind)
      PROVE  UNCHANGED inbox
  BY <1>5 DEF Asks, Misses
<1>6. Goes \/ Pops \/ Sends \/ Arrives \/ Stirs => UNCHANGED inbox
  BY DEF Goes, Pops, Sends, Arrives, Stirs
<1> QED BY <1>1, <1>3, <1>4, <1>5, <1>6 DEF StepKind

\* With one more member a finite set has at most one more.
LEMMA OneMore ==
  ASSUME NEW S, NEW x, IsFiniteSet(S)
  PROVE  /\ IsFiniteSet(S \cup {x}) /\ Cardinality(S) \in Nat /\ Cardinality(S \cup {x}) \in Nat
         /\ Cardinality(S \cup {x}) <= Cardinality(S) + 1
<1>1. Cardinality(S) \in Nat /\ IsFiniteSet(S \cup {x})
  BY FS_AddElement, FS_CardinalityType
<1>2. Cardinality(S \cup {x}) \in Nat
  BY <1>1, FS_CardinalityType
<1>3. Cardinality(S \cup {x}) = IF x \in S THEN Cardinality(S) ELSE Cardinality(S) + 1
  BY FS_AddElement
<1> QED BY <1>1, <1>2, <1>3

\* Without one of its members it has one less.
LEMMA OneLess ==
  ASSUME NEW S, NEW x \in S, IsFiniteSet(S)
  PROVE  /\ IsFiniteSet(S \ {x}) /\ Cardinality(S) \in Nat /\ Cardinality(S \ {x}) \in Nat
         /\ Cardinality(S \ {x}) = Cardinality(S) - 1
<1>1. Cardinality(S) \in Nat /\ IsFiniteSet(S \ {x})
  BY FS_RemoveElement, FS_CardinalityType
<1>2. Cardinality(S \ {x}) \in Nat
  BY <1>1, FS_CardinalityType
<1> QED BY <1>1, <1>2, FS_RemoveElement

\* With another in the place of one of its members it has no more.
LEMMA OneForAnother ==
  ASSUME NEW S, NEW x \in S, NEW y, IsFiniteSet(S)
  PROVE  /\ IsFiniteSet((S \ {x}) \cup {y}) /\ Cardinality((S \ {x}) \cup {y}) \in Nat
         /\ Cardinality((S \ {x}) \cup {y}) <= Cardinality(S)
<1> DEFINE T == S \ {x}
<1>1. IsFiniteSet(T) /\ Cardinality(S) \in Nat /\ Cardinality(T) = Cardinality(S) - 1
  BY OneLess
<1> HIDE DEF T
<1>2. /\ IsFiniteSet(T \cup {y}) /\ Cardinality(T \cup {y}) \in Nat
      /\ Cardinality(T \cup {y}) <= Cardinality(T) + 1
  BY <1>1, OneMore
<1> QED BY <1>1, <1>2 DEF T

\* What is pending is a number; the bound is one.
LEMMA Counts ==
  ASSUME Types, RoomOK
  PROVE  /\ Cardinality(inflight) \in Nat /\ InMail \in Nat /\ MaxLate \in Nat
         /\ Pending \in Nat /\ Pending = Cardinality(inflight) + InMail
<1>1. /\ Cardinality(inflight) \in Nat /\ Len(inbox["query"]) \in Nat
      /\ Len(inbox["prepare"]) \in Nat /\ MaxLate \in Nat
  BY SocketFacts, FS_CardinalityType, WorldAssumption DEF RoomOK, Socket
<1> DEFINE q == Len(inbox["query"])
           p == Len(inbox["prepare"])
<1>2. InMail = q + p /\ q \in Nat /\ p \in Nat
  BY <1>1 DEF InMail
<1> HIDE DEF q, p
<1>3. InMail \in Nat
  BY <1>2
<1> QED BY <1>1, <1>3 DEF Pending

\* A request is sent only when none is waited for.
LEMMA RoomAsk ==
  ASSUME Types, Requests, RoomOK, impl' = impl, NEW kind \in {"query", "prepare"}, Asks(kind)
  PROVE  RoomOK'
<1>1. PICK s \in ServerId : Ask(kind, s, Sock(kind))
  BY DEF Asks
<1> DEFINE new == [kind |-> kind, server |-> s, socket |-> Sock(kind), answer |-> "none", late |-> FALSE]
<1>2. inflight' = inflight \cup {new} /\ ~new.late
  BY <1>1 DEF Ask
<1>3. check \notin Waits /\ check' = Wait(kind) /\ UNCHANGED inbox
  BY DEF Asks, Waits
<1> HIDE DEF new
<1>4. /\ IsFiniteSet(inflight') /\ Cardinality(inflight') \in Nat
      /\ Cardinality(inflight') <= Cardinality(inflight) + 1
  BY <1>2, OneMore DEF RoomOK
<1>5. Due' /\ ~Due
  BY <1>2, <1>3 DEF Due, Wait, Waits
<1>6. Pending' <= Pending + 1 /\ Pending' \in Nat
  <2>1. Pending' = Cardinality(inflight') + InMail
    BY <1>3 DEF Pending, InMail
  <2> QED BY <1>4, <2>1, Counts
<1>7. impl = "java" => Pending <= MaxLate
  BY <1>5 DEF RoomOK
<1>8. impl = "java" => Pending' <= MaxLate \/ Pending' = MaxLate + 1
  BY <1>6, <1>7, Counts
<1> QED BY <1>4, <1>5, <1>8 DEF RoomOK

\* A timeout lets at most one more come late, and only if there is room.
LEMMA RoomMiss ==
  ASSUME Types, Requests, RoomOK, impl' = impl, NEW kind \in {"query", "prepare"}, Misses(kind)
  PROVE  RoomOK'
<1> DEFINE stale == {r \in inflight : r.late}
<1>1. NothingComes(Sock(kind), Then(kind)) /\ check = Wait(kind) /\ UNCHANGED inbox
  BY DEF Misses, netState
<1>2. IsFiniteSet(stale) /\ Cardinality(stale) \in Nat /\ Cardinality(stale) <= Cardinality(inflight)
  BY FS_Subset, FS_CardinalityType DEF RoomOK
<1>3. Pending' = Cardinality(inflight') + InMail
  BY <1>1 DEF Pending, InMail
<1>4. CASE inflight' = stale
  <2>1. ASSUME impl = "java", Due
        PROVE  Cardinality(stale) + 1 <= Cardinality(inflight)
    <3>1. PICK r \in inflight : ~r.late
      <4>1. inbox[Sock(kind)] = <<>>
        BY <1>1, Zenon DEF NothingComes
      <4> QED BY <1>1, <2>1, <4>1 DEF Due, Sock, Wait
    <3>2. stale \in SUBSET (inflight \ {r})
      BY <3>1
    <3>3. /\ IsFiniteSet(inflight \ {r}) /\ Cardinality(inflight \ {r}) \in Nat
          /\ Cardinality(inflight \ {r}) = Cardinality(inflight) - 1
      BY <3>1, OneLess DEF RoomOK
    <3>4. Cardinality(stale) <= Cardinality(inflight \ {r})
      BY <3>2, <3>3, FS_Subset
    <3> HIDE DEF stale
    <3> QED BY <1>2, <3>3, <3>4, Counts
  <2> HIDE DEF stale
  <2>2. Pending' <= Pending /\ Pending' \in Nat
    BY <1>2, <1>3, <1>4, Counts
  <2>3. impl = "java" /\ Due => Pending' + 1 <= Pending
    BY <1>2, <1>3, <1>4, <2>1, Counts
  <2>4. impl = "java" => Pending <= MaxLate \/ (Pending = MaxLate + 1 /\ Due)
    BY DEF RoomOK
  <2>5. impl = "java" => Pending' <= MaxLate
    BY <2>2, <2>3, <2>4, Counts
  <2> QED BY <1>2, <1>4, <2>5 DEF RoomOK
<1>5. CASE inflight' # stale
  <2> DEFINE missed == {[r EXCEPT !.late = TRUE, !.socket = Then(kind)] : r \in inflight \ stale}
  <2>1. Cardinality(stale) + InMail < MaxLate
    <3>1. Cardinality(stale) + Len(inbox["query"]) + Len(inbox["prepare"]) < MaxLate
      BY <1>1, <1>5, Zenon DEF NothingComes
    <3> DEFINE n == Cardinality(stale)
               q == Len(inbox["query"])
               p == Len(inbox["prepare"])
    <3>2. n \in Nat /\ q \in Nat /\ p \in Nat
      BY <1>2, SocketFacts DEF Socket
    <3>3. n + q + p < MaxLate /\ InMail = q + p
      BY <3>1 DEF InMail
    <3> HIDE DEF n, q, p
    <3>4. n + InMail < MaxLate
      BY <3>2, <3>3, Counts
    <3> QED BY <3>4 DEF n
  <2>2. inflight' = stale \cup missed
    BY <1>1, <1>5, Zenon DEF NothingComes
  <2>3. /\ IsFiniteSet(inflight') /\ Cardinality(inflight') \in Nat
        /\ Cardinality(inflight') <= Cardinality(stale) + 1
    <3>1. PICK r \in inflight : ~r.late
      <4>1. inflight \ stale = {} => missed = {}
        BY Zenon
      <4>2. inflight \ stale # {}
        BY <1>5, <2>2, <4>1, Zenon
      <4> QED BY <4>2
    <3>2. \A t \in inflight \ stale : t = r
      BY <3>1 DEF Requests, CurrentOK
    <3>3. inflight \ stale = {r}
      BY <3>1, <3>2
    <3> DEFINE new == [r EXCEPT !.late = TRUE, !.socket = Then(kind)]
    <3>4. inflight' = stale \cup {new}
      BY <2>2, <3>3, Zenon
    <3> HIDE DEF new, stale
    <3> QED BY <1>2, <3>4, OneMore
  <2> HIDE DEF missed, stale
  <2>5. Pending' <= MaxLate
    BY <1>2, <1>3, <2>1, <2>3, Counts
  <2> QED BY <2>3, <2>5 DEF RoomOK
<1> QED BY <1>4, <1>5

\* What is received is not pending any more.
LEMMA RoomReceive ==
  ASSUME Types, RoomOK, impl' = impl, Hears \/ Obtains
  PROVE  RoomOK'
<1> DEFINE k == IF Hears THEN Sock("query") ELSE Sock("prepare")
<1>1. Receive(k) /\ k \in Socket /\ (impl = "java" => k \in {"query", "prepare"})
  BY DEF Hears, Obtains, Sock, Socket
<1> HIDE DEF k
<1>2. inbox[k] # <<>> /\ inbox' = [inbox EXCEPT ![k] = Tail(inbox[k])]
      /\ inflight' = {[r EXCEPT !.late = TRUE] : r \in inflight}
  BY <1>1 DEF Receive
<1>3. IsFiniteSet(inflight') /\ Cardinality(inflight') <= Cardinality(inflight)
  BY <1>2, LateIsNoMore DEF RoomOK
<1>4. Cardinality(inflight') \in Nat
  BY <1>3, FS_CardinalityType
<1>5. Len(Tail(inbox[k])) = Len(inbox[k]) - 1 /\ Len(inbox[k]) # 0
  BY <1>1, <1>2, SocketFacts
<1>6. \A l \in Socket : inbox'[l] = IF l = k THEN Tail(inbox[k]) ELSE inbox[l]
  BY <1>2 DEF Types, NetTypes
<1>7. ASSUME impl = "java"
      PROVE  Pending' <= MaxLate
  <2>1. \/ Len(inbox'["query"]) = Len(inbox["query"]) - 1 /\ Len(inbox'["prepare"]) = Len(inbox["prepare"])
           /\ Len(inbox["query"]) # 0
        \/ Len(inbox'["query"]) = Len(inbox["query"]) /\ Len(inbox'["prepare"]) = Len(inbox["prepare"]) - 1
           /\ Len(inbox["prepare"]) # 0
    BY <1>1, <1>5, <1>6, <1>7 DEF Socket
  <2> DEFINE n == Cardinality(inflight)
             q == Len(inbox["query"])
             p == Len(inbox["prepare"])
             next == Cardinality(inflight')
             nextq == Len(inbox'["query"])
             nextp == Len(inbox'["prepare"])
  <2>2. Pending = n + (q + p) /\ Pending' = next + (nextq + nextp)
    BY DEF Pending, InMail
  <2>3. n \in Nat /\ q \in Nat /\ p \in Nat /\ MaxLate \in Nat
    BY Counts, SocketFacts DEF Socket
  <2>4. next \in Nat /\ next <= n
    BY <1>3, <1>4
  <2>5. (nextq = q - 1 /\ nextp = p) \/ (nextq = q /\ nextp = p - 1)
    BY <2>1
  <2>6. Pending <= MaxLate \/ Pending = MaxLate + 1
    BY <1>7 DEF RoomOK
  <2> HIDE DEF n, q, p, next, nextq, nextp
  <2> QED BY <2>2, <2>3, <2>4, <2>5, <2>6
<1> QED BY <1>3, <1>7 DEF RoomOK

\* What is delivered is as much pending as before; what is waited for is
\* waited for on its way as well as at the socket.
LEMMA RoomDeliver ==
  ASSUME Types, Requests, RoomOK, impl' = impl, Delivers
  PROVE  RoomOK'
<1>1. PICK r \in inflight : Delivers!1!(r)
  BY DEF Delivers
<1>2. r \in Request /\ check' = check
  BY DEF Delivers, Types, NetTypes
<1>3. /\ IsFiniteSet(inflight \ {r}) /\ Cardinality(inflight \ {r}) \in Nat
      /\ Cardinality(inflight \ {r}) = Cardinality(inflight) - 1
  BY OneLess DEF RoomOK
<1>4. impl = "java" => Pending <= MaxLate \/ (Pending = MaxLate + 1 /\ Due)
  BY DEF RoomOK
<1>5. CASE r.answer = "none"
  <2> DEFINE new == [r EXCEPT !.answer = IF r.kind = "query" THEN server_phase[r.server] ELSE "tokens"]
  <2>1. UNCHANGED inbox /\ inflight' \in {(inflight \ {r}) \cup {new}, inflight \ {r}}
    BY <1>1, <1>5
  <2>2. new.late = r.late
    BY <1>2 DEF Request
  <2>3. Pending' = Cardinality(inflight') + InMail
    BY <2>1 DEF Pending, InMail
  <2> HIDE DEF new
  <2>4. CASE inflight' = inflight \ {r}
    <3>1. impl = "java" => Pending' <= MaxLate
      BY <1>3, <1>4, <2>3, <2>4, Counts
    <3> QED BY <1>3, <2>4, <3>1 DEF RoomOK
  <2>5. CASE inflight' = (inflight \ {r}) \cup {new}
    <3>1. /\ IsFiniteSet(inflight') /\ Cardinality(inflight') \in Nat
          /\ Cardinality(inflight') <= Cardinality(inflight)
      BY <2>5, OneForAnother DEF RoomOK
    <3>2. Due => Due'
      BY <1>2, <2>1, <2>2, <2>5 DEF Due, Wait
    <3>3. Pending' <= Pending /\ Pending' \in Nat
      BY <2>3, <3>1, Counts
    <3>4. impl = "java" => Pending' <= MaxLate \/ (Pending' = MaxLate + 1 /\ Due')
      BY <1>4, <3>2, <3>3, Counts
    <3> QED BY <3>1, <3>4 DEF RoomOK
  <2> QED BY <2>1, <2>4, <2>5
<1>6. CASE r.answer # "none"
  <2> DEFINE new == [server |-> r.server, answer |-> r.answer]
  <2>1. inflight' = inflight \ {r}
    BY <1>1, <1>6
  <2>2. ASSUME impl = "java"
        PROVE  Pending' = Pending /\ (Due => Due')
    <3>1. r.socket = r.kind /\ r.socket # "closed" /\ r.kind \in {"query", "prepare"} /\ r.kind \in Socket
      BY <1>2, <2>2 DEF Requests, AddressOK, Sock, Then, Request, Socket
    <3>2. inbox' = [inbox EXCEPT ![r.kind] = Append(inbox[r.kind], new)]
      BY <1>1, <1>6, <3>1
    <3>3. new \in Answer
      BY <1>2, <1>6 DEF Request, Answer
    <3> HIDE DEF new
    <3>4. /\ Len(Append(inbox[r.kind], new)) = Len(inbox[r.kind]) + 1
          /\ Append(inbox[r.kind], new) # <<>>
      BY <3>1, <3>3, AppendProperties DEF Types, NetTypes
    <3>5. \A l \in Socket : inbox'[l] = IF l = r.kind THEN Append(inbox[r.kind], new) ELSE inbox[l]
      BY <3>2 DEF Types, NetTypes
    <3>6. Pending' = Pending
      <4>1. \/ Len(inbox'["query"]) = Len(inbox["query"]) + 1 /\ Len(inbox'["prepare"]) = Len(inbox["prepare"])
            \/ Len(inbox'["query"]) = Len(inbox["query"]) /\ Len(inbox'["prepare"]) = Len(inbox["prepare"]) + 1
        BY <3>1, <3>4, <3>5 DEF Socket
      <4> DEFINE n == Cardinality(inflight)
                 q == Len(inbox["query"])
                 p == Len(inbox["prepare"])
                 next == Cardinality(inflight')
                 nextq == Len(inbox'["query"])
                 nextp == Len(inbox'["prepare"])
      <4>2. Pending = n + (q + p) /\ Pending' = next + (nextq + nextp)
        BY DEF Pending, InMail
      <4>3. n \in Nat /\ q \in Nat /\ p \in Nat
        BY Counts, SocketFacts DEF Socket
      <4>4. next = n - 1
        BY <1>3, <2>1
      <4>5. (nextq = q + 1 /\ nextp = p) \/ (nextq = q /\ nextp = p + 1)
        BY <4>1
      <4> HIDE DEF n, q, p, next, nextq, nextp
      <4>6. CASE nextq = q + 1 /\ nextp = p
        BY <4>2, <4>3, <4>4, <4>6
      <4>7. CASE nextq = q /\ nextp = p + 1
        BY <4>2, <4>3, <4>4, <4>7
      <4> QED BY <4>5, <4>6, <4>7
    <3>7. Due => Due'
      <4>1. ASSUME NEW kind \in {"query", "prepare"}, check = Wait(kind), inbox[kind] # <<>>
            PROVE  Due'
        <5>1. kind \in Socket
          BY DEF Socket
        <5>2. inbox'[kind] # <<>>
          BY <3>4, <3>5, <4>1, <5>1
        <5> QED BY <1>2, <4>1, <5>2 DEF Due, Wait
      <4>2. ASSUME NEW t \in inflight, ~t.late
            PROVE  Due'
        <5>1. check = Wait(t.kind)
          BY <4>2 DEF Requests, CurrentOK
        <5>2. t.kind \in {"query", "prepare"}
          BY DEF Request, Types, NetTypes
        <5>3. CASE t = r
          <6>1. inbox'[r.kind] # <<>>
            BY <3>1, <3>4, <3>5
          <6> QED BY <1>2, <3>1, <5>1, <5>3, <6>1 DEF Due, Wait
        <5>4. CASE t # r
          BY <1>2, <2>1, <4>2, <5>1, <5>2, <5>4 DEF Due, Wait
        <5> QED BY <5>3, <5>4
      <4> QED BY <4>1, <4>2 DEF Due
    <3> QED BY <3>6, <3>7
  <2> QED BY <1>3, <1>4, <2>1, <2>2 DEF RoomOK
<1> QED BY <1>5, <1>6

\* Every step leaves room for the answers that can still come.
LEMMA RoomKept ==
  ASSUME Types, Requests, RoomOK, StepKind, impl' = impl
  PROVE  RoomOK'
<1>1. ASSUME Goes \/ Pops \/ Sends
      PROVE  RoomOK'
  <2>1. UNCHANGED <<inflight, inbox>> /\ check \notin Waits
    BY <1>1 DEF Goes, Pops, Sends, Waits, netState
  <2>2. ~Due
    BY <2>1 DEF Due, Wait, Waits
  <2> QED BY <2>1, <2>2 DEF RoomOK, Pending, InMail
<1>2. ASSUME Arrives \/ Stirs
      PROVE  RoomOK'
  <2>1. UNCHANGED <<inflight, inbox, check>>
    BY <1>2 DEF Arrives, Stirs, netState
  <2> QED BY <2>1 DEF RoomOK, Pending, InMail, Due, Wait
<1> QED BY <1>1, <1>2, RoomAsk, RoomMiss, RoomReceive, RoomDeliver DEF StepKind

\* A request is answered with a phase, so what the check thread reads when it
\* waits for a status is one.
LEMMA StatusIsPhase ==
  ASSUME Types, Requests, InboxOK, check = "query_wait", inbox[Sock("query")] # <<>>
  PROVE  Head(inbox[Sock("query")]).answer \in Phase
<1> DEFINE k == Sock("query")
<1>1. k \in Socket /\ Len(inbox[k]) \in Nat /\ Len(inbox[k]) # 0 /\ Head(inbox[k]) = inbox[k][1]
      /\ Head(inbox[k]) \in Answer
  BY SocketFacts
<1>2. 1 \in 1 .. Len(inbox[k])
  BY <1>1
<1>3. Head(inbox[k]).answer # "none"
  BY <1>1, <1>2 DEF InboxOK
<1>4. Head(inbox[k]).answer # "tokens"
  <2>1. CASE impl = "java"
    <3>1. k # "prepare"
      BY <2>1 DEF Sock
    <3> HIDE DEF k
    <3> QED BY <1>1, <1>2, <2>1, <3>1 DEF Requests, AddressOK
  <2>2. CASE impl = "python"
    <3>1. ~late /\ k = Desk
      BY <2>2 DEF Requests, AddressOK, Desk, Sock
    <3> QED BY <3>1 DEF Requests, WaitingOK
  <2> QED BY <2>1, <2>2 DEF Types
<1> QED BY <1>1, <1>3, <1>4 DEF Answer

\* What the listeners and the clients do to the connections.
LEMMA ListenersKeep ==
  ASSUME ListTypes, NEW c \in Client,
         \/ Java!Accept(c) \/ Java!ReadSearch(c) \/ Java!HandleDisconnection(c)
         \/ Java!Leave(c, "closed")
         \/ Python!Accept(c) \/ Python!ReadSearch(c) \/ Python!CloseConnection(c)
         \/ Python!Leave(c, "closed") \/ Python!Leave(c, "reset")
  PROVE  ListTypes'
BY DEF ListTypes, Java!Accept, Java!ReadSearch, Java!HandleDisconnection, Java!Leave,
   Java!clientVars, Java!queueVars, Java!checkVars, Python!Accept, Python!ReadSearch,
   Python!CloseConnection, Python!Leave, Python!clientVars,
   Python!queueVars, Python!checkVars

\* The check threads keep the types of their lists.
LEMMA ListTypesKept ==
  ASSUME ClosingOK, Types, Types', Requests, InboxOK, ListTypes, CoordinatorsNext
  PROVE  ListTypes'
<1>1. /\ check \in Waits => asked \in ServerId
      /\ check' = "pop" => match' \in [server : ServerId, of : ServerId]
      /\ check' = "send" => in_hand' \in Client
  BY DEF Types, NetTypes, HandTypes, HandsOut
<1>2. [server : ServerId, of : ServerId]
        \subseteq [server : ServerId \cup {Nobody}, of : ServerId \cup {Nobody}]
  OBVIOUS
<1>3. {"UNKNOWN", "PREPARING"} \subseteq Phase
  BY DEF Phase
<1>4. ASSUME impl = "java", Java!CheckStatus
      PROVE  ListTypes'
  <2>1. UNCHANGED <<backlog, open>>
    BY <1>4 DEF Java!CheckStatus, Java!SendQuery, Java!SendPrepare, Java!ReceiveStatus, Java!Timeout,
       Java!Matchmake, Java!NoPreparedServer, Java!ReceiveTokens, Java!Pop, Java!SendMatch, Java!Wake,
       Java!clientVars, Java!queueVars
  <2>2. server_list' \in [ServerId -> Phase]
    <3>1. CASE Java!ReceiveStatus
      <4>1. check = "query_wait" /\ inbox[Sock("query")] # <<>>
            /\ server_list' = [server_list EXCEPT ![asked] = Head(inbox[Sock("query")]).answer]
        BY <1>4, <3>1 DEF Java!ReceiveStatus, Java!Receive, Sock
      <4>2. Head(inbox[Sock("query")]).answer \in Phase
        BY <4>1, StatusIsPhase
      <4> QED BY <4>1, <4>2 DEF ListTypes
    <3>2. CASE ~Java!ReceiveStatus
      <4>1. UNCHANGED server_list
        BY <1>4, <3>2 DEF Java!CheckStatus, Java!SendQuery, Java!SendPrepare, Java!Timeout,
           Java!Matchmake, Java!NoPreparedServer, Java!ReceiveTokens, Java!Pop, Java!SendMatch,
           Java!Wake
      <4> QED BY <4>1 DEF ListTypes
    <3> QED BY <3>1, <3>2
  <2>3. todo' \subseteq ServerId /\ asked' \in ServerId \cup {Nobody}
    BY <1>4 DEF ListTypes, Java!CheckStatus, Java!SendQuery, Java!SendPrepare, Java!Ask,
       Java!ReceiveStatus, Java!Timeout, Java!Matchmake, Java!NoPreparedServer, Java!ReceiveTokens,
       Java!Pop, Java!SendMatch, Java!Wake
  <2>4. UNCHANGED match \/ check' = "pop"
    BY <1>4 DEF Java!CheckStatus, Java!SendQuery, Java!SendPrepare, Java!ReceiveStatus, Java!Timeout,
       Java!Matchmake, Java!NoPreparedServer, Java!ReceiveTokens, Java!Pop, Java!SendMatch, Java!Wake
  <2>5. UNCHANGED in_hand \/ check' = "send"
    BY <1>4 DEF Java!CheckStatus, Java!SendQuery, Java!SendPrepare, Java!ReceiveStatus, Java!Timeout,
       Java!Matchmake, Java!NoPreparedServer, Java!ReceiveTokens, Java!Pop, Java!SendMatch, Java!Wake
  <2> QED BY <1>1, <1>2, <2>1, <2>2, <2>3, <2>4, <2>5 DEF ListTypes
<1>5. ASSUME impl = "python", Python!CheckStatus
      PROVE  ListTypes'
  <2>1. UNCHANGED <<backlog, open>>
    BY <1>5 DEF Python!CheckStatus, Python!SendQuery, Python!SendPrepare, Python!ReceiveStatus,
       Python!Timeout, Python!Matchmake, Python!NoPreparedServer, Python!ReceiveTokens,
       Python!PopFirst, Python!SendMatch, Python!Wake, Python!clientVars, Python!queueVars
  <2>2. server_list' \in [ServerId -> Phase]
    <3>1. CASE Python!ReceiveStatus
      <4>1. check = "query_wait" /\ inbox[Sock("query")] # <<>>
            /\ server_list' = [server_list EXCEPT ![asked] = Head(inbox[Sock("query")]).answer]
        BY <1>5, <3>1 DEF Python!ReceiveStatus, Python!Receive, Sock
      <4>2. Head(inbox[Sock("query")]).answer \in Phase
        BY <4>1, StatusIsPhase
      <4> QED BY <4>1, <4>2 DEF ListTypes
    <3>2. CASE ~Python!ReceiveStatus
      <4>1. \/ UNCHANGED server_list
            \/ \E phase \in {"UNKNOWN", "PREPARING"} : server_list' = [server_list EXCEPT ![asked] = phase]
        BY <1>5, <3>2 DEF Python!CheckStatus, Python!SendQuery, Python!SendPrepare, Python!Timeout,
           Python!Matchmake, Python!NoPreparedServer, Python!ReceiveTokens, Python!PopFirst,
           Python!SendMatch, Python!Wake
      <4> QED BY <1>3, <4>1 DEF ListTypes
    <3> QED BY <3>1, <3>2
  <2>3. todo' \subseteq ServerId /\ asked' \in ServerId \cup {Nobody}
    BY <1>5 DEF ListTypes, Python!CheckStatus, Python!SendQuery, Python!SendPrepare, Python!Ask,
       Python!ReceiveStatus, Python!Timeout, Python!Matchmake, Python!NoPreparedServer,
       Python!ReceiveTokens, Python!PopFirst, Python!SendMatch, Python!Wake
  <2>4. UNCHANGED match \/ check' = "pop"
    BY <1>5 DEF Python!CheckStatus, Python!SendQuery, Python!SendPrepare, Python!ReceiveStatus,
       Python!Timeout, Python!Matchmake, Python!NoPreparedServer, Python!ReceiveTokens,
       Python!PopFirst, Python!SendMatch, Python!Wake
  <2>5. UNCHANGED in_hand \/ check' = "send"
    BY <1>5 DEF Python!CheckStatus, Python!SendQuery, Python!SendPrepare, Python!ReceiveStatus,
       Python!Timeout, Python!Matchmake, Python!NoPreparedServer, Python!ReceiveTokens,
       Python!PopFirst, Python!SendMatch, Python!Wake
  <2> QED BY <1>1, <1>2, <2>1, <2>2, <2>3, <2>4, <2>5 DEF ListTypes
<1>6. Java!Network \/ Python!Network => UNCHANGED <<backlog, open, server_list, todo, asked, in_hand, match>>
  BY DEF Java!Network, Java!Serve, Java!Deliver, Java!clientVars, Java!queueVars, Java!checkVars,
     Python!Network, Python!Serve, Python!Deliver, Python!clientVars, Python!queueVars, Python!checkVars
<1>7. Java!Network \/ Python!Network => ListTypes'
  BY <1>6 DEF ListTypes
<1>8. ASSUME Python!RemoveConnection
      PROVE  ListTypes'
  BY <1>8 DEF Python!RemoveConnection, Python!clientVars, Python!checkVars, ListTypes
<1>9. CASE impl = "java" /\ Java!Next
  BY <1>4, <1>7, <1>9, ListenersKeep DEF Java!Next, Java!Listen
<1>10. CASE impl = "python" /\ Python!Next
  BY <1>5, <1>7, <1>8, <1>10, ListenersKeep DEF Python!Next, Python!Listen
<1> QED BY <1>9, <1>10 DEF CoordinatorsNext

CoordinatorsTypesInv == InboxOK /\ RoomOK /\ ListTypes

\* The types hold at the start.
LEMMA InitTypes == CoordinatorsInit => CoordinatorsTypesInv
<1> SUFFICES ASSUME CoordinatorsInit
             PROVE  CoordinatorsTypesInv
  OBVIOUS
<1> USE DEF CoordinatorsInit, Init
<1>1. Len(<<>>) = 0 /\ 1 .. 0 = {} /\ \A k \in Socket : inbox[k] = <<>>
  OBVIOUS
<1>2. InboxOK
  BY <1>1 DEF InboxOK, Socket
<1>3. RoomOK
  <2>1. IsFiniteSet(inflight) /\ Cardinality(inflight) = 0
    BY FS_EmptySet
  <2>2. InMail = 0
    BY <1>1 DEF InMail, Socket
  <2> QED BY <2>1, <2>2, WorldAssumption DEF RoomOK, Pending
<1>4. ListTypes
  BY DEF ListTypes, Phase, NoMatch
<1> QED BY <1>2, <1>3, <1>4 DEF CoordinatorsTypesInv

\* Every step keeps them.
LEMMA NextTypes ==
  CoordinatorsInv /\ CoordinatorsInv' /\ CoordinatorsTypesInv /\ [CoordinatorsNext]_<<vars, impl>>
    => CoordinatorsTypesInv'
<1> SUFFICES ASSUME CoordinatorsInv, CoordinatorsInv', CoordinatorsTypesInv,
                    [CoordinatorsNext]_<<vars, impl>>
             PROVE  CoordinatorsTypesInv'
  OBVIOUS
<1> USE DEF CoordinatorsInv, CoordinatorsTypesInv
<1>1. CASE CoordinatorsNext
  <2>1. impl' = impl /\ StepKind
    BY <1>1, JavaStepKind, PythonStepKind DEF CoordinatorsNext, Types, HandTypes
  <2> QED BY <1>1, <2>1, InboxKept, RoomKept, ListTypesKept
<1>2. CASE UNCHANGED <<vars, impl>>
  BY <1>2 DEF vars, clientVars, queueVars, checkVars, netVars, InboxOK, RoomOK, Pending, InMail, Due,
     Wait, ListTypes
<1> QED BY <1>1, <1>2

\* No socket holds more than the late answers that the model allows and the
\* one that is waited for.
LEMMA MailBounded ==
  ASSUME Types, Requests, InboxOK, RoomOK
  PROVE  \A k \in Socket : Len(inbox[k]) <= MaxLate + 1
<1>1. MaxLate \in Nat /\ Len(<<>>) = 0
  BY WorldAssumption
<1>2. CASE impl = "java"
  <2> DEFINE n == Cardinality(inflight)
             q == Len(inbox["query"])
             p == Len(inbox["prepare"])
  <2>1. Pending = n + (q + p)
    BY DEF Pending, InMail
  <2>2. n \in Nat /\ q \in Nat /\ p \in Nat
    BY Counts, SocketFacts DEF Socket
  <2>3. Pending <= MaxLate \/ Pending = MaxLate + 1
    BY <1>2 DEF RoomOK
  <2> HIDE DEF n, q, p
  <2>4. q <= MaxLate + 1 /\ p <= MaxLate + 1
    BY <1>1, <2>1, <2>2, <2>3
  <2>5. Len(inbox["query"]) <= MaxLate + 1 /\ Len(inbox["prepare"]) <= MaxLate + 1
    BY <2>4 DEF q, p
  <2>6. Len(inbox["fresh"]) <= MaxLate + 1
    BY <1>1, <1>2 DEF InboxOK
  <2> QED BY <2>5, <2>6 DEF Socket
<1>3. CASE impl = "python"
  <2>1. ~late /\ Desk = "fresh"
    BY <1>3 DEF Requests, AddressOK, Desk, Sock
  <2>2. inbox["fresh"] = <<>> \/ Len(inbox["fresh"]) = 1
    BY <2>1 DEF Requests, WaitingOK
  <2>3. inbox["query"] = <<>> /\ inbox["prepare"] = <<>>
    BY <1>3 DEF InboxOK
  <2>4. ASSUME NEW k \in Socket, inbox[k] = <<>> \/ Len(inbox[k]) = 1
        PROVE  Len(inbox[k]) <= MaxLate + 1
    <3>1. Len(inbox[k]) \in {0, 1}
      BY <1>1, <2>4
    <3> DEFINE l == Len(inbox[k])
    <3> HIDE DEF l
    <3>2. l \in {0, 1} => l <= MaxLate + 1
      BY <1>1
    <3> QED BY <3>1, <3>2 DEF l
  <2> QED BY <2>2, <2>3, <2>4 DEF Socket
<1> QED BY <1>2, <1>3 DEF Types

\* Every variable of the Java and the Python coordinator has its type, and no
\* socket more to read than the late answers leave room for.
THEOREM CoordinatorsTypeCorrect == CoordinatorsSpec => []TypeOK
<1>1. CoordinatorsInv /\ CoordinatorsTypesInv => TypeOK
  <2> SUFFICES ASSUME CoordinatorsInv, CoordinatorsTypesInv
               PROVE  TypeOK
    OBVIOUS
  <2> USE DEF CoordinatorsInv, CoordinatorsTypesInv
  <2>1. /\ stage \in [Client -> {"searched", "closed", "reset"}] /\ closing \in Client \cup {Nobody}
    BY DEF ClosingOK
  <2>2. /\ unread \subseteq Client /\ queue \in Seq(Client) /\ arrivals \in Seq(Client)
        /\ check \in {"sleep", "query", "query_wait", "prepare", "prepare_wait", "pop", "send", "dead"}
        /\ seat \in {1, 2} /\ matches \in Seq([server : ServerId, of : ServerId, seat : {1, 2}, to : Client])
    BY DEF Types, HandTypes, Sent
  <2>3. /\ server_phase \in [ServerId -> Phase \ {"UNKNOWN"}] /\ late \in BOOLEAN
        /\ inflight \subseteq [kind : {"query", "prepare"}, server : ServerId,
                               socket : Socket \cup {"closed"},
                               answer : Phase \cup {"none", "tokens"}, late : BOOLEAN]
    <3>1. Phase \ {"UNKNOWN"} = {"WAITING", "PREPARING"}
      BY DEF Phase
    <3> QED BY <3>1 DEF Types, NetTypes, Request
  <2>4. \A k \in Socket : Len(inbox[k]) <= MaxLate + 1
    BY MailBounded
  <2> QED BY <2>1, <2>2, <2>3, <2>4 DEF TypeOK, ListTypes
<1>2. CoordinatorsSpec => []CoordinatorsTypesInv
  <2>1. CoordinatorsInv /\ CoordinatorsInv' /\ CoordinatorsTypesInv /\ [CoordinatorsNext]_<<vars, impl>>
          => CoordinatorsTypesInv'
    BY NextTypes
  <2> QED BY <2>1, InitTypes, CoordinatorsInvariant, PTL DEF CoordinatorsSpec
<1> QED BY <1>1, <1>2, CoordinatorsInvariant, PTL

-----------------------------------------------------------------------------
(* The rounds of the check threads end.                                    *)

\* A step of the check thread of the coordinator that runs.
Checks == (impl = "java" /\ Java!CheckStatus) \/ (impl = "python" /\ Python!CheckStatus)

\* How many steps of its own the check thread is at most from the end of its
\* round: a request and an answer for every server it has still to ask, in both
\* loops, and two steps for each token.
RoundLeft ==
  LET visits == 2 * Cardinality(todo)
  IN  CASE check = "query"        -> visits + 2 * Cardinality(ServerId) + 6
        [] check = "query_wait"   -> visits + 2 * Cardinality(ServerId) + 7
        [] check = "prepare"      -> visits + 5
        [] check = "prepare_wait" -> visits + 6
        [] check = "pop"          -> IF seat = 1 THEN 4 ELSE 2
        [] check = "send"         -> IF seat = 1 THEN 3 ELSE 1
        [] OTHER                  -> 0

\* The way of both check threads through a round.
Visits == \E s \in todo : todo' = todo \ {s}
Turns ==
  \/ check = "query" /\ check' = "query_wait" /\ Visits
  \/ check = "query_wait" /\ check' = "query" /\ todo' = todo
  \/ check = "query" /\ todo = {} /\ check' = "sleep"
  \/ check = "query" /\ todo = {} /\ check' = "prepare" /\ todo' = ServerId
  \/ check = "prepare" /\ check' \in {"prepare", "prepare_wait"} /\ Visits
  \/ check = "prepare_wait" /\ check' = "prepare" /\ todo' = todo
  \/ check = "prepare" /\ check' = "sleep"
  \/ check = "prepare_wait" /\ check' = "pop"
  \/ check = "pop" /\ check' \in {"send", "dead"} /\ seat' = seat
  \/ check = "send" /\ seat = 1 /\ check' = "pop" /\ seat' = 2
  \/ check = "send" /\ check' \in {"sleep", "dead"}

\* The Java check thread goes this way.
LEMMA JavaTurns ==
  ASSUME Java!CheckStatus, check # "sleep"
  PROVE  Turns
<1>1. ASSUME NEW s \in ServerId, Java!SendQuery(s) \/ Java!SendPrepare(s)
      PROVE  Turns
  BY <1>1 DEF Java!SendQuery, Java!SendPrepare, Turns, Visits
<1>2. CASE Java!ReceiveStatus \/ Java!Timeout \/ Java!ReceiveTokens
  BY <1>2 DEF Java!ReceiveStatus, Java!Timeout, Java!ReceiveTokens, Turns
<1>3. CASE Java!Matchmake \/ Java!NoPreparedServer \/ Java!Wake
  BY <1>3 DEF Java!Matchmake, Java!NoPreparedServer, Java!Wake, Turns
<1>4. CASE Java!Pop \/ Java!SendMatch
  BY <1>4 DEF Java!Pop, Java!SendMatch, Turns
<1> QED BY <1>1, <1>2, <1>3, <1>4 DEF Java!CheckStatus

\* So does the Python one.
LEMMA PythonTurns ==
  ASSUME Python!CheckStatus, check # "sleep"
  PROVE  Turns
<1>1. ASSUME NEW s \in ServerId, Python!SendQuery(s) \/ Python!SendPrepare(s)
      PROVE  Turns
  BY <1>1 DEF Python!SendQuery, Python!SendPrepare, Turns, Visits
<1>2. CASE Python!ReceiveStatus \/ Python!Timeout \/ Python!ReceiveTokens
  BY <1>2 DEF Python!ReceiveStatus, Python!Timeout, Python!ReceiveTokens, Turns
<1>3. CASE Python!Matchmake \/ Python!NoPreparedServer \/ Python!Wake
  BY <1>3 DEF Python!Matchmake, Python!NoPreparedServer, Python!Wake, Turns
<1>4. CASE Python!PopFirst \/ Python!SendMatch
  BY <1>4 DEF Python!PopFirst, Python!SendMatch, Turns
<1> QED BY <1>1, <1>2, <1>3, <1>4 DEF Python!CheckStatus

\* On this way the end of the round comes nearer.
LEMMA TurnsShorten ==
  ASSUME IsFiniteSet(ServerId), TypeOK, Turns
  PROVE  RoundLeft' < RoundLeft
<1> DEFINE k == Cardinality(todo)
           n == Cardinality(ServerId)
           kk == Cardinality(todo')
<1>1. IsFiniteSet(todo)
  BY FS_Subset DEF TypeOK
<1>2. /\ k \in Nat /\ n \in Nat
      /\ todo = {} => k = 0
      /\ todo' = todo => kk = k
      /\ todo' = ServerId => kk = n
  BY <1>1, FS_CardinalityType, FS_EmptySet
<1>3. Visits => kk = k - 1
  BY <1>1, FS_RemoveElement DEF Visits
<1>4. RoundLeft =
        CASE check = "query"        -> 2 * k + 2 * n + 6
          [] check = "query_wait"   -> 2 * k + 2 * n + 7
          [] check = "prepare"      -> 2 * k + 5
          [] check = "prepare_wait" -> 2 * k + 6
          [] check = "pop"          -> IF seat = 1 THEN 4 ELSE 2
          [] check = "send"         -> IF seat = 1 THEN 3 ELSE 1
          [] OTHER                  -> 0
  BY DEF RoundLeft
<1>5. RoundLeft' =
        CASE check' = "query"        -> 2 * kk + 2 * n + 6
          [] check' = "query_wait"   -> 2 * kk + 2 * n + 7
          [] check' = "prepare"      -> 2 * kk + 5
          [] check' = "prepare_wait" -> 2 * kk + 6
          [] check' = "pop"          -> IF seat' = 1 THEN 4 ELSE 2
          [] check' = "send"         -> IF seat' = 1 THEN 3 ELSE 1
          [] OTHER                   -> 0
  BY DEF RoundLeft
<1> HIDE DEF k, n, kk
<1>6. CASE check = "query"
  BY <1>2, <1>3, <1>4, <1>5, <1>6 DEF Turns
<1>7. CASE check = "query_wait"
  BY <1>2, <1>4, <1>5, <1>7 DEF Turns
<1>8. CASE check = "prepare"
  BY <1>2, <1>3, <1>4, <1>5, <1>8 DEF Turns
<1>9. CASE check = "prepare_wait"
  BY <1>2, <1>4, <1>5, <1>9 DEF Turns
<1>10. CASE check \in {"pop", "send"}
  BY <1>4, <1>5, <1>10 DEF Turns
<1> QED BY <1>6, <1>7, <1>8, <1>9, <1>10 DEF Turns

\* Nobody else makes a round longer or shorter.
LEMMA OthersLeaveRound ==
  ASSUME [CoordinatorsNext]_<<vars, impl>>, ~Checks
  PROVE  RoundLeft' = RoundLeft
<1>1. CASE Java!Listen \/ Python!Listen
  BY <1>1 DEF Java!Listen, Java!Accept, Java!ReadSearch, Java!HandleDisconnection, Java!checkVars,
     Python!Listen, Python!Accept, Python!ReadSearch, Python!CloseConnection,
     Python!RemoveConnection, Python!checkVars, RoundLeft
<1>2. CASE Java!Network \/ Python!Network
  BY <1>2 DEF Java!Network, Java!Serve, Java!Deliver, Java!checkVars,
     Python!Network, Python!Serve, Python!Deliver, Python!checkVars, RoundLeft
<1>3. ASSUME NEW c \in Client, NEW how, Java!Leave(c, how) \/ Python!Leave(c, how)
      PROVE  RoundLeft' = RoundLeft
  BY <1>3 DEF Java!Leave, Java!checkVars, Python!Leave, Python!checkVars, RoundLeft
<1>4. CASE UNCHANGED <<vars, impl>>
  BY <1>4 DEF vars, checkVars, RoundLeft
<1> QED BY <1>1, <1>2, <1>3, <1>4 DEF CoordinatorsNext, Java!Next, Python!Next, Checks

\* In the Java and the Python coordinator, too, a round of checks ends: with n
\* servers, at most 4n + 6 steps of the thread after it woke it sleeps again, or has
\* ended.  Answers that come late, or take the place of others in the Java
\* coordinator's sockets, do not make it longer.
THEOREM CoordinatorsRoundsEnd ==
  ASSUME IsFiniteSet(ServerId)
  PROVE  CoordinatorsSpec =>
           /\ [](RoundLeft \in 0 .. 4 * Cardinality(ServerId) + 7)
           /\ [][ /\ Checks /\ check # "sleep" => RoundLeft' < RoundLeft
                  /\ ~Checks => RoundLeft' = RoundLeft ]_<<vars, impl>>
<1>1. TypeOK => RoundLeft \in 0 .. 4 * Cardinality(ServerId) + 7
  <2> SUFFICES ASSUME TypeOK
               PROVE  RoundLeft \in 0 .. 4 * Cardinality(ServerId) + 7
    OBVIOUS
  <2> DEFINE k == Cardinality(todo)
             n == Cardinality(ServerId)
  <2>1. k \in Nat /\ n \in Nat /\ k <= n
    BY FS_Subset, FS_CardinalityType DEF TypeOK
  <2>2. RoundLeft \in {2 * k + 2 * n + 6, 2 * k + 2 * n + 7, 2 * k + 5, 2 * k + 6, 4, 3, 2, 1, 0}
    BY DEF RoundLeft
  <2> HIDE DEF k, n
  <2>3. {2 * k + 2 * n + 6, 2 * k + 2 * n + 7, 2 * k + 5, 2 * k + 6, 4, 3, 2, 1, 0}
          \subseteq 0 .. 4 * n + 7
    BY <2>1
  <2>4. RoundLeft \in 0 .. 4 * n + 7
    BY <2>2, <2>3
  <2> QED BY <2>4 DEF n
<1>2. TypeOK /\ [CoordinatorsNext]_<<vars, impl>> =>
        [ /\ Checks /\ check # "sleep" => RoundLeft' < RoundLeft
          /\ ~Checks => RoundLeft' = RoundLeft ]_<<vars, impl>>
  BY JavaTurns, PythonTurns, TurnsShorten, OthersLeaveRound DEF Checks
<1> QED BY <1>1, <1>2, CoordinatorsTypeCorrect, PTL DEF CoordinatorsSpec
=============================================================================
