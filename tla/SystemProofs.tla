---------------------------- MODULE SystemProofs ----------------------------
(***************************************************************************)
(* The composition, proved for any number of clients, descriptors, servers *)
(* and restarts: System implements Coordinator, its servers are MatchSeats *)
(* between restarts, the two next in the queue play each other, and what   *)
(* may keep matched clients from playing.                                  *)
(*                                                                         *)
(* Every step of System is one of Coordinator, so that what is proved in   *)
(* CoordinatorProofs holds here.  The lemmas come in three groups: what    *)
(* Coordinator alone keeps (arrivals, the pairs of Matches), what relates  *)
(* Joins, lobbies and games to Matches, and what becomes of a Match that   *)
(* was read.                                                               *)
(***************************************************************************)
EXTENDS System, CoordinatorProofs

-----------------------------------------------------------------------------
(* Coordinator alone. *)

Searched == {"searched", "closed"}  \* where a client is after its Search

\* A client searches once, and so arrives once.
ArrivedOK ==
  /\ \A c \in unread : stage[c] \in Searched
  /\ \A i \in 1 .. Len(arrivals) : stage[arrivals[i]] \in Searched /\ arrivals[i] \notin unread
  /\ NoRepeat(arrivals)

\* A step keeps the arrivals different.
LEMMA ArrivedStep ==
  ASSUME TypeOK, ArrivedOK, [Next]_vars
  PROVE  ArrivedOK'
<1> USE CoordinatorAssumption
<1>1. arrivals \in Seq(Client) /\ Len(arrivals) \in Nat
  BY LenProperties DEF TypeOK
<1>2. \A i \in 1 .. Len(arrivals) : arrivals[i] \in Client
  BY <1>1, ElementOfSeq
<1>3. ASSUME UNCHANGED <<unread, stage, arrivals>>
      PROVE  ArrivedOK'
  BY <1>3 DEF ArrivedOK, Searched, NoRepeat
<1>4. ASSUME NEW c \in Client, Connect(c) \/ SendSearch(c) \/ Close(c)
      PROVE  ArrivedOK'
  <2>1. UNCHANGED arrivals /\ unread' \subseteq unread \cup {c}
    BY <1>4 DEF Connect, SendSearch, Close, queueVars
  <2>2. \A d \in Client : stage[d] \in Searched => stage'[d] \in Searched
    BY <1>4 DEF Connect, SendSearch, Close, Searched, TypeOK
  <2>3. c \in unread' /\ c \notin unread => stage'[c] \in Searched /\ stage[c] \notin Searched
    BY <1>4 DEF Connect, SendSearch, Close, Searched, TypeOK
  <2>4. \A d \in unread' : stage'[d] \in Searched
    BY <2>1, <2>2, <2>3 DEF ArrivedOK, TypeOK
  <2>5. \A i \in 1 .. Len(arrivals) : stage'[arrivals[i]] \in Searched /\ arrivals[i] \notin unread'
    BY <1>2, <2>1, <2>2, <2>3 DEF ArrivedOK, Searched
  <2> QED BY <2>1, <2>4, <2>5 DEF ArrivedOK, NoRepeat, Searched
<1>5. ASSUME NEW fd \in Fd, ReadSearch(fd)
      PROVE  ArrivedOK'
  <2> DEFINE c == conn[fd]
  <2>1. /\ c \in unread /\ c \in Client /\ unread' = unread \ {c} /\ UNCHANGED stage
        /\ arrivals' = Append(arrivals, c)
    BY <1>5 DEF ReadSearch, TypeOK
  <2> HIDE DEF c
  <2>2. /\ Len(arrivals') = Len(arrivals) + 1 /\ arrivals'[Len(arrivals) + 1] = c
        /\ \A i \in 1 .. Len(arrivals) : arrivals'[i] = arrivals[i]
    BY <1>1, <2>1, AppendProperties
  <2>3. \A i \in 1 .. Len(arrivals) : arrivals[i] # c
    BY <2>1 DEF ArrivedOK
  <2>4. \A d \in unread' : stage'[d] \in Searched
    BY <2>1 DEF ArrivedOK, Searched
  <2>5. ASSUME NEW i \in 1 .. Len(arrivals')
        PROVE  stage'[arrivals'[i]] \in Searched /\ arrivals'[i] \notin unread'
    <3>1. CASE i = Len(arrivals) + 1
      BY <3>1, <2>1, <2>2 DEF ArrivedOK, Searched
    <3>2. CASE i \in 1 .. Len(arrivals)
      BY <3>2, <2>1, <2>2 DEF ArrivedOK, Searched
    <3> QED BY <3>1, <3>2, <2>2, <1>1
  <2>6. NoRepeat(arrivals')
    <3> SUFFICES ASSUME NEW a \in 1 .. Len(arrivals'), NEW b \in 1 .. Len(arrivals'),
                        arrivals'[a] = arrivals'[b]
                 PROVE  a = b
      BY DEF NoRepeat
    <3>1. CASE a \in 1 .. Len(arrivals) /\ b \in 1 .. Len(arrivals)
      BY <3>1, <2>2 DEF ArrivedOK, NoRepeat
    <3>2. CASE a = Len(arrivals) + 1
      BY <3>2, <2>2, <2>3, <1>1
    <3>3. CASE b = Len(arrivals) + 1
      BY <3>3, <2>2, <2>3, <1>1
    <3> QED BY <3>1, <3>2, <3>3, <2>2, <1>1
  <2> QED BY <2>4, <2>5, <2>6 DEF ArrivedOK, NoRepeat, Searched
<1>6. ASSUME Listener
      PROVE  ArrivedOK'
  BY <1>3, <1>5, <1>6 DEF Listener, Accept, CloseSocket, EraseSearching, EraseClient, clientVars
<1>7. ASSUME CheckThread
      PROVE  UNCHANGED <<unread, stage, arrivals>>
  BY <1>7 DEF CheckThread, Wake, SendQuery, ReceiveStatus, Matchmake, SendPrepare,
    NoPreparedServer, ReceiveTokens, Timeout, ReadFront, PopFront, SendMatch,
    queueVars, clientVars
<1>8. ASSUME Answer \/ \E s \in ServerId : LatePrepare(s) \/ MatchStarts(s) \/ Restart(s)
      PROVE  UNCHANGED <<unread, stage, arrivals>>
  BY <1>8 DEF Answer, ServeQuery, ServePrepare, LatePrepare, MatchStarts, Restart,
    queueVars, clientVars
<1>9. UNCHANGED vars => UNCHANGED <<unread, stage, arrivals>>
  BY DEF vars, queueVars, clientVars
<1> QED BY <1>3, <1>4, <1>6, <1>7, <1>8, <1>9 DEF Next, Environment

\* Matches are sent by one action only.
LEMMA OnlySendMatch ==
  ASSUME [Next]_vars
  PROVE  UNCHANGED matches \/ SendMatch
<1>1. ASSUME Listener
      PROVE  UNCHANGED matches
  BY <1>1 DEF Listener, Accept, ReadSearch, CloseSocket, EraseSearching, EraseClient, checkVars
<1>2. ASSUME CheckThread
      PROVE  UNCHANGED matches \/ SendMatch
  BY <1>2 DEF CheckThread, Wake, SendQuery, ReceiveStatus, Matchmake, SendPrepare,
    NoPreparedServer, ReceiveTokens, Timeout, ReadFront, PopFront
<1>3. ASSUME Environment
      PROVE  UNCHANGED matches
  BY <1>3 DEF Environment, Connect, SendSearch, Close, Answer, ServeQuery, ServePrepare,
    LatePrepare, MatchStarts, Restart, checkVars
<1> QED BY <1>1, <1>2, <1>3 DEF Next, vars, checkVars

SameMatch(m, n) == m.server = n.server /\ m.epoch = n.epoch

\* The i-th Match is of the first seat at an odd place, or of the second one
\* after the first one of the same server process.
Paired(q, i) ==
  /\ q[i].seat = 1 => \E k \in Nat : i = 2 * k + 1
  /\ q[i].seat = 2 => i > 1 /\ q[i - 1].seat = 1 /\ SameMatch(q[i - 1], q[i])

\* The Matches come in pairs, of which the last one may be half sent.
PairsOK ==
  /\ \A i \in 1 .. Len(matches) : Paired(matches, i)
  /\ seat = 1 => \E k \in Nat : Len(matches) = 2 * k
  /\ seat = 2 =>
       /\ HandingOut \/ ~Running
       /\ Len(matches) > 0
       /\ matches[Len(matches)].seat = 1 /\ SameMatch(matches[Len(matches)], match)

\* A step keeps them paired.
LEMMA PairsStep ==
  ASSUME TypeOK, ControlOK, PairsOK, [Next]_vars
  PROVE  PairsOK'
<1> USE CoordinatorAssumption
<1>1. CASE SendMatch
  <2> DEFINE n == Len(matches)
  <2>1. /\ n \in Nat /\ Len(matches') = n + 1
        /\ \A i \in 1 .. n : matches'[i] = matches[i]
        /\ matches'[n + 1].seat = seat
        /\ SameMatch(matches'[n + 1], match)
    BY <1>1, MatchIsAppended DEF SameMatch
  <2>2. /\ UNCHANGED match /\ check = "send" /\ seat \in {1, 2}
        /\ seat = 1 => seat' = 2 /\ check' = "front"
        /\ seat = 2 => seat' = 1
    BY <1>1 DEF SendMatch, TypeOK
  <2> HIDE DEF n
  <2>3. ASSUME NEW i \in 1 .. n
        PROVE  Paired(matches', i)
    <3>1. i \in Nat /\ (i > 1 => i - 1 \in 1 .. n)
      BY <2>1
    <3>2. Paired(matches, i)
      BY DEF PairsOK, n
    <3> QED BY <3>1, <3>2, <2>1 DEF Paired
  <2>4. ASSUME Paired(matches', n + 1)
        PROVE  \A i \in 1 .. Len(matches') : Paired(matches', i)
    <3>1. \A i \in 1 .. Len(matches') : i \in 1 .. n \/ i = n + 1
      BY <2>1
    <3> QED BY <3>1, <2>3, <2>4
  <2>5. CASE seat = 1
    <3>1. PICK k \in Nat : n = 2 * k
      BY <2>5 DEF PairsOK, n
    <3>2. n + 1 = 2 * k + 1
      BY <3>1
    <3>3. Paired(matches', n + 1)
      BY <2>1, <2>5, <3>2 DEF Paired
    <3>4. HandingOut'
      BY <2>2, <2>5 DEF HandingOut
    <3>5. Len(matches') > 0 /\ matches'[Len(matches')].seat = 1
          /\ SameMatch(matches'[Len(matches')], match')
      BY <2>1, <2>2, <2>5
    <3> QED BY <2>2, <2>4, <2>5, <3>3, <3>4, <3>5 DEF PairsOK
  <2>6. CASE seat = 2
    <3>1. n > 0 /\ n \in 1 .. n /\ matches[n].seat = 1 /\ SameMatch(matches[n], match)
      BY <2>1, <2>6 DEF PairsOK, n
    <3>2. Paired(matches, n)
      BY <3>1 DEF PairsOK, n
    <3>3. PICK k \in Nat : n = 2 * k + 1
      BY <3>1, <3>2 DEF Paired
    <3>4. Len(matches') = 2 * (k + 1) /\ k + 1 \in Nat
      BY <2>1, <3>3
    <3>5. matches'[n].seat = 1 /\ SameMatch(matches'[n], matches'[n + 1])
      BY <2>1, <3>1 DEF SameMatch
    <3>6. n + 1 > 1 /\ (n + 1) - 1 = n
      BY <2>1, <3>1
    <3>7. Paired(matches', n + 1)
      BY <2>1, <2>6, <3>5, <3>6 DEF Paired
    <3>8. \E l \in Nat : Len(matches') = 2 * l
      BY <3>4
    <3> QED BY <2>2, <2>4, <2>6, <3>7, <3>8 DEF PairsOK
  <2> QED BY <2>2, <2>5, <2>6
<1>2. CASE UNCHANGED <<matches, seat, match>> /\ (HandingOut \/ ~Running => HandingOut' \/ ~Running')
  BY <1>2 DEF PairsOK
<1>3. CASE ReceiveTokens
  <2>1. seat' = 1 /\ UNCHANGED matches /\ seat = 1
    BY <1>3 DEF ReceiveTokens, PairsOK, HandingOut, Running, TypeOK
  <2>2. \A i \in 1 .. Len(matches') : Paired(matches', i)
    BY <2>1 DEF PairsOK
  <2>3. \E k \in Nat : Len(matches') = 2 * k
    BY <2>1 DEF PairsOK
  <2> QED BY <2>1, <2>2, <2>3 DEF PairsOK
<1>4. CASE Wake \/ (\E s \in ServerId : SendQuery(s) \/ SendPrepare(s))
           \/ ReceiveStatus \/ Matchmake \/ NoPreparedServer \/ Timeout \/ ReadFront \/ PopFront
  BY <1>2, <1>4 DEF Wake, SendQuery, ReceiveStatus, Matchmake, SendPrepare, NoPreparedServer,
    Timeout, ReadFront, PopFront, HandingOut, Running
<1>5. CASE Listener \/ Environment \/ UNCHANGED vars
  <2>1. UNCHANGED <<matches, seat, match, check>>
    BY <1>5 DEF Listener, Accept, ReadSearch, CloseSocket, EraseSearching,
      EraseClient, Environment, Connect, SendSearch,
      Close, Answer, ServeQuery, ServePrepare, LatePrepare, MatchStarts, Restart, vars, checkVars
  <2> QED BY <2>1, <1>2 DEF HandingOut, Running
<1> QED BY <1>1, <1>3, <1>4, <1>5 DEF Next, CheckThread

-----------------------------------------------------------------------------
(* Joins, lobbies and games stand for Matches that were sent. *)

\* Among the Matches q is one of seat n of process e of server s, to client c.
Given(q, s, e, n, c) ==
  \E i \in 1 .. Len(q) : q[i].server = s /\ q[i].epoch = e /\ q[i].seat = n /\ q[i].to = c

JoinMessage == [server : ServerId, epoch : 0 .. MaxEpoch, seat : {1, 2}, from : Client]
Game == [server : ServerId, epoch : 0 .. MaxEpoch, players : [{1, 2} -> Client]]

PlayTypeOK ==
  /\ read \subseteq 1 .. Len(matches)
  /\ joins \subseteq JoinMessage
  /\ lobby \in [ServerId -> [{1, 2} -> Client \cup {Nobody}]]
  /\ games \subseteq Game

\* Nobody joins or plays without a Match of his own.
GivenOK ==
  /\ \A j \in joins : Given(matches, j.server, j.epoch, j.seat, j.from)
  /\ \A s \in ServerId, n \in {1, 2} :
       lobby[s][n] # Nobody => Given(matches, s, epoch[s], n, lobby[s][n])
  /\ \A g \in games, n \in {1, 2} : Given(matches, g.server, g.epoch, n, g.players[n])

\* A Match that was sent stays sent.
LEMMA MatchesStay ==
  ASSUME TypeOK, ControlOK, [Next]_vars
  PROVE  /\ Len(matches) \in Nat /\ Len(matches') \in Nat /\ Len(matches) <= Len(matches')
         /\ \A i \in 1 .. Len(matches) : matches[i] \in MatchMessage /\ matches'[i] = matches[i]
         /\ \A s, e, n, c : Given(matches, s, e, n, c) => Given(matches', s, e, n, c)
<1>1. /\ Len(matches) \in Nat /\ Len(matches') \in Nat /\ Len(matches) <= Len(matches')
      /\ \A i \in 1 .. Len(matches) : matches[i] \in MatchMessage /\ matches'[i] = matches[i]
  <2>1. matches \in Seq(MatchMessage)
    BY DEF TypeOK, MatchMessage
  <2>2. Len(matches) \in Nat /\ \A i \in 1 .. Len(matches) : matches[i] \in MatchMessage
    BY <2>1, LenProperties, ElementOfSeq
  <2>3. CASE UNCHANGED matches
    BY <2>2, <2>3
  <2>4. CASE SendMatch
    BY <2>2, <2>4, MatchIsAppended
  <2> QED BY <2>3, <2>4, OnlySendMatch
<1>2. ASSUME NEW s, NEW e, NEW n, NEW c, Given(matches, s, e, n, c)
      PROVE  Given(matches', s, e, n, c)
  <2>1. PICK i \in 1 .. Len(matches) :
          matches[i].server = s /\ matches[i].epoch = e /\ matches[i].seat = n /\ matches[i].to = c
    BY <1>2 DEF Given
  <2>2. i \in 1 .. Len(matches') /\ matches'[i] = matches[i]
    BY <1>1
  <2> QED BY <2>1, <2>2 DEF Given
<1> QED BY <1>1, <1>2

\* The coordinator and its surroundings leave the players alone, and no process
\* is restarted unnoticed.
LEMMA CoordinateKeeps ==
  ASSUME Coordinate
  PROVE  UNCHANGED <<playVars, epoch>> /\ [Next]_vars
<1>1. ASSUME Listener
      PROVE  UNCHANGED epoch
  BY <1>1 DEF Listener, Accept, ReadSearch, CloseSocket, EraseSearching, EraseClient, serverVars
<1>2. ASSUME CheckThread
      PROVE  UNCHANGED epoch
  BY <1>2 DEF CheckThread, Wake, SendQuery, ReceiveStatus, Matchmake, SendPrepare,
    NoPreparedServer, ReceiveTokens, Timeout, ReadFront, PopFront, SendMatch, serverVars
<1>3. ASSUME Answer \/ (\E s \in ServerId : LatePrepare(s))
              \/ \E c \in Client : Connect(c) \/ SendSearch(c) \/ Close(c)
      PROVE  UNCHANGED epoch
  BY <1>3 DEF Answer, ServeQuery, ServePrepare, LatePrepare, Connect, SendSearch, Close, serverVars
<1>4. Next
  BY DEF Coordinate, Next, Environment
<1> QED BY <1>1, <1>2, <1>3, <1>4 DEF Coordinate

\* A Join that fills the lobby is Coordinator's MatchStarts, another one is no
\* step of its.
LEMMA JoinStarts ==
  ASSUME TypeOK, PlayTypeOK, GivenOK, NEW j \in joins, Join(j)
  PROVE  [Next]_vars
<1> USE CoordinatorAssumption
<1> DEFINE s == j.server
<1>1. /\ j \in JoinMessage /\ s \in ServerId /\ j.seat \in {1, 2} /\ j.from \in Client
      /\ server_phase[s] = "PREPARING" /\ epoch[s] = j.epoch
      /\ lobby' = [lobby EXCEPT ![s] = [lobby[s] EXCEPT ![j.seat] = j.from]]
      /\ UNCHANGED <<epoch, late, troubled, queueVars, clientVars, checkVars>>
  BY DEF Join, Valid, Seated, PlayTypeOK, JoinMessage
<1> HIDE DEF s
<1>2. CASE Nobody \in {lobby'[s][n] : n \in {1, 2}}
  <2>1. UNCHANGED server_phase
    BY <1>2 DEF Join, s
  <2> QED BY <1>1, <2>1 DEF vars, serverVars
<1>3. CASE Nobody \notin {lobby'[s][n] : n \in {1, 2}}
  <2>1. server_phase' = [server_phase EXCEPT ![s] = "STARTED"]
    BY <1>3 DEF Join, s
  <2>2. ASSUME NEW n \in {1, 2}
        PROVE  \E i \in 1 .. Len(matches) :
                 /\ matches[i].server = s /\ matches[i].epoch = epoch[s] /\ matches[i].seat = n
                 /\ matches[i].to # Nobody
    <3>1. CASE n = j.seat
      <4>1. Given(matches, s, epoch[s], n, j.from)
        BY <1>1, <3>1 DEF GivenOK, s
      <4> QED BY <1>1, <4>1 DEF Given
    <3>2. CASE n # j.seat
      <4>1. lobby'[s][n] = lobby[s][n] /\ lobby[s][n] # Nobody
        BY <1>1, <1>3, <3>2 DEF PlayTypeOK
      <4>2. Given(matches, s, epoch[s], n, lobby[s][n])
        BY <1>1, <4>1 DEF GivenOK
      <4> QED BY <4>1, <4>2 DEF Given
    <3> QED BY <3>1, <3>2
  <2>3. MatchStarts(s)
    BY <1>1, <2>1, <2>2 DEF MatchStarts
  <2> QED BY <1>1, <2>3 DEF Next, Environment
<1> QED BY <1>2, <1>3

\* Every step of the composition is a step of Coordinator or leaves it alone.
LEMMA StepImplements ==
  ASSUME TypeOK, PlayTypeOK, GivenOK, [SystemNext]_<<vars, playVars>>
  PROVE  [Next]_vars
<1>1. ASSUME SomeRead
      PROVE  UNCHANGED vars
  BY <1>1 DEF SomeRead, ReadMatch
<1>2. ASSUME NEW j \in joins, LoseJoin(j) \/ IgnoreJoin(j)
      PROVE  UNCHANGED vars
  BY <1>2 DEF LoseJoin, IgnoreJoin
<1>3. ASSUME NEW s \in ServerId, RestartServer(s)
      PROVE  Next
  BY <1>3 DEF RestartServer, Next, Environment
<1> QED BY <1>1, <1>2, <1>3, CoordinateKeeps, JoinStarts DEF SystemNext, SomeJoin

\* The types of the players' variables are kept.
LEMMA PlayTypeStep ==
  ASSUME TypeOK, ControlOK, PlayTypeOK, [Next]_vars, [SystemNext]_<<vars, playVars>>
  PROVE  PlayTypeOK'
<1> USE CoordinatorAssumption
<1>1. /\ Len(matches) \in Nat /\ Len(matches') \in Nat /\ Len(matches) <= Len(matches')
      /\ \A i \in 1 .. Len(matches) : matches[i] \in MatchMessage
  BY MatchesStay
<1>2. 1 .. Len(matches) \subseteq 1 .. Len(matches')
  BY <1>1
<1>3. ASSUME UNCHANGED playVars
      PROVE  PlayTypeOK'
  BY <1>2, <1>3 DEF playVars, PlayTypeOK
<1>4. ASSUME NEW i \in 1 .. Len(matches), ReadMatch(i)
      PROVE  PlayTypeOK'
  <2> DEFINE m == matches[i]
             j == [server |-> m.server, epoch |-> m.epoch, seat |-> m.seat, from |-> m.to]
  <2>1. /\ m.to # Nobody /\ joins' = joins \cup {j} /\ read' = read \cup {i}
        /\ UNCHANGED <<lobby, games, matches>>
    BY <1>4 DEF ReadMatch, vars, checkVars
  <2>2. m \in MatchMessage
    BY <1>1
  <2>3. j \in JoinMessage
    BY <2>1, <2>2 DEF MatchMessage, JoinMessage
  <2> HIDE DEF j
  <2> QED BY <2>1, <2>3 DEF PlayTypeOK
<1>5. ASSUME NEW j \in joins, LoseJoin(j) \/ IgnoreJoin(j)
      PROVE  PlayTypeOK'
  BY <1>2, <1>5 DEF LoseJoin, IgnoreJoin, PlayTypeOK
<1>6. ASSUME NEW j \in joins, Join(j)
      PROVE  PlayTypeOK'
  <2>1. /\ j \in JoinMessage /\ joins' \subseteq joins /\ UNCHANGED <<read, matches>>
        /\ lobby' = [lobby EXCEPT ![j.server] = [lobby[j.server] EXCEPT ![j.seat] = j.from]]
    BY <1>6 DEF Join, Seated, PlayTypeOK, checkVars
  <2>2. lobby' \in [ServerId -> [{1, 2} -> Client \cup {Nobody}]]
    BY <2>1 DEF PlayTypeOK, JoinMessage
  <2>3. games' \subseteq Game
    <3>1. CASE UNCHANGED games
      BY <3>1 DEF PlayTypeOK
    <3>2. CASE Nobody \notin {lobby'[j.server][n] : n \in {1, 2}}
      <4>1. games' = games \cup {[server |-> j.server, epoch |-> j.epoch, players |-> lobby'[j.server]]}
        BY <1>6, <3>2 DEF Join
      <4>2. lobby'[j.server] \in [{1, 2} -> Client \cup {Nobody}]
        BY <2>1, <2>2 DEF JoinMessage
      <4>3. lobby'[j.server] \in [{1, 2} -> Client]
        BY <4>2, <3>2
      <4> QED BY <4>1, <4>3, <2>1 DEF PlayTypeOK, JoinMessage, Game
    <3> QED BY <1>6, <3>1, <3>2 DEF Join
  <2> QED BY <2>1, <2>2, <2>3 DEF PlayTypeOK
<1>7. ASSUME NEW s \in ServerId, RestartServer(s)
      PROVE  PlayTypeOK'
  <2>1. UNCHANGED <<read, joins, games>> /\ lobby' = [lobby EXCEPT ![s] = Empty]
    BY <1>7 DEF RestartServer
  <2> QED BY <1>2, <2>1 DEF PlayTypeOK, Empty
<1> QED BY <1>3, <1>4, <1>5, <1>6, <1>7, CoordinateKeeps DEF SystemNext, SomeRead, SomeJoin

\* A step lets nobody join or play without a Match.
LEMMA GivenStep ==
  ASSUME TypeOK, ControlOK, PlayTypeOK, GivenOK, [Next]_vars, [SystemNext]_<<vars, playVars>>
  PROVE  GivenOK'
<1> USE CoordinatorAssumption
<1>1. \A s, e, n, c : Given(matches, s, e, n, c) => Given(matches', s, e, n, c)
  BY MatchesStay
<1>2. ASSUME UNCHANGED epoch, joins' \subseteq joins, UNCHANGED <<lobby, games>>
      PROVE  GivenOK'
  BY <1>1, <1>2 DEF GivenOK
<1>3. ASSUME NEW i \in 1 .. Len(matches), ReadMatch(i)
      PROVE  GivenOK'
  <2> DEFINE m == matches[i]
             j == [server |-> m.server, epoch |-> m.epoch, seat |-> m.seat, from |-> m.to]
  <2>1. joins' = joins \cup {j} /\ UNCHANGED <<lobby, games, epoch>>
    BY <1>3 DEF ReadMatch, vars, serverVars
  <2>2. Given(matches, j.server, j.epoch, j.seat, j.from)
    BY DEF Given
  <2> HIDE DEF j
  <2> QED BY <1>1, <2>1, <2>2 DEF GivenOK
<1>4. ASSUME NEW j \in joins, Join(j)
      PROVE  GivenOK'
  <2> DEFINE s == j.server
  <2>1. /\ s \in ServerId /\ j.seat \in {1, 2} /\ epoch[s] = j.epoch
        /\ joins' \subseteq joins /\ UNCHANGED epoch
        /\ lobby' = [lobby EXCEPT ![s] = [lobby[s] EXCEPT ![j.seat] = j.from]]
    BY <1>4 DEF Join, Valid, Seated, PlayTypeOK, JoinMessage
  <2>2. ASSUME NEW g \in games', g \notin games
        PROVE  g.server = s /\ g.epoch = epoch[s] /\ g.players = lobby'[s]
               /\ \A n \in {1, 2} : g.players[n] # Nobody
    BY <1>4, <2>1, <2>2 DEF Join, s
  <2> HIDE DEF s
  <2>3. ASSUME NEW r \in ServerId, NEW n \in {1, 2}, lobby'[r][n] # Nobody
        PROVE  Given(matches', r, epoch[r], n, lobby'[r][n])
    <3>1. CASE r = s /\ n = j.seat
      <4>1. lobby'[r][n] = j.from
        BY <2>1, <3>1 DEF PlayTypeOK
      <4>2. Given(matches, s, epoch[s], j.seat, j.from)
        BY <2>1 DEF GivenOK, s
      <4> QED BY <1>1, <3>1, <4>1, <4>2
    <3>2. CASE ~(r = s /\ n = j.seat)
      <4>1. lobby'[r][n] = lobby[r][n]
        BY <2>1, <3>2 DEF PlayTypeOK
      <4> QED BY <1>1, <2>3, <4>1 DEF GivenOK
    <3> QED BY <3>1, <3>2
  <2>4. ASSUME NEW g \in games', NEW n \in {1, 2}
        PROVE  Given(matches', g.server, g.epoch, n, g.players[n])
    <3>1. CASE g \in games
      BY <1>1, <3>1 DEF GivenOK
    <3>2. CASE g \notin games
      BY <2>1, <2>2, <2>3, <3>2
    <3> QED BY <3>1, <3>2
  <2>5. \A k \in joins' : Given(matches', k.server, k.epoch, k.seat, k.from)
    BY <1>1, <2>1 DEF GivenOK
  <2> QED BY <2>1, <2>3, <2>4, <2>5 DEF GivenOK
<1>5. ASSUME NEW s \in ServerId, RestartServer(s)
      PROVE  GivenOK'
  <2>1. /\ UNCHANGED <<joins, games>> /\ lobby' = [lobby EXCEPT ![s] = Empty]
        /\ epoch' = [epoch EXCEPT ![s] = epoch[s] + 1]
    BY <1>5 DEF RestartServer, Restart
  <2>2. ASSUME NEW r \in ServerId, NEW n \in {1, 2}, lobby'[r][n] # Nobody
        PROVE  Given(matches', r, epoch'[r], n, lobby'[r][n])
    <3>1. r # s
      BY <2>1, <2>2 DEF Empty, PlayTypeOK
    <3>2. lobby'[r][n] = lobby[r][n] /\ epoch'[r] = epoch[r]
      BY <2>1, <3>1 DEF PlayTypeOK, TypeOK
    <3> QED BY <1>1, <2>2, <3>2 DEF GivenOK
  <2> QED BY <1>1, <2>1, <2>2 DEF GivenOK
<1>6. ASSUME Coordinate \/ UNCHANGED <<vars, playVars>>
             \/ \E j \in joins : LoseJoin(j) \/ IgnoreJoin(j)
      PROVE  GivenOK'
  <2>1. UNCHANGED epoch /\ joins' \subseteq joins /\ UNCHANGED <<lobby, games>>
    BY <1>6, CoordinateKeeps DEF LoseJoin, IgnoreJoin, vars, serverVars, playVars
  <2> QED BY <1>2, <2>1
<1> QED BY <1>3, <1>4, <1>5, <1>6 DEF SystemNext, SomeRead, SomeJoin

-----------------------------------------------------------------------------
(* What becomes of a server that gave its tokens out, and of a Match that  *)
(* was read.                                                               *)

\* A game of process e of server s has started.
Playing(s, e) == \E g \in games : g.server = s /\ g.epoch = e

\* The tokens of the process that runs are on their way or were sent.
Promised(s) ==
  \/ \E i \in 1 .. Len(matches) : matches[i].server = s /\ matches[i].epoch = epoch[s]
  \/ HandingOut /\ match.server = s /\ match.epoch = epoch[s]
  \/ /\ request.kind = "prepare" /\ request.answer = "tokens"
     /\ request.server = s /\ request.epoch = epoch[s]

\* Such a server waits for its players or they play, and play once both joined.
PromiseOK ==
  \A s \in ServerId :
    /\ Promised(s) => server_phase[s] = "PREPARING" \/ Playing(s, epoch[s])
    /\ lobby[s][1] # Nobody /\ lobby[s][2] # Nobody => Playing(s, epoch[s])

\* The coordinator's side leaves a server PREPARING, and promises nothing of
\* another one.
LEMMA PromiseStays ==
  ASSUME TypeOK, ControlOK, Coordinate, NEW s \in ServerId
  PROVE  /\ server_phase[s] = "PREPARING" => server_phase'[s] = "PREPARING"
         /\ Promised(s)' => Promised(s) \/ server_phase'[s] = "PREPARING"
<1> USE CoordinatorAssumption
<1> DEFINE goal == /\ server_phase[s] = "PREPARING" => server_phase'[s] = "PREPARING"
                   /\ Promised(s)' => Promised(s) \/ server_phase'[s] = "PREPARING"
<1>1. UNCHANGED epoch
  BY CoordinateKeeps
<1>2. ASSUME UNCHANGED <<server_phase, matches, match>>,
             HandingOut' => HandingOut, request' = request \/ request'.answer # "tokens"
      PROVE  goal
  BY <1>1, <1>2 DEF Promised
<1>3. ASSUME Listener \/ \E c \in Client : Connect(c) \/ SendSearch(c) \/ Close(c)
      PROVE  goal
  <2>1. UNCHANGED <<server_phase, matches, match, check, request>>
    BY <1>3 DEF Listener, Accept, ReadSearch, CloseSocket, EraseSearching,
      EraseClient, Connect, SendSearch, Close,
      checkVars, serverVars
  <2> QED BY <2>1, <1>2 DEF HandingOut
<1>4. ASSUME Wake \/ Matchmake \/ NoPreparedServer \/ ReadFront \/ PopFront
      PROVE  goal
  <2>1. UNCHANGED <<server_phase, matches, match, request>> /\ (HandingOut' => HandingOut)
    BY <1>4 DEF Wake, Matchmake, NoPreparedServer, ReadFront, PopFront, serverVars, HandingOut
  <2> QED BY <2>1, <1>2
<1>5. ASSUME (\E r \in ServerId : SendQuery(r) \/ SendPrepare(r)) \/ ReceiveStatus \/ Timeout
      PROVE  goal
  <2>1. /\ UNCHANGED <<server_phase, matches, match>> /\ (HandingOut' => HandingOut)
        /\ request' = request \/ request'.answer = "none" \/ request' = NoRequest
    BY <1>5 DEF SendQuery, SendPrepare, Send, ReceiveStatus, Timeout, serverVars, HandingOut
  <2>2. CASE request' = NoRequest
    BY <2>1, <2>2, <1>1 DEF Promised, NoRequest
  <2> QED BY <2>1, <2>2, <1>2
<1>6. ASSUME ReceiveTokens
      PROVE  goal
  <2>1. /\ request.kind = "prepare" /\ request.answer = "tokens"
        /\ match' = [server |-> request.server, epoch |-> request.epoch]
        /\ request' = NoRequest /\ UNCHANGED <<server_phase, matches>>
    BY <1>6 DEF ReceiveTokens, serverVars, ControlOK
  <2> QED BY <2>1, <1>1 DEF Promised, NoRequest
<1>7. ASSUME SendMatch
      PROVE  goal
  <2>1. /\ check = "send" /\ UNCHANGED <<match, request, server_phase>>
    BY <1>7 DEF SendMatch, serverVars
  <2>2. ASSUME NEW i \in 1 .. Len(matches'), matches'[i].server = s, matches'[i].epoch = epoch[s]
        PROVE  Promised(s)
    <3>1. CASE i \in 1 .. Len(matches)
      <4>1. matches'[i] = matches[i]
        BY <1>7, <3>1, MatchIsAppended
      <4> QED BY <4>1, <3>1, <2>2 DEF Promised
    <3>2. CASE i = Len(matches) + 1
      <4>1. matches'[i].server = match.server /\ matches'[i].epoch = match.epoch
        BY <1>7, <3>2, MatchIsAppended
      <4> QED BY <4>1, <2>1, <2>2 DEF Promised, HandingOut
    <3>3. i \in 1 .. Len(matches) \/ i = Len(matches) + 1
      BY <1>7, MatchIsAppended
    <3> QED BY <3>1, <3>2, <3>3
  <2>3. HandingOut
    BY <2>1 DEF HandingOut
  <2> QED BY <2>1, <2>2, <2>3, <1>1 DEF Promised
<1>8. ASSUME ServeQuery
      PROVE  goal
  <2>1. request'.kind = "query" /\ UNCHANGED <<server_phase, matches, match, check>>
    BY <1>8 DEF ServeQuery, serverVars, TypeOK, NoRequest
  <2> QED BY <2>1, <1>1 DEF Promised, HandingOut
<1>9. ASSUME ServePrepare
      PROVE  goal
  <2>1. /\ request.server \in ServerId
        /\ server_phase' = [server_phase EXCEPT ![request.server] =
                              IF @ = "WAITING" THEN "PREPARING" ELSE @]
        /\ request'.server = request.server
        /\ request'.answer = "tokens" => server_phase[request.server] = "WAITING"
        /\ UNCHANGED <<matches, match, check>>
    BY <1>9 DEF ServePrepare, Prepared, TypeOK, NoRequest
  <2>2. server_phase[s] = "PREPARING" => server_phase'[s] = "PREPARING"
    BY <2>1 DEF TypeOK
  <2>3. request'.server = s /\ request'.answer = "tokens" => server_phase'[s] = "PREPARING"
    BY <2>1 DEF TypeOK
  <2> QED BY <2>1, <2>2, <2>3, <1>1 DEF Promised, HandingOut
<1>10. ASSUME NEW r \in ServerId, LatePrepare(r)
       PROVE  goal
  <2>1. /\ server_phase' = [server_phase EXCEPT ![r] = IF @ = "WAITING" THEN "PREPARING" ELSE @]
        /\ UNCHANGED <<matches, match, check, request>>
    BY <1>10 DEF LatePrepare, Prepared, checkVars
  <2>2. server_phase[s] = "PREPARING" => server_phase'[s] = "PREPARING"
    BY <2>1 DEF TypeOK
  <2> QED BY <2>1, <2>2, <1>1 DEF Promised, HandingOut
<1> QED
  BY <1>3, <1>4, <1>5, <1>6, <1>7, <1>8, <1>9, <1>10 DEF Coordinate, CheckThread, Answer

\* A process that is restarted has promised nothing yet.
LEMMA RestartPromises ==
  ASSUME TypeOK, ControlOK, SeatsOK, NEW s \in ServerId, RestartServer(s)
  PROVE  /\ ~Promised(s)'
         /\ \A r \in ServerId \ {s} :
              /\ Promised(r)' => Promised(r)
              /\ server_phase'[r] = server_phase[r] /\ epoch'[r] = epoch[r]
<1>1. /\ epoch' = [epoch EXCEPT ![s] = epoch[s] + 1]
      /\ server_phase' = [server_phase EXCEPT ![s] = "WAITING"]
      /\ UNCHANGED <<matches, match, check, request>>
  BY DEF RestartServer, Restart, checkVars
<1>2. epoch'[s] = epoch[s] + 1 /\ epoch[s] \in Nat
  BY <1>1, CoordinatorAssumption DEF TypeOK
<1>3. ASSUME NEW e, Spent(s, e)
      PROVE  e # epoch'[s]
  BY <1>2, <1>3 DEF Spent
<1>4. ~Promised(s)'
  BY <1>1, <1>3 DEF Promised, SeatsOK, HandingOut
<1>5. ASSUME NEW r \in ServerId \ {s}
      PROVE  server_phase'[r] = server_phase[r] /\ epoch'[r] = epoch[r]
  BY <1>1 DEF TypeOK
<1>6. ASSUME NEW r \in ServerId \ {s}, Promised(r)'
      PROVE  Promised(r)
  BY <1>1, <1>5, <1>6 DEF Promised, HandingOut
<1> QED BY <1>4, <1>5, <1>6

\* A step breaks no promise.
LEMMA PromiseStep ==
  ASSUME TypeOK, ControlOK, SeatsOK, PlayTypeOK, PromiseOK, [SystemNext]_<<vars, playVars>>
  PROVE  PromiseOK'
<1> USE CoordinatorAssumption
<1>1. ASSUME Coordinate
      PROVE  PromiseOK'
  <2>1. UNCHANGED <<lobby, games, epoch>>
    BY <1>1, CoordinateKeeps DEF playVars
  <2> QED BY <1>1, <2>1, PromiseStays DEF PromiseOK, Playing
<1>2. ASSUME UNCHANGED <<vars, lobby, games>>
      PROVE  PromiseOK'
  <2>1. UNCHANGED <<epoch, server_phase, matches, match, check, request>>
    BY <1>2 DEF vars, checkVars, serverVars
  <2> QED BY <1>2, <2>1 DEF PromiseOK, Playing, Promised, HandingOut
<1>3. ASSUME NEW j \in joins, Join(j)
      PROVE  PromiseOK'
  <2> DEFINE s == j.server
  <2>1. /\ s \in ServerId /\ j.seat \in {1, 2} /\ epoch[s] = j.epoch
        /\ lobby' = [lobby EXCEPT ![s] = [lobby[s] EXCEPT ![j.seat] = j.from]]
        /\ UNCHANGED <<epoch, matches, match, check, request>>
        /\ server_phase[s] = "PREPARING"
    BY <1>3 DEF Join, Valid, Seated, PlayTypeOK, JoinMessage, checkVars
  <2>2. \A r \in ServerId : Promised(r)' <=> Promised(r)
    BY <2>1 DEF Promised, HandingOut
  <2>3. games \subseteq games' /\ \A r \in ServerId \ {s} : server_phase'[r] = server_phase[r]
    BY <1>3, <2>1 DEF Join, TypeOK
  <2>4. \A r \in ServerId : Playing(r, epoch[r]) => Playing(r, epoch[r])'
    BY <2>1, <2>3 DEF Playing
  <2>5. \A r \in ServerId \ {s} : lobby'[r] = lobby[r]
    BY <2>1 DEF PlayTypeOK
  <2> DEFINE g == [server |-> s, epoch |-> j.epoch, players |-> lobby'[s]]
  <2>6. CASE Nobody \in {lobby'[s][n] : n \in {1, 2}}
    <3>1. UNCHANGED <<server_phase, games>>
      BY <1>3, <2>6 DEF Join
    <3>2. lobby'[s][1] = Nobody \/ lobby'[s][2] = Nobody
      BY <2>6
    <3> HIDE DEF s
    <3> QED BY <2>1, <2>2, <2>4, <2>5, <3>1, <3>2 DEF PromiseOK
  <2>7. CASE Nobody \notin {lobby'[s][n] : n \in {1, 2}}
    <3>1. g \in games'
      BY <1>3, <2>7 DEF Join
    <3>2. g.server = s /\ g.epoch = epoch'[s]
      BY <2>1
    <3>3. Playing(s, epoch[s])'
      BY <3>1, <3>2 DEF Playing
    <3> HIDE DEF s
    <3> QED BY <2>2, <2>3, <2>4, <2>5, <3>3 DEF PromiseOK
  <2> QED BY <2>6, <2>7
<1>4. ASSUME NEW s \in ServerId, RestartServer(s)
      PROVE  PromiseOK'
  <2>1. UNCHANGED games /\ lobby' = [lobby EXCEPT ![s] = Empty]
    BY <1>4 DEF RestartServer
  <2>2. lobby'[s][1] = Nobody /\ \A r \in ServerId \ {s} : lobby'[r] = lobby[r]
    BY <2>1 DEF PlayTypeOK, Empty
  <2> QED BY <1>4, <2>1, <2>2, RestartPromises DEF PromiseOK, Playing
<1>5. ASSUME SomeRead \/ (\E j \in joins : LoseJoin(j) \/ IgnoreJoin(j)) \/ UNCHANGED <<vars, playVars>>
      PROVE  UNCHANGED <<vars, lobby, games>>
  BY <1>5 DEF SomeRead, ReadMatch, LoseJoin, IgnoreJoin, playVars
<1> QED BY <1>1, <1>2, <1>3, <1>4, <1>5 DEF SystemNext, SomeJoin

\* What became of the Join of a Match m that was read.
Joined(m) ==
  \/ [server |-> m.server, epoch |-> m.epoch, seat |-> m.seat, from |-> m.to] \in joins \cup lost
  \/ lobby[m.server][m.seat] # Nobody
  \/ Playing(m.server, m.epoch)

\* As long as the process that sent it runs, it is on its way, lost, or counts.
ReadOK ==
  \A i \in read : matches[i].epoch = epoch[matches[i].server] => Joined(matches[i])

\* What a Join that is read, lost, ignored or counted leaves true of m.
LEMMA JoinedStays ==
  ASSUME TypeOK, ControlOK, SeatsOK, PlayTypeOK, PromiseOK, [SystemNext]_<<vars, playVars>>,
         NEW i \in 1 .. Len(matches), NEW m \in MatchMessage, m = matches[i],
         m.epoch = epoch'[m.server], m.epoch = epoch[m.server] => Joined(m)
  PROVE  Joined(m)'
<1> USE CoordinatorAssumption
<1> DEFINE mine == [server |-> m.server, epoch |-> m.epoch, seat |-> m.seat, from |-> m.to]
<1>1. /\ m.server \in ServerId /\ m.seat \in {1, 2} /\ Spent(m.server, m.epoch)
      /\ m.epoch = epoch[m.server] => Promised(m.server)
  BY DEF MatchMessage, SeatsOK, Promised
<1> HIDE DEF mine
<1>2. ASSUME NEW s \in ServerId, RestartServer(s)
      PROVE  Joined(m)'
  <2>1. /\ epoch' = [epoch EXCEPT ![s] = epoch[s] + 1] /\ lobby' = [lobby EXCEPT ![s] = Empty]
        /\ UNCHANGED <<joins, lost, games>>
    BY <1>2 DEF RestartServer, Restart
  <2>2. m.server # s
    BY <1>1, <2>1 DEF Spent, TypeOK
  <2>3. epoch'[m.server] = epoch[m.server] /\ lobby'[m.server] = lobby[m.server]
    BY <2>1, <2>2 DEF TypeOK, PlayTypeOK
  <2> QED BY <2>1, <2>3 DEF Joined, Playing
<1>3. ASSUME UNCHANGED epoch, joins \cup lost \subseteq joins' \cup lost', UNCHANGED <<lobby, games>>
      PROVE  Joined(m)'
  <2>1. Joined(m)
    BY <1>3
  <2> QED BY <1>3, <2>1 DEF Joined, Playing
<1>4. ASSUME Coordinate \/ SomeRead \/ (\E j \in joins : LoseJoin(j)) \/ UNCHANGED <<vars, playVars>>
      PROVE  Joined(m)'
  <2>1. UNCHANGED epoch /\ joins \cup lost \subseteq joins' \cup lost' /\ UNCHANGED <<lobby, games>>
    BY <1>4, CoordinateKeeps DEF playVars, vars, serverVars, SomeRead, ReadMatch, LoseJoin
  <2> QED BY <2>1, <1>3
<1>5. ASSUME NEW j \in joins, Join(j)
      PROVE  Joined(m)'
  <2>1. /\ j \in JoinMessage /\ epoch[j.server] = j.epoch /\ UNCHANGED <<epoch, lost>>
        /\ lobby' = [lobby EXCEPT ![j.server] = [lobby[j.server] EXCEPT ![j.seat] = j.from]]
        /\ joins \ {j} \subseteq joins' /\ games \subseteq games'
    BY <1>5 DEF Join, Valid, Seated, PlayTypeOK
  <2>2. Joined(m)
    BY <2>1
  <2>3. CASE mine \in joins \cup lost
    <3>1. CASE mine = j
      <4>1. j.server = m.server /\ j.seat = m.seat /\ j.from # Nobody
        BY <2>1, <3>1 DEF mine, JoinMessage
      <4>2. lobby'[m.server][m.seat] = j.from
        BY <2>1, <4>1, <1>1 DEF PlayTypeOK
      <4> QED BY <4>1, <4>2 DEF Joined
    <3>2. CASE mine # j
      <4>1. mine \in joins' \cup lost'
        BY <2>1, <2>3, <3>2
      <4> QED BY <4>1 DEF Joined, mine
    <3> QED BY <3>1, <3>2
  <2>4. CASE lobby[m.server][m.seat] # Nobody
    <3>1. lobby'[m.server][m.seat] \in {lobby[m.server][m.seat], j.from}
      BY <2>1, <1>1 DEF PlayTypeOK, JoinMessage
    <3>2. lobby'[m.server][m.seat] # Nobody
      BY <2>1, <2>4, <3>1 DEF JoinMessage
    <3> QED BY <3>2 DEF Joined
  <2>5. CASE Playing(m.server, m.epoch)
    BY <2>1, <2>5 DEF Joined, Playing
  <2> QED BY <2>2, <2>3, <2>4, <2>5 DEF Joined, mine
<1>6. ASSUME NEW j \in joins, IgnoreJoin(j)
      PROVE  Joined(m)'
  <2>1. /\ j \in JoinMessage /\ ~(server_phase[j.server] = "PREPARING" /\ epoch[j.server] = j.epoch)
        /\ UNCHANGED <<epoch, lost, lobby, games>> /\ joins' = joins \ {j}
    BY <1>6 DEF IgnoreJoin, Valid, PlayTypeOK, vars, serverVars
  <2>2. Joined(m) /\ Promised(m.server) /\ m.epoch = epoch[m.server]
    BY <1>1, <2>1
  <2>3. CASE mine = j
    <3>1. j.server = m.server /\ j.epoch = m.epoch
      BY <2>3 DEF mine
    <3>2. Playing(m.server, m.epoch)
      BY <1>1, <2>1, <2>2, <3>1 DEF PromiseOK
    <3> QED BY <2>1, <3>2 DEF Joined, Playing
  <2>4. CASE mine # j
    BY <2>1, <2>2, <2>4 DEF Joined, Playing, mine
  <2> QED BY <2>3, <2>4
<1> QED BY <1>2, <1>4, <1>5, <1>6 DEF SystemNext, SomeJoin

\* A step lets no Match that was read get away.
LEMMA ReadStep ==
  ASSUME TypeOK, ControlOK, SeatsOK, PlayTypeOK, PromiseOK, ReadOK,
         [Next]_vars, [SystemNext]_<<vars, playVars>>
  PROVE  ReadOK'
<1>1. SUFFICES ASSUME NEW i \in read', matches'[i].epoch = epoch'[matches'[i].server]
               PROVE  Joined(matches[i])'
  BY DEF ReadOK
<1>2. /\ i \in 1 .. Len(matches) /\ (i \in read \/ ReadMatch(i))
  <2>1. read' = read \/ \E k \in 1 .. Len(matches) : ReadMatch(k) /\ read' = read \cup {k}
    <3>1. Coordinate \/ UNCHANGED <<vars, playVars>> => UNCHANGED read
      BY CoordinateKeeps DEF playVars
    <3>2. \A j \in joins : Join(j) \/ IgnoreJoin(j) \/ LoseJoin(j) => UNCHANGED read
      BY DEF Join, IgnoreJoin, LoseJoin
    <3>3. \A s \in ServerId : RestartServer(s) => UNCHANGED read
      BY DEF RestartServer
    <3>4. SomeRead => \E k \in 1 .. Len(matches) : ReadMatch(k) /\ read' = read \cup {k}
      BY DEF SomeRead, ReadMatch
    <3> QED BY <3>1, <3>2, <3>3, <3>4 DEF SystemNext, SomeJoin
  <2> QED BY <2>1 DEF PlayTypeOK
<1>3. /\ matches[i] \in MatchMessage /\ matches'[i] = matches[i]
  BY <1>2, MatchesStay
<1> SUFFICES ASSUME NEW m \in MatchMessage, m = matches[i], m = matches'[i]
             PROVE  Joined(m)'
  BY <1>3
<1>4. CASE i \in read
  <2>1. m.epoch = epoch[m.server] => Joined(m)
    BY <1>4 DEF ReadOK
  <2> QED BY <1>1, <1>2, <2>1, JoinedStays
<1>5. CASE ReadMatch(i)
  <2>1. [server |-> m.server, epoch |-> m.epoch, seat |-> m.seat, from |-> m.to] \in joins'
    BY <1>5 DEF ReadMatch
  <2> QED BY <2>1 DEF Joined
<1> QED BY <1>2, <1>4, <1>5

-----------------------------------------------------------------------------
(* The inductive invariant of the composition, and its theorems. *)

SystemInv ==
  /\ IInv /\ ArrivedOK /\ PairsOK
  /\ PlayTypeOK /\ GivenOK /\ PromiseOK /\ ReadOK

\* It holds when everything starts.
LEMMA InitSystemInv ==
  ASSUME SystemInit
  PROVE  SystemInv
<1>1. Init /\ read = {} /\ joins = {} /\ games = {} /\ lost = {}
      /\ lobby = [s \in ServerId |-> Empty]
  BY DEF SystemInit
<1>2. IInv
  BY <1>1, InitIInv
<1>3. matches = <<>> /\ arrivals = <<>> /\ unread = {} /\ seat = 1 /\ check = "sleep" /\ request = NoRequest
  BY <1>1 DEF Init
<1>4. ArrivedOK
  BY <1>3 DEF ArrivedOK, NoRepeat
<1>5. PairsOK
  <2>1. Len(matches) = 2 * 0
    BY <1>3
  <2> QED BY <1>3, <2>1 DEF PairsOK
<1>6. PlayTypeOK /\ GivenOK /\ ReadOK
  BY <1>1 DEF PlayTypeOK, GivenOK, ReadOK, Empty
<1>7. PromiseOK
  BY <1>1, <1>3 DEF PromiseOK, Promised, HandingOut, NoRequest, Empty
<1> QED BY <1>2, <1>4, <1>5, <1>6, <1>7 DEF SystemInv

\* Every step of the composition keeps it.
LEMMA StepSystemInv ==
  ASSUME SystemInv, [SystemNext]_<<vars, playVars>>
  PROVE  SystemInv' /\ [Next]_vars
<1>1. /\ TypeOK /\ ControlOK /\ SeatsOK
  BY DEF SystemInv, IInv
<1>2. [Next]_vars
  BY <1>1, StepImplements DEF SystemInv
<1>3. IInv' /\ ArrivedOK' /\ PairsOK'
  BY <1>1, <1>2, StepIInv, ArrivedStep, PairsStep DEF SystemInv
<1>4. PlayTypeOK' /\ GivenOK'
  BY <1>1, <1>2, PlayTypeStep, GivenStep DEF SystemInv
<1>5. PromiseOK' /\ ReadOK'
  BY <1>1, <1>2, PromiseStep, ReadStep DEF SystemInv
<1> QED BY <1>2, <1>3, <1>4, <1>5 DEF SystemInv

\* So it holds in every state.
THEOREM SystemInvariance == SystemSpec => []SystemInv
<1>1. SystemInit => SystemInv
  BY InitSystemInv
<1>2. SystemInv /\ [SystemNext]_<<vars, playVars>> => SystemInv'
  BY StepSystemInv
<1> QED BY <1>1, <1>2, PTL DEF SystemSpec

\* The composition implements Coordinator: a game starts only with two players
\* that were sent the two Matches of the process that runs.
THEOREM SystemImplementsCoordinator == SystemSpec => ImplementsCoordinator
<1>1. SystemInit => Init
  BY DEF SystemInit
<1>2. SystemInv /\ [SystemNext]_<<vars, playVars>> => [Next]_vars
  BY StepSystemInv
<1> QED BY <1>1, <1>2, SystemInvariance, PTL DEF SystemSpec, ImplementsCoordinator, Spec

\* The invariant puts the players of a game next to each other.
LEMMA PlayersAreNeighbours ==
  ASSUME SystemInv, ~SomebodyLeft, NEW g \in games
  PROVE  /\ g \in Game
         /\ \E k \in 1 .. Len(arrivals) \div 2 :
              /\ g.players[1] = arrivals[2 * k - 1] /\ g.players[2] = arrivals[2 * k]
              /\ 2 * k - 1 \in 1 .. Len(matches) /\ SameMatch(matches[2 * k - 1], g)
<1>1. /\ g \in Game /\ PairsOK /\ NoSeatTwice /\ OrderOK
      /\ Given(matches, g.server, g.epoch, 1, g.players[1])
      /\ Given(matches, g.server, g.epoch, 2, g.players[2])
  BY DEF SystemInv, IInv, PlayTypeOK, GivenOK
<1>2. PICK a \in 1 .. Len(matches) :
        SameMatch(matches[a], g) /\ matches[a].seat = 1 /\ matches[a].to = g.players[1]
  BY <1>1 DEF Given, SameMatch
<1>3. PICK b \in 1 .. Len(matches) :
        SameMatch(matches[b], g) /\ matches[b].seat = 2 /\ matches[b].to = g.players[2]
  BY <1>1 DEF Given, SameMatch
<1>4. /\ Len(matches) \in Nat /\ Len(arrivals) \in Nat /\ Len(searching_clients) \in Nat
  BY LenProperties DEF SystemInv, IInv, TypeOK
<1>5. b > 1 /\ matches[b - 1].seat = 1 /\ SameMatch(matches[b - 1], matches[b])
  BY <1>1, <1>3 DEF PairsOK, Paired
<1>6. b - 1 \in 1 .. Len(matches)
  BY <1>4, <1>5
<1>7. SameMatch(matches[b - 1], matches[a])
  BY <1>2, <1>3, <1>5 DEF SameMatch
<1>8. b - 1 = a
  BY <1>1, <1>2, <1>5, <1>6, <1>7 DEF NoSeatTwice, SameMatch
<1>9. PICK h \in Nat : a = 2 * h + 1
  BY <1>1, <1>2 DEF PairsOK, Paired
<1>10. /\ arrivals[a] = g.players[1] /\ arrivals[b] = g.players[2]
       /\ Len(matches) <= Len(arrivals)
  <2>1. Len(arrivals) = Len(matches) + InHand + Len(searching_clients) /\ InHand \in {0, 1}
    BY <1>1 DEF OrderOK, InHand
  <2>2. Len(matches) <= Len(arrivals)
    BY <1>4, <2>1
  <2> QED BY <1>1, <1>2, <1>3, <2>2 DEF OrderOK
<1> DEFINE k == h + 1
<1>11. k \in Nat /\ k >= 1 /\ 2 * k - 1 = a /\ 2 * k = b
  BY <1>8, <1>9
<1>12. k \in 1 .. Len(arrivals) \div 2
  BY <1>4, <1>10, <1>11
<1> HIDE DEF k
<1> QED BY <1>1, <1>2, <1>10, <1>11, <1>12

\* As long as nobody leaves, the two that searched one after the other play each
\* other, and nobody plays twice, for any number of clients and servers.
THEOREM NeighboursPlayEachOther == SystemSpec => []NeighboursPlay
<1>1. ASSUME SystemInv, ~SomebodyLeft, NEW g \in games
      PROVE  \E k \in 1 .. Len(arrivals) \div 2 :
               /\ g.players = [n \in {1, 2} |-> arrivals[2 * k - 2 + n]]
               /\ \A h \in games : h.players[1] = g.players[1] => h = g
  <2>1. PICK k \in 1 .. Len(arrivals) \div 2 :
          /\ g.players[1] = arrivals[2 * k - 1] /\ g.players[2] = arrivals[2 * k]
          /\ 2 * k - 1 \in 1 .. Len(matches) /\ SameMatch(matches[2 * k - 1], g)
    BY <1>1, PlayersAreNeighbours
  <2>2. g \in Game /\ Len(arrivals) \in Nat
    BY <1>1, PlayersAreNeighbours, LenProperties DEF SystemInv, IInv, TypeOK
  <2>3. g.players = [n \in {1, 2} |-> arrivals[2 * k - 2 + n]]
    <3>1. 2 * k - 2 + 1 = 2 * k - 1 /\ 2 * k - 2 + 2 = 2 * k
      BY <2>2
    <3>2. g.players \in [{1, 2} -> Client]
      BY <2>2 DEF Game
    <3> QED BY <2>1, <3>1, <3>2
  <2>4. ASSUME NEW h \in games, h.players[1] = g.players[1]
        PROVE  h = g
    <3>1. PICK l \in 1 .. Len(arrivals) \div 2 :
            /\ h.players[1] = arrivals[2 * l - 1] /\ h.players[2] = arrivals[2 * l]
            /\ 2 * l - 1 \in 1 .. Len(matches) /\ SameMatch(matches[2 * l - 1], h)
      BY <1>1, PlayersAreNeighbours
    <3>2. h \in Game
      BY <1>1, PlayersAreNeighbours
    <3>3. 2 * l - 1 \in 1 .. Len(arrivals) /\ 2 * k - 1 \in 1 .. Len(arrivals)
      BY <2>2
    <3>4. 2 * l - 1 = 2 * k - 1
      BY <1>1, <2>1, <2>4, <3>1, <3>3 DEF SystemInv, ArrivedOK, NoRepeat
    <3>5. l = k
      BY <2>2, <3>4
    <3>6. h.server = g.server /\ h.epoch = g.epoch
      BY <2>1, <3>1, <3>5 DEF SameMatch
    <3>7. h.players[1] = g.players[1] /\ h.players[2] = g.players[2]
      BY <2>1, <3>1, <3>5
    <3>8. h.players = g.players
      BY <2>2, <3>2, <3>7 DEF Game
    <3> QED BY <2>2, <3>2, <3>6, <3>8 DEF Game
  <2> QED BY <2>3, <2>4
<1>2. SystemInv => NeighboursPlay
  BY <1>1 DEF NeighboursPlay
<1> QED BY <1>2, SystemInvariance, PTL

\* Two clients that were sent the Matches of a process that still runs, and whose
\* Joins are neither lost nor on their way, play.
THEOREM MatchedClientsPlay == SystemSpec => []MatchedPlay
<1>1. ASSUME SystemInv, NEW i \in read, NEW k \in read \ {i},
             matches[k].server = matches[i].server, matches[k].epoch = matches[i].epoch,
             ~\E j \in joins \cup lost : j.server = matches[i].server /\ j.epoch = matches[i].epoch,
             epoch[matches[i].server] = matches[i].epoch
      PROVE  Playing(matches[i].server, matches[i].epoch)
  <2> DEFINE s == matches[i].server
             e == matches[i].epoch
  <2>1. /\ i \in 1 .. Len(matches) /\ k \in 1 .. Len(matches) /\ matches \in Seq(MatchMessage)
        /\ NoSeatTwice /\ ReadOK /\ PromiseOK
    BY <1>1 DEF SystemInv, IInv, TypeOK, PlayTypeOK, MatchMessage
  <2>2. matches[i] \in MatchMessage /\ matches[k] \in MatchMessage
    BY <2>1, ElementOfSeq
  <2>3. matches[i].seat # matches[k].seat
    BY <1>1, <2>1 DEF NoSeatTwice
  <2>4. s \in ServerId /\ matches[i].seat \in {1, 2} /\ matches[k].seat \in {1, 2}
    BY <2>2 DEF MatchMessage
  <2>5. lobby[s][matches[i].seat] # Nobody \/ Playing(s, e)
    BY <1>1, <2>1 DEF ReadOK, Joined
  <2>6. lobby[s][matches[k].seat] # Nobody \/ Playing(s, e)
    BY <1>1, <2>1 DEF ReadOK, Joined
  <2> HIDE DEF s, e
  <2>7. CASE lobby[s][1] # Nobody /\ lobby[s][2] # Nobody
    BY <1>1, <2>1, <2>4, <2>7 DEF PromiseOK, s, e
  <2> QED BY <2>3, <2>4, <2>5, <2>6, <2>7 DEF s, e
<1>2. SystemInv => MatchedPlay
  BY <1>1 DEF MatchedPlay, Playing
<1> QED BY <1>2, SystemInvariance, PTL

-----------------------------------------------------------------------------
(* The servers of the composition keep the promise that is proved of       *)
(* Server, and of the Java and the Python server: between two restarts     *)
(* each is a MatchSeats.                                                   *)

\* Seats(s) reads MatchSeats off server s.
Seats(s) == INSTANCE MatchSeats
  WITH Client  <- Client \cup {"coordinator"},
       Nobody  <- Nobody,
       stage   <- CASE server_phase[s] = "WAITING" -> "open"
                    [] server_phase[s] = "PREPARING" -> "reserved"
                    [] OTHER -> "playing",
       holders <- IF server_phase[s] = "WAITING" THEN <<>> ELSE <<"coordinator">>,
       seat    <- [id \in {"PLAYER_1", "PLAYER_2"} |-> lobby[s][IF id = "PLAYER_1" THEN 1 ELSE 2]]

\* A step that leaves a server's phase and lobby alone is none of its seats'.
LEMMA SeatsStutter ==
  ASSUME NEW s \in ServerId, server_phase'[s] = server_phase[s], lobby'[s] = lobby[s]
  PROVE  UNCHANGED Seats(s)!vars
BY DEF Seats!vars

\* A Prepare that finds the server waiting reserves its seats.
LEMMA PreparedReserves ==
  ASSUME TypeOK, NEW r \in ServerId, Prepared(r), UNCHANGED lobby, NEW s \in ServerId
  PROVE  [Seats(s)!Next]_(Seats(s)!vars)
<1>1. CASE s = r /\ server_phase[s] = "WAITING"
  <2>1. server_phase'[s] = "PREPARING"
    BY <1>1 DEF Prepared, TypeOK
  <2>2. Seats(s)!Reserve("coordinator")
    BY <1>1, <2>1 DEF Seats!Reserve
  <2> QED BY <2>2 DEF Seats!Next
<1>2. CASE ~(s = r /\ server_phase[s] = "WAITING")
  <2>1. server_phase'[s] = server_phase[s]
    BY <1>2 DEF Prepared, TypeOK
  <2> QED BY <2>1, SeatsStutter
<1> QED BY <1>1, <1>2

\* A valid Join takes its seat, and the second of the two starts the match.
LEMMA JoinTakesSeat ==
  ASSUME TypeOK, PlayTypeOK, NEW j \in joins, Join(j), NEW s \in ServerId
  PROVE  [Seats(s)!Next]_(Seats(s)!vars)
<1> DEFINE r == j.server
           id == IF j.seat = 1 THEN "PLAYER_1" ELSE "PLAYER_2"
<1>1. /\ r \in ServerId /\ j.seat \in {1, 2} /\ j.from \in Client
      /\ server_phase[r] = "PREPARING"
      /\ lobby' = [lobby EXCEPT ![r] = [lobby[r] EXCEPT ![j.seat] = j.from]]
      /\ lobby \in [ServerId -> [{1, 2} -> Client \cup {Nobody}]]
      /\ server_phase \in [ServerId -> Phase \ {"UNKNOWN"}]
  BY DEF Join, Valid, Seated, PlayTypeOK, JoinMessage, TypeOK
<1>2. IF Nobody \in {lobby'[r][n] : n \in {1, 2}}
      THEN server_phase' = server_phase
      ELSE server_phase' = [server_phase EXCEPT ![r] = "STARTED"]
  BY DEF Join
<1> HIDE DEF r
<1>3. CASE s # r
  <2>1. server_phase'[s] = server_phase[s] /\ lobby'[s] = lobby[s]
    BY <1>1, <1>2, <1>3
  <2> QED BY <2>1, SeatsStutter
<1>4. CASE s = r
  <2>1. lobby'[s] = [lobby[s] EXCEPT ![j.seat] = j.from] /\ lobby[s] \in [{1, 2} -> Client \cup {Nobody}]
    BY <1>1, <1>4
  <2>2. server_phase'[s] = IF lobby'[s][1] = Nobody \/ lobby'[s][2] = Nobody
                           THEN "PREPARING" ELSE "STARTED"
    BY <1>1, <1>2, <1>4
  <2> DEFINE seen == [i \in {"PLAYER_1", "PLAYER_2"} |-> lobby[s][IF i = "PLAYER_1" THEN 1 ELSE 2]]
             sees == [i \in {"PLAYER_1", "PLAYER_2"} |-> lobby'[s][IF i = "PLAYER_1" THEN 1 ELSE 2]]
  <2>3. sees = [seen EXCEPT ![id] = j.from]
    <3>1. \A i \in {"PLAYER_1", "PLAYER_2"} : sees[i] = [seen EXCEPT ![id] = j.from][i]
      BY <1>1, <2>1
    <3> QED BY <3>1
  <2>4. sees["PLAYER_1"] = lobby'[s][1] /\ sees["PLAYER_2"] = lobby'[s][2]
    OBVIOUS
  <2> HIDE DEF seen, sees
  <2>5. /\ server_phase[s] = "PREPARING"
        /\ server_phase'[s] = IF \A i \in {"PLAYER_1", "PLAYER_2"} : sees[i] # Nobody
                              THEN "STARTED" ELSE "PREPARING"
    BY <1>1, <1>4, <2>2, <2>4
  <2>6. Seats(s)!TakeSeat(id, j.from)
    BY <2>3, <2>5 DEF Seats!TakeSeat, Seats!Identifier, seen, sees
  <2> QED BY <1>1, <2>6 DEF Seats!Next, Seats!Identifier
<1> QED BY <1>3, <1>4

\* What the composition assumes of a server, that its two seats are reserved once,
\* taken while a player is missing and then kept, is what Server, GameServer and
\* so the three game servers are proved to promise: whatever the coordinators and
\* the players do and the network loses, repeats or delays, only a new process
\* opens the seats again.
THEOREM SystemKeepsSeats ==
  SystemSpec => [][\A s \in ServerId : RestartServer(s) \/ [Seats(s)!Next]_(Seats(s)!vars)]_<<vars, playVars>>
<1>1. ASSUME TypeOK, ControlOK, PlayTypeOK, [SystemNext]_<<vars, playVars>>, NEW s \in ServerId
      PROVE  (\E r \in ServerId : RestartServer(r)) \/ [Seats(s)!Next]_(Seats(s)!vars)
  <2>1. CASE Coordinate
    <3>1. UNCHANGED lobby
      BY <2>1, CoordinateKeeps DEF playVars
    <3>2. CASE UNCHANGED server_phase
      BY <3>1, <3>2, SeatsStutter
    <3>3. ASSUME ServePrepare
          PROVE  \E r \in ServerId : Prepared(r)
      BY <1>1, <3>3 DEF ServePrepare, TypeOK, NoRequest
    <3>4. UNCHANGED server_phase \/ \E r \in ServerId : Prepared(r)
      BY <2>1, <3>3 DEF Coordinate, Listener, Accept, ReadSearch, CloseSocket, EraseSearching, EraseClient,
        CheckThread, Wake, SendQuery, ReceiveStatus, Matchmake, SendPrepare,
        NoPreparedServer, ReceiveTokens, Timeout, ReadFront, PopFront, SendMatch,
        Answer, ServeQuery, LatePrepare, Connect, SendSearch, Close, serverVars
    <3> QED BY <1>1, <3>1, <3>2, <3>4, PreparedReserves
  <2>2. CASE SomeRead
    BY <2>2, SeatsStutter DEF SomeRead, ReadMatch, vars, serverVars
  <2>3. ASSUME NEW j \in joins, IgnoreJoin(j) \/ LoseJoin(j)
        PROVE  [Seats(s)!Next]_(Seats(s)!vars)
    BY <2>3, SeatsStutter DEF IgnoreJoin, LoseJoin, vars, serverVars
  <2>4. CASE UNCHANGED <<vars, playVars>>
    BY <2>4, SeatsStutter DEF vars, serverVars, playVars
  <2> QED BY <1>1, <2>1, <2>2, <2>3, <2>4, JoinTakesSeat DEF SystemNext, SomeJoin
<1>2. ASSUME TypeOK, PlayTypeOK, NEW r \in ServerId, RestartServer(r), NEW s \in ServerId
      PROVE  RestartServer(s) \/ [Seats(s)!Next]_(Seats(s)!vars)
  <2>1. CASE s = r
    BY <1>2, <2>1
  <2>2. CASE s # r
    <3>1. server_phase'[s] = server_phase[s] /\ lobby'[s] = lobby[s]
      BY <1>2, <2>2 DEF RestartServer, Restart, TypeOK, PlayTypeOK
    <3> QED BY <3>1, SeatsStutter
  <2> QED BY <2>1, <2>2
<1>3. SystemInv /\ [SystemNext]_<<vars, playVars>> =>
        [\A s \in ServerId : RestartServer(s) \/ [Seats(s)!Next]_(Seats(s)!vars)]_<<vars, playVars>>
  BY <1>1, <1>2 DEF SystemInv, IInv
<1> QED BY <1>3, SystemInvariance, PTL DEF SystemSpec
=============================================================================
