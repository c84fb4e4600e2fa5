------------------------------- MODULE System -------------------------------
(***************************************************************************)
(* The C++ coordinator, the game servers and the clients together: from    *)
(* the Search of a client to the start of its game.                        *)
(*                                                                         *)
(* Coordinator leaves open how a server comes from PREPARING to STARTED.   *)
(* Here the clients read their Matches and send each its one Join, which   *)
(* the network may lose, repeat or delay, also past a restart of the       *)
(* server; and the servers count the players that join.  A client that is  *)
(* sent two Matches joins twice.  The rest of a client is in Client, the   *)
(* rest of a server in Server.                                             *)
(***************************************************************************)
EXTENDS Coordinator

VARIABLES
  read,    \* the Matches their clients have read, by their place in matches
  joins,   \* the Joins on the network: [server, epoch, seat, from]
  lobby,   \* server -> seat -> the client that joined this process
  games,   \* the games started: [server, epoch, players]
  lost     \* the Joins that were lost

playVars == <<read, joins, lobby, games, lost>>

Empty == [n \in {1, 2} |-> Nobody]

SystemInit ==
  /\ Init
  /\ read = {} /\ joins = {} /\ games = {} /\ lost = {}
  /\ lobby = [s \in ServerId |-> Empty]

\* A client reads a Match and joins: handle_match.
ReadMatch(i) ==
  /\ i \in 1 .. Len(matches) \ read
  /\ LET m == matches[i] IN
       /\ m.to # Nobody /\ stage[m.to] = "searched"
       /\ joins' = joins \cup {[server |-> m.server, epoch |-> m.epoch, seat |-> m.seat, from |-> m.to]}
  /\ read' = read \cup {i}
  /\ UNCHANGED <<lobby, games, lost, vars>>

LoseJoin(j) ==
  /\ joins' = joins \ {j} /\ lost' = lost \cup {j}
  /\ UNCHANGED <<read, lobby, games, vars>>

\* Faulty variant: a token of the process before the restart is good enough.
Valid_AnyEpoch(j) == server_phase[j.server] = "PREPARING"

\* A Join counts while players are missing and if its token is this process's.
Valid(j) == server_phase[j.server] = "PREPARING" /\ epoch[j.server] = j.epoch

\* Faulty variant: the second player takes the place of the first.
Seated_Replace(j) == [Empty EXCEPT ![j.seat] = j.from]

Seated(j) == [lobby[j.server] EXCEPT ![j.seat] = j.from]

\* A Join arrives, and may arrive once more: handle_join.
Join(j) ==
  /\ joins' \in {joins, joins \ {j}}
  /\ Valid(j)
  /\ lobby' = [lobby EXCEPT ![j.server] = Seated(j)]
  /\ IF Nobody \in {lobby'[j.server][n] : n \in {1, 2}}
     THEN UNCHANGED <<server_phase, games>>
     ELSE /\ server_phase' = [server_phase EXCEPT ![j.server] = "STARTED"]
          /\ games' = games \cup {[server |-> j.server, epoch |-> j.epoch,
                                   players |-> lobby'[j.server]]}
  /\ UNCHANGED <<read, lost, epoch, late, troubled, queueVars, clientVars, checkVars>>

\* One that comes too late, or for a process that is gone, changes nothing.
IgnoreJoin(j) ==
  /\ ~Valid(j)
  /\ joins' = joins \ {j}
  /\ UNCHANGED <<read, lobby, games, lost, vars>>

RestartServer(s) ==
  /\ Restart(s)
  /\ lobby' = [lobby EXCEPT ![s] = Empty]
  /\ UNCHANGED <<read, joins, games, lost>>

\* What the coordinator module does without the players.
Coordinate ==
  /\ \/ Listener \/ CheckThread \/ Answer
     \/ \E s \in ServerId : LatePrepare(s)
     \/ \E c \in Client : Connect(c) \/ SendSearch(c) \/ Close(c)
  /\ UNCHANGED playVars

SomeRead == \E i \in 1 .. Len(matches) : ReadMatch(i)
SomeJoin == \E j \in joins : Join(j) \/ IgnoreJoin(j)

SystemNext ==
  \/ Coordinate \/ SomeRead \/ SomeJoin
  \/ \E j \in joins : LoseJoin(j)
  \/ \E s \in ServerId : RestartServer(s)

SystemSpec == SystemInit /\ [][SystemNext]_<<vars, playVars>>

-----------------------------------------------------------------------------
(* Properties. *)

\* A game starts only where Coordinator says that it may: with two players
\* that were sent the two Matches of this very server process.
ImplementsCoordinator == Spec

\* The players of a game are two clients that searched one after the other, an
\* odd and the next even one, as long as nobody left; so nobody plays with
\* himself or in two games.
NeighboursPlay ==
  ~SomebodyLeft =>
    \A g \in games :
      \E k \in 1 .. Len(arrivals) \div 2 :
        /\ g.players = [n \in {1, 2} |-> arrivals[2 * k - 2 + n]]
        /\ \A h \in games : h.players[1] = g.players[1] => h = g

\* Nothing but the network, a restart or a client that left keeps two matched
\* clients from playing: once both have read their Matches and both Joins have
\* arrived, at the process that gave out the tokens, their game has started.
MatchedPlay ==
  \A i \in read :
    LET m == matches[i]
        Of(j) == j.server = m.server /\ j.epoch = m.epoch
    IN  /\ \E k \in read \ {i} : Of(matches[k])
        /\ ~\E j \in joins \cup lost : Of(j)
        /\ epoch[m.server] = m.epoch
        => \E g \in games : Of(g)
=============================================================================
