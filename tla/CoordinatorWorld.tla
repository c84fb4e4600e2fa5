-------------------------- MODULE CoordinatorWorld --------------------------
(***************************************************************************)
(* What the Java and the Python coordinator share: their state, and the    *)
(* clients, the game servers and the UDP network around them.              *)
(*                                                                         *)
(* A connection is an object that belongs to one client for good, so a     *)
(* client stands for its connection.  A request to a server is sent from a *)
(* socket and answered to it; requests and answers are lost or delayed,    *)
(* possibly until after the coordinator has stopped waiting for them.      *)
(* A server that is PREPARING answers as one that has STARTED, so that its *)
(* players join is not modelled here.                                      *)
(***************************************************************************)
EXTENDS Naturals, Sequences, FiniteSets

CONSTANTS
  Client,    \* client processes; each has connected and sent its one Search
  ServerId,  \* the keys of the server list
  Nobody,    \* no client, no server
  MaxLeave,  \* bound of the model: clients that leave
  MaxLate    \* bound of the model: requests timed out whose answer is still to be read

ASSUME WorldAssumption ==
  /\ Nobody \notin Client \cup ServerId
  /\ MaxLeave \in Nat /\ MaxLate \in Nat

VARIABLES
  stage,         \* client -> "searched", "closed" or "reset"
  backlog,       \* connections that are not accepted yet
  unread,        \* clients whose Search has not been read yet
  open,          \* connections that are accepted and not closed
  closing,       \* the connection the listener is about to take out of the queue
  queue,         \* the clients that search
  arrivals,      \* the clients whose Search was read, in order
  server_list,   \* server -> the phase last heard of
  check,         \* where the check thread is
  todo,          \* the servers its current loop has still to visit
  asked,         \* the server whose answer it waits for
  match,         \* what is handed out: [server, of], the address and the tokens' server
  seat,          \* which of the two tokens is next
  in_hand,       \* the client taken from the queue
  matches,       \* the Matches sent: [server, of, seat, to]
  server_phase,  \* server -> the phase it is really in
  inflight,      \* requests and answers on the network
  inbox,         \* socket -> the answers that wait to be received
  late           \* whether tokens reached an open socket after their request timed out

clientVars == <<stage, backlog, unread>>
queueVars == <<open, closing, queue, arrivals>>
checkVars == <<server_list, check, todo, asked, match, seat, in_hand, matches>>
netVars == <<server_phase, inflight, inbox, late>>
vars == <<clientVars, queueVars, checkVars, netVars>>

\* The Java coordinator has one socket per kind of request; the Python one a
\* fresh socket per request, which is closed when it stops waiting.
Socket == {"query", "prepare", "fresh"}
Phase == {"UNKNOWN", "WAITING", "PREPARING"}
NoMatch == [server |-> Nobody, of |-> Nobody]

Init ==
  /\ stage = [c \in Client |-> "searched"] /\ backlog = Client /\ unread = Client
  /\ open = {} /\ closing = Nobody /\ queue = <<>> /\ arrivals = <<>>
  /\ server_list = [s \in ServerId |-> "UNKNOWN"]
  /\ check = "query" /\ todo = ServerId /\ asked = Nobody
  /\ match = NoMatch /\ seat = 1 /\ in_hand = Nobody /\ matches = <<>>
  /\ server_phase \in [ServerId -> {"WAITING", "PREPARING"}]
  /\ inflight = {} /\ inbox = [k \in Socket |-> <<>>]
  /\ late = FALSE

-----------------------------------------------------------------------------
(* The clients. *)

Left(c) == stage[c] \in {"closed", "reset"}

\* The client closes its connection, or dies and resets it.
Leave(c, how) ==
  /\ ~Left(c) /\ Cardinality({d \in Client : Left(d)}) < MaxLeave
  /\ stage' = [stage EXCEPT ![c] = how]
  /\ UNCHANGED <<backlog, unread, queueVars, checkVars, netVars>>

-----------------------------------------------------------------------------
(* The servers and the network. *)

Ask(kind, s, socket) ==
  /\ asked' = s
  /\ inflight' = inflight \cup
       {[kind |-> kind, server |-> s, socket |-> socket, answer |-> "none", late |-> FALSE]}

\* handle_query and handle_prepare; a Prepare out of phase is not answered.
Serve(r) ==
  /\ r.answer = "none"
  /\ IF r.kind = "query" \/ server_phase[r.server] = "WAITING"
     THEN LET answer == IF r.kind = "query" THEN server_phase[r.server] ELSE "tokens"
          IN  inflight' = (inflight \ {r}) \cup {[r EXCEPT !.answer = answer]}
     ELSE inflight' = inflight \ {r}
  /\ server_phase' = IF r.kind = "query" THEN server_phase
                     ELSE [server_phase EXCEPT ![r.server] = "PREPARING"]
  /\ UNCHANGED <<inbox, late, clientVars, queueVars, checkVars>>

\* An answer arrives; a socket that is closed is not there any more.
Deliver(r) ==
  /\ r.answer # "none"
  /\ inflight' = inflight \ {r}
  /\ IF r.socket = "closed" THEN UNCHANGED <<inbox, late>>
     ELSE /\ inbox' = [inbox EXCEPT ![r.socket] =
                         Append(@, [server |-> r.server, answer |-> r.answer])]
          /\ late' = (late \/ (r.late /\ r.kind = "prepare"))
  /\ UNCHANGED <<server_phase, clientVars, queueVars, checkVars>>

Receive(socket) ==
  /\ inbox[socket] # <<>>
  /\ inbox' = [inbox EXCEPT ![socket] = Tail(@)]
  /\ inflight' = {[r EXCEPT !.late = TRUE] : r \in inflight}
  /\ UNCHANGED <<server_phase, late>>

\* A second has passed and nothing was received: the request or its answer is
\* lost, or will come late, to what the socket is then.
NothingComes(socket, then) ==
  /\ inbox[socket] = <<>>
  /\ LET stale == {r \in inflight : r.late}
     IN  \/ inflight' = stale
         \/ /\ Cardinality(stale) + Len(inbox["query"]) + Len(inbox["prepare"]) < MaxLate
            /\ inflight' = stale \cup {[r EXCEPT !.late = TRUE, !.socket = then] : r \in inflight \ stale}

Network == \E r \in inflight : Serve(r) \/ Deliver(r)

-----------------------------------------------------------------------------

TypeOK ==
  /\ stage \in [Client -> {"searched", "closed", "reset"}]
  /\ backlog \subseteq Client /\ unread \subseteq Client /\ open \subseteq Client /\ closing \in Client \cup {Nobody}
  /\ queue \in Seq(Client) /\ arrivals \in Seq(Client)
  /\ server_list \in [ServerId -> Phase] /\ todo \subseteq ServerId
  /\ check \in {"sleep", "query", "query_wait", "size", "prepare", "prepare_wait",
                "pop", "send", "dead"}
  /\ asked \in ServerId \cup {Nobody} /\ in_hand \in Client \cup {Nobody}
  /\ match \in [server : ServerId \cup {Nobody}, of : ServerId \cup {Nobody}] /\ seat \in {1, 2}
  /\ matches \in Seq([server : ServerId, of : ServerId, seat : {1, 2}, to : Client])
  /\ server_phase \in [ServerId -> Phase \ {"UNKNOWN"}]
  /\ inflight \subseteq [kind : {"query", "prepare"}, server : ServerId, socket : Socket \cup {"closed"},
                         answer : Phase \cup {"none", "tokens"}, late : BOOLEAN]
  /\ \A k \in Socket : Len(inbox[k]) <= MaxLate + 1
  /\ late \in BOOLEAN

\* The clients in the order in which they are served: those that were sent a
\* Match, the one in hand, those that wait.
Served ==
  [i \in 1 .. Len(matches) |-> matches[i].to]
  \o (IF check = "send" THEN <<in_hand>> ELSE <<>>) \o queue

NoSeatGivenTwice ==
  \A i, j \in 1 .. Len(matches) :
    matches[i].of = matches[j].of /\ matches[i].seat = matches[j].seat => i = j
=============================================================================
