-------------------------- MODULE PythonCoordinator --------------------------
(***************************************************************************)
(* The coordinator of the Python program, coordinator.py: its main thread  *)
(* (listen) and its check thread (check_status).                           *)
(*                                                                         *)
(* A request has a socket of its own, closed when the answer or the        *)
(* timeout is there.  The listener does not notice a connection that is    *)
(* closed in order, because recv then returns nothing; it notices one that *)
(* is reset.  The check thread has no exception handler: a pop from an     *)
(* empty list or a send on a closed or reset connection ends it.           *)
(***************************************************************************)
EXTENDS CoordinatorWorld

Accept(c) ==
  /\ closing = Nobody
  /\ c \in backlog
  /\ backlog' = backlog \ {c} /\ open' = open \cup {c}
  /\ UNCHANGED <<stage, unread, closing, queue, arrivals, checkVars, netVars>>

ReadSearch(c) ==
  /\ closing = Nobody
  /\ c \in open \cap unread
  /\ unread' = unread \ {c}
  /\ queue' = Append(queue, c)
  /\ arrivals' = Append(arrivals, c)
  /\ UNCHANGED <<stage, backlog, open, closing, checkVars, netVars>>

\* Faulty variant: an orderly disconnect is noticed as well.
CloseConnection_Always(c) ==
  /\ closing = Nobody
  /\ c \in open \ unread /\ Left(c)
  /\ open' = open \ {c} /\ closing' = c
  /\ UNCHANGED <<queue, arrivals, clientVars, checkVars, netVars>>

\* recv raises: the connection is closed ...
CloseConnection(c) ==
  /\ closing = Nobody
  /\ c \in open \ unread /\ stage[c] = "reset"
  /\ open' = open \ {c} /\ closing' = c
  /\ UNCHANGED <<queue, arrivals, clientVars, checkVars, netVars>>

\* The queue without the first place where c is.
Without(q, c) ==
  LET i == CHOOSE i \in 1 .. Len(q) : q[i] = c /\ \A j \in 1 .. i - 1 : q[j] # c
  IN  SubSeq(q, 1, i - 1) \o SubSeq(q, i + 1, Len(q))

\* ... and then taken out of the queue, if it is in there.
RemoveConnection ==
  /\ closing # Nobody
  /\ queue' = IF \E i \in 1 .. Len(queue) : queue[i] = closing THEN Without(queue, closing)
              ELSE queue
  /\ closing' = Nobody
  /\ UNCHANGED <<open, arrivals, clientVars, checkVars, netVars>>

Listen ==
  \/ \E c \in Client : Accept(c) \/ ReadSearch(c) \/ CloseConnection(c)
  \/ RemoveConnection

-----------------------------------------------------------------------------
(* The check thread. *)

SendQuery(s) ==
  /\ check = "query" /\ s \in todo
  /\ Ask("query", s, "fresh")
  /\ todo' = todo \ {s} /\ check' = "query_wait"
  /\ UNCHANGED <<server_list, match, seat, in_hand, matches, server_phase, inbox, late,
                 clientVars, queueVars>>

\* Faulty variant: the socket is kept and used again.
CloseSocket_Keep(socket) == socket

\* server_socket.close(): what is still to come finds no socket.
CloseSocket(socket) == "closed"

ReceiveStatus ==
  /\ check = "query_wait" /\ Receive("fresh")
  /\ server_list' = [server_list EXCEPT ![asked] = Head(inbox["fresh"]).answer]
  /\ check' = "query" /\ asked' = Nobody
  /\ UNCHANGED <<todo, match, seat, in_hand, matches, clientVars, queueVars>>

\* socket.timeout is an exception: the server becomes UNKNOWN.
Timeout ==
  /\ \/ check = "query_wait" /\ check' = "query"
     \/ check = "prepare_wait" /\ check' = "prepare"
  /\ NothingComes("fresh", CloseSocket("fresh"))
  /\ server_list' = [server_list EXCEPT ![asked] = "UNKNOWN"]
  /\ asked' = Nobody
  /\ UNCHANGED <<todo, match, seat, in_hand, matches, server_phase, inbox, late,
                 clientVars, queueVars>>

Matchmake ==
  /\ check = "query" /\ todo = {}
  /\ \/ Len(queue) < 2 /\ check' = "sleep" /\ UNCHANGED todo
     \/ Len(queue) >= 2 /\ check' = "prepare" /\ todo' = ServerId
  /\ UNCHANGED <<server_list, asked, match, seat, in_hand, matches, clientVars, queueVars, netVars>>

SendPrepare(s) ==
  /\ check = "prepare" /\ s \in todo
  /\ todo' = todo \ {s}
  /\ \/ server_list[s] = "WAITING" /\ Ask("prepare", s, "fresh") /\ check' = "prepare_wait"
     \/ server_list[s] # "WAITING" /\ UNCHANGED <<asked, inflight, check>>
  /\ UNCHANGED <<server_list, match, seat, in_hand, matches, server_phase, inbox, late,
                 clientVars, queueVars>>

NoPreparedServer ==
  /\ check = "prepare" /\ todo = {}
  /\ check' = "sleep"
  /\ UNCHANGED <<server_list, todo, asked, match, seat, in_hand, matches, clientVars, queueVars, netVars>>

ReceiveTokens ==
  /\ check = "prepare_wait" /\ Receive("fresh")
  /\ match' = [server |-> asked, of |-> Head(inbox["fresh"]).server]
  /\ server_list' = [server_list EXCEPT ![asked] = "PREPARING"]
  /\ check' = "pop" /\ asked' = Nobody
  /\ UNCHANGED <<todo, seat, in_hand, matches, clientVars, queueVars>>

PopFirst ==
  /\ check = "pop"
  /\ IF queue = <<>> THEN check' = "dead" /\ UNCHANGED <<queue, in_hand>>
     ELSE check' = "send" /\ in_hand' = Head(queue) /\ queue' = Tail(queue)
  /\ UNCHANGED <<server_list, todo, asked, match, seat, matches, open, closing, arrivals,
                 clientVars, netVars>>

\* The send raises on a connection that is closed, and on one that was reset
\* as soon as the reset is there; to one closed by its client it succeeds.
SendMatch ==
  /\ check = "send"
  /\ \/ /\ in_hand \in open
        /\ matches' = Append(matches, [server |-> match.server, of |-> match.of, seat |-> seat,
                                       to |-> in_hand])
        /\ IF seat = 1 THEN seat' = 2 /\ check' = "pop" ELSE seat' = 1 /\ check' = "sleep"
     \/ /\ in_hand \notin open \/ stage[in_hand] = "reset"
        /\ check' = "dead"
        /\ UNCHANGED <<matches, seat>>
  /\ UNCHANGED <<server_list, todo, asked, match, in_hand, clientVars, queueVars, netVars>>

Wake ==
  /\ check = "sleep"
  /\ check' = "query" /\ todo' = ServerId
  /\ UNCHANGED <<server_list, asked, match, seat, in_hand, matches, clientVars, queueVars, netVars>>

CheckStatus ==
  \/ \E s \in ServerId : SendQuery(s) \/ SendPrepare(s)
  \/ ReceiveStatus \/ Timeout \/ Matchmake \/ NoPreparedServer \/ ReceiveTokens
  \/ PopFirst \/ SendMatch \/ Wake

Next ==
  \/ Listen \/ CheckStatus \/ Network
  \/ \E c \in Client, how \in {"closed", "reset"} : Leave(c, how)

-----------------------------------------------------------------------------
(* Properties. *)

NobodyReset == \A c \in Client : stage[c] # "reset"

\* A match names the server whose tokens it carries, however late answers are:
\* a late one finds its socket closed.
MatchFitsServer == \A i \in 1 .. Len(matches) : matches[i].server = matches[i].of

\* Matchmaking ends for good only after a client's connection was reset, and
\* until then clients are served in order, each once: a client that closes its
\* connection in order disturbs neither.
ServedInOrderUnlessReset == NobodyReset => arrivals = Served /\ check # "dead"
=============================================================================
