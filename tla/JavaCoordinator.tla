--------------------------- MODULE JavaCoordinator ---------------------------
(***************************************************************************)
(* The coordinator of the Java program, Coordinator.java: its selector     *)
(* thread (listen) and its check thread (checkStatus).                     *)
(*                                                                         *)
(* All queries go out of one socket and all prepares out of another, for   *)
(* the life of the process, and the sender of an answer is not looked at.  *)
(* A connection that is closed stays among the searching clients.  The     *)
(* deque of these is an ArrayDeque without a lock; its calls are atomic    *)
(* here, which holds for one thread that adds and one that pops as long as *)
(* it does not grow past its first 16 places.                              *)
(***************************************************************************)
EXTENDS CoordinatorWorld

Accept(c) ==
  /\ c \in backlog
  /\ backlog' = backlog \ {c} /\ open' = open \cup {c}
  /\ UNCHANGED <<stage, unread, closing, queue, arrivals, checkVars, netVars>>

ReadSearch(c) ==
  /\ c \in open \cap unread
  /\ unread' = unread \ {c}
  /\ queue' = IF \E i \in 1 .. Len(queue) : queue[i] = c THEN queue ELSE Append(queue, c)
  /\ arrivals' = Append(arrivals, c)
  /\ UNCHANGED <<stage, backlog, open, closing, checkVars, netVars>>

\* Faulty variant: takes the client out of the queue the check thread pops.
HandleDisconnection_Dequeue(c) ==
  /\ c \in open \ unread /\ Left(c)
  /\ open' = open \ {c}
  /\ queue' = SelectSeq(queue, LAMBDA d : d # c)
  /\ UNCHANGED <<clientVars, closing, arrivals, checkVars, netVars>>

HandleDisconnection(c) ==
  /\ c \in open \ unread /\ Left(c)
  /\ open' = open \ {c}
  /\ UNCHANGED <<clientVars, closing, queue, arrivals, checkVars, netVars>>

Listen == \E c \in Client : Accept(c) \/ ReadSearch(c) \/ HandleDisconnection(c)

-----------------------------------------------------------------------------
(* The check thread. *)

SendQuery(s) ==
  /\ check = "query" /\ s \in todo
  /\ Ask("query", s, "query")
  /\ todo' = todo \ {s} /\ check' = "query_wait"
  /\ UNCHANGED <<server_list, match, seat, in_hand, matches, server_phase, inbox, late,
                 clientVars, queueVars>>

\* The first datagram that waits is taken for the answer of the server asked.
ReceiveStatus ==
  /\ check = "query_wait" /\ Receive("query")
  /\ server_list' = [server_list EXCEPT ![asked] = Head(inbox["query"]).answer]
  /\ check' = "query" /\ asked' = Nobody
  /\ UNCHANGED <<todo, match, seat, in_hand, matches, clientVars, queueVars>>

\* SocketTimeoutException: the entry of serverList stays, the request may still
\* be on its way.
Timeout ==
  /\ \/ check = "query_wait" /\ NothingComes("query", "query") /\ check' = "query"
     \/ check = "prepare_wait" /\ NothingComes("prepare", "prepare") /\ check' = "prepare"
  /\ asked' = Nobody
  /\ UNCHANGED <<server_list, todo, match, seat, in_hand, matches, server_phase, inbox, late,
                 clientVars, queueVars>>

Matchmake ==
  /\ check = "query" /\ todo = {}
  /\ \/ Len(queue) < 2 /\ check' = "sleep" /\ UNCHANGED todo
     \/ Len(queue) >= 2 /\ check' = "prepare" /\ todo' = ServerId
  /\ UNCHANGED <<server_list, asked, match, seat, in_hand, matches, clientVars, queueVars, netVars>>

SendPrepare(s) ==
  /\ check = "prepare" /\ s \in todo
  /\ todo' = todo \ {s}
  /\ \/ server_list[s] = "WAITING" /\ Ask("prepare", s, "prepare") /\ check' = "prepare_wait"
     \/ server_list[s] # "WAITING" /\ UNCHANGED <<asked, inflight, check>>
  /\ UNCHANGED <<server_list, match, seat, in_hand, matches, server_phase, inbox, late,
                 clientVars, queueVars>>

NoPreparedServer ==
  /\ check = "prepare" /\ todo = {}
  /\ check' = "sleep"
  /\ UNCHANGED <<server_list, todo, asked, match, seat, in_hand, matches, clientVars, queueVars, netVars>>

\* Faulty variant: reads the answer and leaves it in the socket.
ReceiveTokens_Peek ==
  /\ check = "prepare_wait" /\ inbox["prepare"] # <<>>
  /\ match' = [server |-> asked, of |-> Head(inbox["prepare"]).server]
  /\ check' = "pop" /\ asked' = Nobody
  /\ UNCHANGED <<server_list, todo, seat, in_hand, matches, clientVars, queueVars, netVars>>

\* Faulty variant: any server that waits, not the one that was asked.
ReceiveTokens_AnyWaiting ==
  /\ check = "prepare_wait" /\ Receive("prepare")
  /\ \E s \in ServerId :
       /\ server_list[s] = "WAITING"
       /\ match' = [server |-> s, of |-> Head(inbox["prepare"]).server]
  /\ check' = "pop" /\ asked' = Nobody
  /\ UNCHANGED <<server_list, todo, seat, in_hand, matches, clientVars, queueVars>>

\* The address is the one asked, the tokens are those of the datagram.
ReceiveTokens ==
  /\ check = "prepare_wait" /\ Receive("prepare")
  /\ match' = [server |-> asked, of |-> Head(inbox["prepare"]).server]
  /\ check' = "pop" /\ asked' = Nobody
  /\ UNCHANGED <<server_list, todo, seat, in_hand, matches, clientVars, queueVars>>

\* pop() of an empty deque throws, which ends the thread.
Pop ==
  /\ check = "pop"
  /\ IF queue = <<>> THEN check' = "dead" /\ UNCHANGED <<queue, in_hand>>
     ELSE check' = "send" /\ in_hand' = Head(queue) /\ queue' = Tail(queue)
  /\ UNCHANGED <<server_list, todo, asked, match, seat, matches, open, closing, arrivals,
                 clientVars, netVars>>

\* Faulty variant: the next match begins with the third token.
SendMatch_NoReset ==
  /\ check = "send"
  /\ seat' = seat + 1 /\ check' = IF seat = 1 THEN "pop" ELSE "sleep"
  /\ matches' = Append(matches, [server |-> match.server, of |-> match.of, seat |-> seat,
                                 to |-> in_hand])
  /\ UNCHANGED <<server_list, todo, asked, match, in_hand, clientVars, queueVars, netVars>>

\* A write to a closed channel is logged.
SendMatch ==
  /\ check = "send"
  /\ matches' = Append(matches, [server |-> match.server, of |-> match.of, seat |-> seat,
                                 to |-> in_hand])
  /\ IF seat = 1 THEN seat' = 2 /\ check' = "pop" ELSE seat' = 1 /\ check' = "sleep"
  /\ UNCHANGED <<server_list, todo, asked, match, in_hand, clientVars, queueVars, netVars>>

\* Checks come first and the five seconds after them.
Wake ==
  /\ check = "sleep"
  /\ check' = "query" /\ todo' = ServerId
  /\ UNCHANGED <<server_list, asked, match, seat, in_hand, matches, clientVars, queueVars, netVars>>

CheckStatus ==
  \/ \E s \in ServerId : SendQuery(s) \/ SendPrepare(s)
  \/ ReceiveStatus \/ Timeout \/ Matchmake \/ NoPreparedServer \/ ReceiveTokens
  \/ Pop \/ SendMatch \/ Wake

Next ==
  \/ Listen \/ CheckStatus \/ Network
  \/ \E c \in Client : Leave(c, "closed")

-----------------------------------------------------------------------------
(* Properties. *)

\* Tokens go to the clients with the address of their own server, unless the
\* answer to a Prepare reached the shared socket after its request had timed
\* out (sendPacketToServer does not look at the sender).
MatchFitsServer ==
  ~late => \A i \in 1 .. Len(matches) : matches[i].server = matches[i].of

\* Clients are served in the order in which they searched, each once, also
\* where some of them leave; so the deque is never popped when it is empty.
ServedInOrder == arrivals = Served /\ check # "dead"
=============================================================================
