---------------------------- MODULE Coordinator ----------------------------
(***************************************************************************)
(* The coordinator process, cpp/coordinator.cpp, between its clients (TCP) *)
(* and the game servers (UDP).                                             *)
(*                                                                         *)
(* Two threads share searching_clients without a lock.  The listener       *)
(* (listen_clients) accepts connections, queues the clients that search    *)
(* and forgets those that disconnect.  The check thread (check_status)     *)
(* asks every server for its phase and, when two clients wait, has one     *)
(* server prepare a match and sends its two tokens to the two clients at   *)
(* the front of the queue.  It is cut at each datagram it waits for and at *)
(* each access to the queue, where the listener may come between; and the  *)
(* listener is cut between close, the queue and clients when it forgets a  *)
(* connection, where the check thread may.                                 *)
(*                                                                         *)
(* Around the process: clients that connect, search and may disconnect at  *)
(* any time; a kernel that gives a freed file descriptor to the next       *)
(* client; servers as server.cpp behaves towards the coordinator; and a    *)
(* network that, where Lossy, loses, delays and duplicates datagrams.      *)
(* Each request is sent from a socket of its own, closed after the answer  *)
(* or the timeout, so an answer that comes too late is dropped.            *)
(***************************************************************************)
EXTENDS Naturals, Sequences, FiniteSets

CONSTANTS
  Client,    \* client processes; each connects once and searches once
  Fd,        \* file descriptors the kernel gives to accepted connections
  ServerId,  \* the keys of server_list
  Nobody,    \* no client
  MaxEpoch,  \* bound of the model: how often a server process is restarted
  Lossy      \* whether datagrams may be lost, delayed and duplicated

ASSUME CoordinatorAssumption ==
  /\ Nobody \notin Client \cup Fd
  /\ MaxEpoch \in Nat
  /\ Lossy \in BOOLEAN

VARIABLES
  clients,            \* the descriptors select() watches
  searching_clients,  \* the queue of descriptors
  listener,           \* where the listener is: "select", "closed" or "erased"
  leaving,            \* the descriptor it is forgetting
  server_list,        \* server -> the phase last heard of
  check,              \* where the check thread is
  todo,               \* the servers its current loop has still to visit
  request,            \* the request send_message_to_server waits on
  match,              \* the tokens being handed out: [server, epoch]
  seat,               \* which of the two tokens is next
  in_hand,            \* the descriptor read from the front of the queue
  stage,              \* client -> "new", "connected", "searched" or "closed"
  backlog,            \* clients whose connection was not accepted yet
  unread,             \* clients whose Search has not been read yet
  conn,               \* descriptor -> the client it was accepted for
  server_phase,       \* server -> the phase it is really in
  epoch,              \* server -> how often it was restarted
  late,               \* servers a delayed or duplicated Prepare is on its way to
  matches,            \* the Matches sent: [server, epoch, seat, to, meant]
  \* History, which no step reads:
  arrivals,           \* the clients whose Search was read, in order
  chosen,             \* the client whose entry was read from the front
  erased,             \* was the queue shortened since its size was looked at?
  troubled            \* servers prepared by a Prepare whose answer nobody has

queueVars == <<clients, searching_clients, arrivals, conn, listener, leaving, erased>>
clientVars == <<stage, backlog, unread>>
serverVars == <<server_phase, epoch, late, troubled>>
checkVars == <<server_list, check, todo, request, match, seat, in_hand, chosen, matches>>
vars == <<queueVars, clientVars, serverVars, checkVars>>

Phase == {"UNKNOWN", "WAITING", "PREPARING", "STARTED"}

\* front() or pop_front() on an empty deque: undefined, and the end of the model.
Running == check # "undefined"

NoRequest == [kind |-> "none"]

Elements(q) == {q[i] : i \in 1 .. Len(q)}

-----------------------------------------------------------------------------

\* A server may be in a match from before the coordinator was started.
Init ==
  /\ clients = {}
  /\ searching_clients = <<>>
  /\ server_list = [s \in ServerId |-> "UNKNOWN"]
  /\ check = "sleep"
  /\ todo = {}
  /\ request = NoRequest
  /\ match = NoRequest
  /\ seat = 1
  /\ in_hand = Nobody /\ chosen = Nobody
  /\ stage = [c \in Client |-> "new"]
  /\ backlog = {}
  /\ unread = {}
  /\ conn = [fd \in Fd |-> Nobody]
  /\ listener = "select" /\ leaving = Nobody
  /\ server_phase \in [ServerId -> {"WAITING", "STARTED"}]
  /\ epoch = [s \in ServerId |-> 0]
  /\ late = {}
  /\ matches = <<>>
  /\ arrivals = <<>> /\ erased = FALSE
  /\ troubled = {}

-----------------------------------------------------------------------------
(* The clients, as client.cpp uses the coordinator. *)

Connect(c) ==
  /\ stage[c] = "new"
  /\ stage' = [stage EXCEPT ![c] = "connected"]
  /\ backlog' = backlog \cup {c}
  /\ UNCHANGED <<unread, queueVars, serverVars, checkVars>>

SendSearch(c) ==
  /\ stage[c] = "connected"
  /\ stage' = [stage EXCEPT ![c] = "searched"]
  /\ unread' = unread \cup {c}
  /\ UNCHANGED <<backlog, queueVars, serverVars, checkVars>>

\* The player closes the client, whatever it is waiting for.
Close(c) ==
  /\ stage[c] \in {"connected", "searched"}
  /\ stage' = [stage EXCEPT ![c] = "closed"]
  /\ UNCHANGED <<backlog, unread, queueVars, serverVars, checkVars>>

-----------------------------------------------------------------------------
(* The listener thread. *)

\* It reads a socket, or accepts, only when it is back at select().
Listening == Running /\ listener = "select"

Accept(c, fd) ==
  /\ Listening
  /\ c \in backlog /\ conn[fd] = Nobody
  /\ backlog' = backlog \ {c}
  /\ conn' = [conn EXCEPT ![fd] = c]
  /\ clients' = clients \cup {fd}
  /\ UNCHANGED <<searching_clients, arrivals, listener, leaving, erased, stage, unread,
                 serverVars, checkVars>>

\* Faulty variant: queues the newest client first.
ReadSearch_PushFront(fd) ==
  /\ Listening
  /\ fd \in clients
  /\ conn[fd] \in unread
  /\ unread' = unread \ {conn[fd]}
  /\ searching_clients' = <<fd>> \o searching_clients
  /\ arrivals' = Append(arrivals, conn[fd])
  /\ UNCHANGED <<clients, conn, listener, leaving, erased, stage, backlog,
                 serverVars, checkVars>>

ReadSearch(fd) ==
  /\ Listening
  /\ fd \in clients
  /\ conn[fd] \in unread
  /\ unread' = unread \ {conn[fd]}
  /\ searching_clients' = Append(searching_clients, fd)
  /\ arrivals' = Append(arrivals, conn[fd])
  /\ UNCHANGED <<clients, conn, listener, leaving, erased, stage, backlog,
                 serverVars, checkVars>>

\* recv returns 0 or an error: close_socket.  The descriptor is closed and still
\* in the queue.  The kernel may give it away again, but accept is not called
\* before EraseClient, so conn keeps the client it was for until then.
CloseSocket(fd) ==
  /\ Listening
  /\ fd \in clients
  /\ conn[fd] \notin unread /\ stage[conn[fd]] = "closed"
  /\ listener' = "closed" /\ leaving' = fd
  /\ UNCHANGED <<clients, searching_clients, arrivals, conn, erased,
                 clientVars, serverVars, checkVars>>

\* Faulty variant: leaves the descriptor in the queue.
EraseSearching_KeepQueue ==
  /\ Running /\ listener = "closed"
  /\ listener' = "erased"
  /\ UNCHANGED <<clients, searching_clients, arrivals, conn, leaving, erased,
                 clientVars, serverVars, checkVars>>

\* The queue without a descriptor: erase(remove(fd)), whose steps are not split.
Without(q, fd) ==
  LET kept[n \in 0 .. Len(q)] ==
        IF n = 0 THEN <<>>
        ELSE IF q[n] = fd THEN kept[n - 1] ELSE Append(kept[n - 1], q[n])
  IN  kept[Len(q)]

EraseSearching ==
  /\ Running /\ listener = "closed"
  /\ listener' = "erased"
  /\ searching_clients' = Without(searching_clients, leaving)
  /\ erased' = (erased \/ leaving \in Elements(searching_clients))
  /\ UNCHANGED <<clients, arrivals, conn, leaving, clientVars, serverVars, checkVars>>

EraseClient ==
  /\ Running /\ listener = "erased"
  /\ listener' = "select" /\ leaving' = Nobody
  /\ clients' = clients \ {leaving}
  /\ conn' = [conn EXCEPT ![leaving] = Nobody]
  /\ UNCHANGED <<searching_clients, arrivals, erased, clientVars, serverVars, checkVars>>

Listener ==
  \/ EraseSearching \/ EraseClient
  \/ \E fd \in Fd : \/ \E c \in Client : Accept(c, fd)
                    \/ ReadSearch(fd) \/ CloseSocket(fd)

-----------------------------------------------------------------------------
(* The check thread. *)

\* The five seconds are over: ask every server for its phase.
Wake ==
  /\ check = "sleep"
  /\ check' = "query"
  /\ todo' = ServerId
  /\ UNCHANGED <<server_list, request, match, seat, in_hand, chosen, matches,
                 queueVars, clientVars, serverVars>>

\* send_message_to_server up to recvfrom.
Send(kind, s) ==
  /\ request' = [kind |-> kind, server |-> s, answer |-> "none", epoch |-> 0]
  /\ todo' = todo \ {s}

SendQuery(s) ==
  /\ check = "query" /\ s \in todo
  /\ Send("query", s)
  /\ check' = "query_wait"
  /\ UNCHANGED <<server_list, match, seat, in_hand, chosen, matches, queueVars, clientVars, serverVars>>

\* A server's phase comes back: "Server ... is available" or "is busy".
ReceiveStatus ==
  /\ check = "query_wait" /\ request.answer # "none"
  /\ server_list' = [server_list EXCEPT ![request.server] = request.answer]
  /\ request' = NoRequest
  /\ check' = "query"
  /\ UNCHANGED <<todo, match, seat, in_hand, chosen, matches, queueVars, clientVars, serverVars>>

\* Faulty variants: one client is enough; two are not.
Matchmake_One ==
  /\ check = "query" /\ todo = {}
  /\ \/ Len(searching_clients) < 1 /\ check' = "sleep" /\ UNCHANGED todo
     \/ Len(searching_clients) >= 1 /\ check' = "prepare" /\ todo' = ServerId
  /\ erased' = FALSE
  /\ UNCHANGED <<server_list, request, match, seat, in_hand, chosen, matches,
                 clients, searching_clients, arrivals, conn, listener, leaving,
                 clientVars, serverVars>>
Matchmake_Three ==
  /\ check = "query" /\ todo = {}
  /\ \/ Len(searching_clients) <= 2 /\ check' = "sleep" /\ UNCHANGED todo
     \/ Len(searching_clients) > 2 /\ check' = "prepare" /\ todo' = ServerId
  /\ erased' = FALSE
  /\ UNCHANGED <<server_list, request, match, seat, in_hand, chosen, matches,
                 clients, searching_clients, arrivals, conn, listener, leaving,
                 clientVars, serverVars>>

\* matchmake looks at the queue once, before it looks for a server.
Matchmake ==
  /\ check = "query" /\ todo = {}
  /\ \/ Len(searching_clients) < 2 /\ check' = "sleep" /\ UNCHANGED todo
     \/ Len(searching_clients) >= 2 /\ check' = "prepare" /\ todo' = ServerId
  /\ erased' = FALSE
  /\ UNCHANGED <<server_list, request, match, seat, in_hand, chosen, matches,
                 clients, searching_clients, arrivals, conn, listener, leaving,
                 clientVars, serverVars>>

\* get_prepared_server passes over the servers it does not know to be waiting.
SendPrepare(s) ==
  /\ check = "prepare" /\ s \in todo
  /\ \/ server_list[s] = "WAITING" /\ Send("prepare", s) /\ check' = "prepare_wait"
     \/ server_list[s] # "WAITING" /\ todo' = todo \ {s} /\ UNCHANGED <<request, check>>
  /\ UNCHANGED <<server_list, match, seat, in_hand, chosen, matches, queueVars, clientVars, serverVars>>

NoPreparedServer ==
  /\ check = "prepare" /\ todo = {}
  /\ check' = "sleep"
  /\ UNCHANGED <<server_list, todo, request, match, seat, in_hand, chosen, matches,
                 queueVars, clientVars, serverVars>>

\* Faulty variant: goes on preparing the remaining servers.
ReceiveTokens_NoReturn ==
  /\ check = "prepare_wait" /\ request.answer = "tokens"
  /\ server_list' = [server_list EXCEPT ![request.server] = "STARTED"]
  /\ match' = [server |-> request.server, epoch |-> request.epoch]
  /\ seat' = 1
  /\ request' = NoRequest
  /\ check' = IF todo = {} THEN "front" ELSE "prepare"
  /\ UNCHANGED <<todo, in_hand, chosen, matches, queueVars, clientVars, serverVars>>

ReceiveTokens ==
  /\ check = "prepare_wait" /\ request.answer = "tokens"
  /\ server_list' = [server_list EXCEPT ![request.server] = "STARTED"]
  /\ match' = [server |-> request.server, epoch |-> request.epoch]
  /\ seat' = 1
  /\ request' = NoRequest
  /\ check' = "front"
  /\ UNCHANGED <<todo, in_hand, chosen, matches, queueVars, clientVars, serverVars>>

\* SO_RCVTIMEO: the request was ignored, or it or its answer was lost or is
\* late.  The entry of server_list stays as it was.
Timeout ==
  /\ check \in {"query_wait", "prepare_wait"}
  /\ Lossy \/ request.answer = "ignored"
  /\ \/ UNCHANGED late
     \/ /\ request.kind = "prepare" /\ request.answer = "none"
        /\ late' = late \cup {request.server}
  /\ troubled' = IF request.answer = "tokens" /\ request.epoch = epoch[request.server]
                 THEN troubled \cup {request.server} ELSE troubled
  /\ request' = NoRequest
  /\ check' = IF check = "query_wait" THEN "query" ELSE "prepare"
  /\ UNCHANGED <<server_list, todo, match, seat, in_hand, chosen, matches,
                 server_phase, epoch, queueVars, clientVars>>

\* The loop over the two tokens: front(), pop_front(), send().
ReadFront ==
  /\ check = "front"
  /\ IF searching_clients = <<>>
     THEN check' = "undefined" /\ UNCHANGED <<in_hand, chosen>>
     ELSE /\ check' = "pop"
          /\ in_hand' = Head(searching_clients) /\ chosen' = conn[Head(searching_clients)]
  /\ UNCHANGED <<server_list, todo, request, match, seat, matches,
                 queueVars, clientVars, serverVars>>

PopFront ==
  /\ check = "pop"
  /\ IF searching_clients = <<>>
     THEN check' = "undefined" /\ UNCHANGED searching_clients
     ELSE check' = "send" /\ searching_clients' = Tail(searching_clients)
  /\ UNCHANGED <<server_list, todo, request, match, seat, in_hand, chosen, matches,
                 clients, arrivals, conn, listener, leaving, erased, clientVars, serverVars>>

\* Who gets what is sent to the descriptor in hand: the client that has it by
\* now, if that is still there.  What send() returns is not looked at.
Recipient ==
  IF conn[in_hand] # Nobody /\ stage[conn[in_hand]] # "closed" THEN conn[in_hand] ELSE Nobody

\* The Match of seat n of the game being handed out.
MatchOf(n) ==
  [server |-> match.server, epoch |-> match.epoch, seat |-> n,
   to |-> Recipient, meant |-> chosen]

\* Faulty variants: the counter is not reset; both get the first token.
SendMatch_NoReset ==
  /\ check = "send"
  /\ matches' = Append(matches, MatchOf(seat))
  /\ seat' = seat + 1
  /\ check' = IF seat = 1 THEN "front" ELSE "sleep"
  /\ chosen' = Nobody
  /\ UNCHANGED <<server_list, todo, request, match, in_hand, queueVars, clientVars, serverVars>>
SendMatch_SameToken ==
  /\ check = "send"
  /\ matches' = Append(matches, MatchOf(1))
  /\ IF seat = 1 THEN seat' = 2 /\ check' = "front" ELSE seat' = 1 /\ check' = "sleep"
  /\ chosen' = Nobody
  /\ UNCHANGED <<server_list, todo, request, match, in_hand, queueVars, clientVars, serverVars>>

SendMatch ==
  /\ check = "send"
  /\ matches' = Append(matches, MatchOf(seat))
  /\ IF seat = 1 THEN seat' = 2 /\ check' = "front" ELSE seat' = 1 /\ check' = "sleep"
  /\ chosen' = Nobody
  /\ UNCHANGED <<server_list, todo, request, match, in_hand, queueVars, clientVars, serverVars>>

CheckThread ==
  \/ Wake \/ (\E s \in ServerId : SendQuery(s) \/ SendPrepare(s))
  \/ ReceiveStatus \/ Matchmake \/ NoPreparedServer \/ ReceiveTokens \/ Timeout
  \/ ReadFront \/ PopFront \/ SendMatch

-----------------------------------------------------------------------------
(* The servers, as server.cpp answers, and the network. *)

\* A Prepare reaches server s: handle_prepare.
Prepared(s) ==
  server_phase' = [server_phase EXCEPT ![s] = IF @ = "WAITING" THEN "PREPARING" ELSE @]

ServeQuery ==
  /\ request.kind = "query" /\ request.answer = "none"
  /\ request' = [request EXCEPT !.answer = server_phase[request.server]]
  /\ UNCHANGED <<server_list, check, todo, match, seat, in_hand, chosen, matches,
                 queueVars, clientVars, serverVars>>

ServePrepare ==
  /\ request.kind = "prepare" /\ request.answer = "none"
  /\ LET s == request.server IN
       /\ Prepared(s)
       /\ request' = [request EXCEPT !.answer = IF server_phase[s] = "WAITING" THEN "tokens" ELSE "ignored",
                                     !.epoch = epoch[s]]
       /\ UNCHANGED late \/ (Lossy /\ late' = late \cup {s})
  /\ UNCHANGED <<server_list, check, todo, match, seat, in_hand, chosen, matches, epoch,
                 troubled, queueVars, clientVars>>

\* A Prepare nobody waits for any more; the answer goes to a closed socket.
LatePrepare(s) ==
  /\ s \in late
  /\ Prepared(s)
  /\ late' = late \ {s}
  /\ troubled' = IF server_phase[s] = "WAITING" THEN troubled \cup {s} ELSE troubled
  /\ UNCHANGED <<epoch, queueVars, clientVars, checkVars>>

\* Both players of the match have joined: handle_join.
MatchStarts(s) ==
  /\ server_phase[s] = "PREPARING"
  /\ \A n \in {1, 2} : \E i \in 1 .. Len(matches) :
       /\ matches[i].server = s /\ matches[i].epoch = epoch[s] /\ matches[i].seat = n
       /\ matches[i].to # Nobody
  /\ server_phase' = [server_phase EXCEPT ![s] = "STARTED"]
  /\ UNCHANGED <<epoch, late, troubled, queueVars, clientVars, checkVars>>

\* The server process is replaced by a new one, with new tokens.
Restart(s) ==
  /\ epoch[s] < MaxEpoch
  /\ epoch' = [epoch EXCEPT ![s] = @ + 1]
  /\ server_phase' = [server_phase EXCEPT ![s] = "WAITING"]
  /\ troubled' = troubled \ {s}
  /\ UNCHANGED <<late, queueVars, clientVars, checkVars>>

Answer == ServeQuery \/ ServePrepare

Environment ==
  \/ \E c \in Client : Connect(c) \/ SendSearch(c) \/ Close(c)
  \/ Answer
  \/ \E s \in ServerId : LatePrepare(s) \/ MatchStarts(s) \/ Restart(s)

-----------------------------------------------------------------------------

Next == Listener \/ CheckThread \/ Environment

Spec == Init /\ [][Next]_vars

\* The two threads keep being scheduled and a server that is asked answers.
FairSpec == Spec /\ WF_vars(Listener) /\ WF_vars(CheckThread) /\ WF_vars(Answer)

-----------------------------------------------------------------------------
(* Properties. *)

SomebodyLeft == \E c \in Client : stage[c] = "closed"

TypeOK ==
  /\ clients \subseteq Fd /\ conn \in [Fd -> Client \cup {Nobody}]
  /\ searching_clients \in Seq(Fd) /\ arrivals \in Seq(Client)
  /\ server_list \in [ServerId -> Phase]
  /\ check \in {"sleep", "query", "query_wait", "prepare", "prepare_wait",
                "front", "pop", "send", "undefined"}
  /\ todo \subseteq ServerId
  /\ request \in {NoRequest} \cup
       [kind : {"query", "prepare"}, server : ServerId,
        answer : Phase \cup {"none", "ignored", "tokens"}, epoch : 0 .. MaxEpoch]
  /\ match \in {NoRequest} \cup [server : ServerId, epoch : 0 .. MaxEpoch]
  /\ listener \in {"select", "closed", "erased"} /\ leaving \in Fd \cup {Nobody}
  /\ seat \in {1, 2} /\ in_hand \in Fd \cup {Nobody} /\ chosen \in Client \cup {Nobody}
  /\ erased \in BOOLEAN
  /\ stage \in [Client -> {"new", "connected", "searched", "closed"}]
  /\ backlog \subseteq Client /\ unread \subseteq Client
  /\ server_phase \in [ServerId -> Phase \ {"UNKNOWN"}]
  /\ epoch \in [ServerId -> 0 .. MaxEpoch]
  /\ late \subseteq ServerId /\ troubled \subseteq ServerId
  /\ matches \in Seq([server : ServerId, epoch : 0 .. MaxEpoch, seat : {1, 2},
                      to : Client \cup {Nobody}, meant : Client \cup {Nobody}])

\* Every descriptor in the queue is a connection the listener still keeps, each
\* at most once, so none is queued when the kernel gives it to the next client;
\* and the only closed one the check thread may find there is the one whose
\* disconnect the listener is handling, and only before it has erased it.
QueuedAreConnected ==
  /\ Elements(searching_clients) \subseteq clients
  /\ leaving \in Elements(searching_clients) => listener = "closed"
  /\ \A i, j \in 1 .. Len(searching_clients) :
       searching_clients[i] = searching_clients[j] => i = j

\* A token is sent at most once: no two clients are given the same seat of the
\* same server process, whatever is lost, late or duplicated.
NoSeatTwice ==
  \A i, j \in 1 .. Len(matches) :
    /\ matches[i].server = matches[j].server /\ matches[i].epoch = matches[j].epoch
    /\ matches[i].seat = matches[j].seat
    => i = j

\* As long as nobody disconnects, the clients that searched are served in the
\* order they searched, each once: those with a Match, then the one in hand,
\* then the queue.
ServedInOrder ==
  ~SomebodyLeft =>
    arrivals = [i \in 1 .. Len(matches) |-> matches[i].to]
               \o (IF check = "send" THEN <<conn[in_hand]>> ELSE <<>>)
               \o [i \in 1 .. Len(searching_clients) |-> conn[searching_clients[i]]]

\* The deque is empty at front() or pop_front() only where the listener has
\* taken a client out of it after matchmake looked at its size.
UndefinedOnlyIfLeft == check = "undefined" => erased

\* Seat n of the process that server s now is was sent, and the client whose
\* turn it was got it.
Told(s, n) ==
  \E i \in 1 .. Len(matches) :
    /\ matches[i].server = s /\ matches[i].epoch = epoch[s] /\ matches[i].seat = n
    /\ matches[i].to = matches[i].meant

\* A server that was asked to prepare and has its two tokens with nobody, or not
\* with the two clients whose turn it was.
Stranded(s) ==
  /\ server_phase[s] = "PREPARING"
  /\ ~(check = "prepare_wait" /\ request.server = s /\ request.answer = "tokens")
  /\ ~(check \in {"front", "pop", "send"} /\ match.server = s)
  /\ ~(Told(s, 1) /\ Told(s, 2))

\* A Match of this process of s missed its client, which has closed.
Left(s) ==
  \E i \in 1 .. Len(matches) :
    /\ matches[i].server = s /\ matches[i].epoch = epoch[s]
    /\ matches[i].to # matches[i].meant
    /\ matches[i].meant \in Client /\ stage[matches[i].meant] = "closed"

\* A server waits for players that were never told of it only for one of three
\* reasons: the answer to its Prepare was lost, or its Prepare came when nobody
\* waited for the answer any more, since this process was started; or one of the
\* two clients closed before its Match was sent.  (The fourth, an empty queue,
\* ends the model.)
StrandedOnlyByTrouble ==
  Running => \A s \in ServerId : Stranded(s) => s \in troubled \/ Left(s)

\* Two clients that wait while a server is free are not left waiting.
WaitingAreMatched ==
  Len(searching_clients) >= 2 /\ (\E s \in ServerId : server_phase[s] = "WAITING")
    ~> \/ Len(searching_clients) < 2 \/ ~Running
       \/ \A s \in ServerId : server_phase[s] # "WAITING"
=============================================================================
