# Verification of multi-pong

multi-pong is a two-player Pong over the network. Three kinds of process make
one game: **clients** draw the field and send key presses, **game servers** run
one match each, and a **coordinator** brings two clients that search together
on a server that waits. The repository has the system several times over: in
C++ (all three), Java (all three), Python (all three) and Rust (a coordinator
in progress), speaking one protocol (`_protobufs/pong.proto`).

This directory holds TLA+ modules of the system, TLC configurations that check
them on small instances, and TLAPS proofs for every size. The C++ program is
the reference implementation: it is modelled in most detail, composed, and
proved about. The Java, Python and Rust programs have models of their own.

    tlc -config MCServer_lobby.cfg MCServer          # check one instance
    tlapm ServerProofs.tla                           # check the proofs of a module

## 1. Inventory

### How the parts interact

    client --TCP Search--> coordinator --UDP Query/Prepare--> server
    client <--TCP Match--- coordinator <--UDP Status/Tokens-- server
    client --UDP Join, Movement--> server --UDP State, every frame--> client

There are no acknowledgements and no retransmissions; the only timeout is the
coordinator's one second for an answer. No process persists anything.

### C++ game server (`cpp/server.cpp`)

*State*: the two random `tokens`, `status.phase` (WAITING, PREPARING, STARTED),
the maps `clients` (token -> player) and `token_addresses`, the ball and its
velocity, the `state` message with frame counter and both players.
*Operations*: the listener thread handles Prepare, Join, Movement and Query;
`game_loop`, a detached thread, moves the ball, scores, moves the paddles,
reflects and broadcasts 128 times a second.
*Hard*: both threads use `clients` without a lock; datagrams are lost,
duplicated, late and reordered; the first iteration order of a hash map decides
what is sent.
*Correct when*: the two seats are given out once and a running match keeps its
players; one game loop; the loops over `clients` never see an insertion; the
ball stays in play; one point per goal; every frame goes to both players, the
same and in order; nobody starves.

### C++ coordinator (`cpp/coordinator.cpp`)

*State*: the connected descriptors, the deque `searching_clients`, and
`server_list`, the phase last heard of each server.
*Operations*: the listener (`select`) accepts, queues and forgets clients; the
check thread asks every server for its phase every five seconds and then
matches the two clients at the front.
*Hard*: the deque is shared without a lock and its size is tested two network
round trips before it is popped; descriptors are reused; a Prepare that timed
out may have been obeyed; a disconnect is handled in three steps; results of
`send` are ignored.
*Correct when*: a descriptor leaves the queue before it is used again; a token
goes to one client; clients are served in order and once; a server is not left
prepared for nobody; waiting clients and a free server meet.

### C++ client (`cpp/client.cpp`)

*State*: token, server address, last `state`; no lock.
*Operations*: connect, search, `handle_match` (sends Join once, starts a
`listen_server` thread), `listen_server` (stores each State), `send_move` and
the drawing in the window's thread.
*Hard*: three threads; a key before the match; a Match before the socket
exists; overtaken frames; a State that is drawn while it is stored.
*Correct when*: a Match is joined at its server; a movement carries a token
with the address it belongs to; the screen never goes back in time and does not
stop; two clients that were matched play each other.

### The other implementations

They follow the same design with differences that have models of their own:

| Part | Where it differs |
|---|---|
| Java server | immutable `State`; Movement accepted in every phase; wall, goal and paddle tests exclude each other; a wrong secret is only logged |
| Java coordinator | one socket for all queries and one for all prepares, so late answers are taken for the next server's; duplicates are kept out of the queue, but disconnected clients stay in it |
| Java client | ignores States with another token, not older frames |
| Python server | players live in `state` itself, which both threads use; Movement writes it during a broadcast; PLAYER_2 scores two |
| Python coordinator | an orderly disconnect is not noticed; an exception in `send` ends the check thread; a timeout sets the phase to UNKNOWN |
| Python client | drops old frames; `last_frame` is written before `state` |
| Rust coordinator | holds a mutex over a call that locks it; no receive timeout |

Renderers, argument parsing, logging, the generated protobuf code, vendored
OpenGL loaders and build files keep no protocol state; section 6 says what of
them is left out.

## 2. Modules

| Module | Stands for |
|---|---|
| `PongGeometry` | the arithmetic of `game_loop`: paddles, hit test, rebound |
| `Server` | one C++ game server process, its two threads; properties and the mapping to `MatchSeats` |
| `MatchSeats` | abstract specification: what any of the three servers promises about its two seats |
| `Coordinator` | the C++ coordinator's two threads, with clients, kernel, servers and network around them |
| `Client` | one client process after it has connected: the C++, the Java or the Python one |
| `System` | coordinator, servers' lobbies and clients composed, from Search to game; implements `Coordinator` |
| `CoordinatorWorld` | state, clients, servers and network that the next two share |
| `JavaCoordinator`, `PythonCoordinator` | the two threads of each |
| `GameServer` | fields that the next two share; the mapping to `MatchSeats` |
| `JavaServer`, `PythonServer` | the two threads of each |
| `RustCoordinator` | the check thread and its mutex |
| `MCServer`, `MCCoordinator`, `MCClient`, `MCSystem`, `MCServers`, `MCCoordinators` | model-checking instances: symmetry sets, the state constraints of the composition and of the clients, and for the last two the choice of the program that runs; the `.cfg` files give the constants |
| `PongGeometryProofs`, `ServerProofs`, `CoordinatorProofs`, `SystemProofs`, `ServersProofs`, `CoordinatorsProofs`, `ClientProofs`, `RustCoordinatorProofs` | theorems |

In the modules a definition called `X_Variant` (`HandleJoin_AnyPhase`,
`SendMatch_NoReset`, ...), commented "Faulty variant", is not part of the
specification: it is a plausible bug put in the place of `X` to show that the
property aimed at it does fail then.

### Server

The listener's actions are `HandlePrepare`, `HandleJoin` and `HandleMovement`,
one per handler and atomic: a handler makes one change the game thread can see
at a time, and the maps it extends are extended only before that thread exists
(which is what `PlayersStayPut` checks). They are enabled at any time, for any
address and token, which is what a network that duplicates, delays and reorders
amounts to. A handler that returns early, and `handle_query`, which only
answers, change no state and are stuttering steps.

The game thread is cut where it shares data. The variable `game` is its program
counter and `cursor` the keys its current loop has yet to visit:

| `game` | Action | Code |
|---|---|---|
| `spawned` | `EnterLoop` | `server.cpp:212-219`, `reset_ball` |
| `move` | `MoveBall` / `ScorePoint` | `221-228` / `230-235` |
| `paddles` | `TestUp` | the test for UP, per player |
| `not_up` | `TestDown` | the second read of the direction |
| `hit` | `HitPaddle` | `249-258` |
| `copy_1`, `copy_2` | `CopyFirst`, `CopySecond` | `302-305` |
| `send` | `SendState` | `306-309`, one `sendto` each |

`first` is the key `clients.begin()` points at: the order of the hash map is
arbitrary and may change on insertion only. `sent`, `grants` and `game_threads`
record what left the process (last State per token, Tokens datagrams, threads).

Positions are integers: 1.0 is `Field` grid units. With 4800 units every
constant of `common.h` but the rebound factor is whole, and the theorems hold
for every choice of constants. The product of a rebound is rounded to either
side (`ReboundSpeeds`), and may also be left unchanged, because the unqualified
`abs` in `server.cpp:255` is, depending on the headers, the function on `int`.
`MaxSpeed` bounds the horizontal speed, which the code does not: a rebound that
would exceed it is not taken, so a behaviour of the model may end at `hit`
where the code goes on (the liveness runs choose speeds where it does not).

### Coordinator

The check thread is cut at each datagram it waits for and each access to the
deque: `Wake`, `SendQuery`, `ReceiveStatus`, `Matchmake` (the size test),
`SendPrepare`, `ReceiveTokens`, `NoPreparedServer`, `Timeout`, and per token
`ReadFront`, `PopFront`, `SendMatch`. The listener's actions are `Accept`,
`ReadSearch`, and for a disconnect `CloseSocket`, `EraseSearching` and
`EraseClient` (`coordinator.cpp:272`, `273`, `274`), between which the check
thread may run (`listener` says where it is, `leaving` which descriptor it
forgets) while nothing is accepted or read. `conn` keeps the client a
descriptor was for until `EraseClient`: the kernel may give the number away
from `CloseSocket` on, but only the listener's own `accept` takes connections.
Several disconnects in one pass of `select` are several of these triples. `front()` or `pop_front()` on an empty deque is
undefined behaviour: `check = "undefined"` is the end of the model, which is
why these runs do not check for deadlock. Individual deque operations are taken
as atomic although they race; the properties concern their order. `server_list`
is visited in any order, which includes the order of the map.

Around the process: a client connects, searches once and may close at any time
(`client.cpp`); a freed descriptor goes to any later client; a server may be in
a match when the coordinator starts, answers as `server.cpp` does and may be
restarted `MaxEpoch` times with new tokens (`epoch` tells its processes apart).
With `Lossy`, any request or answer may be lost, and a Prepare may arrive after
the timeout or twice (`late`); answers that are late reach a closed socket.
A Match records whom it reached and whom it was meant for: `to` is the client
that has the descriptor when `send` is called, or `Nobody` if that has closed,
since the result of `send` is not looked at; `meant` is the client that had it at
`front()`. The other histories are `arrivals` (the Searches in order), `erased`
(was the queue shortened by a disconnect since its size was looked at) and
`troubled` (servers whose present process was prepared with nobody to receive
its tokens; a restart clears it).
`MatchStarts` lets a match start once both tokens were sent to a connection;
`System` puts the clients' Joins in its place.

### System

`System` extends `Coordinator`. A client reads each Match once and sends one
Join (`ReadMatch`); a Join may be lost (`LoseJoin`), may arrive and stay on the
network to arrive again, and may arrive late, also after the server was
restarted, where its token is a foreign one (`IgnoreJoin`). `lobby` is the
server's map of players, `games` the matches that started, with the process
(`epoch`) they run in. `read` and `lost` record what the properties speak of.
All other steps are `Coordinator`'s own; `MatchStarts` is not among them, and
that `Join` does no more than `MatchStarts` allows is `ImplementsCoordinator`.

### Client

Each thread is a sequence of steps on the fields it shares, one sequence per
program: `HandleMatch`, `Store`, `SendMove` and `Draw` are records by program,
and an action executes the first step of a thread's remaining ones. So the
difference between, say, C++ (token, address, Join, then the listener thread)
and Java (token, address, listener, Join) is a difference of two tuples. In C++ a
`std::string` and a protobuf message are not assigned in one step: token and
address are `Torn` while they are written, and a `state` is cleared and then
filled part by part. A server's address is named by the token it gave out, so
that "the address belongs to the token" is an equality.

Every Match on the stream starts `handle_match`, in C++ also one that was
not asked for or comes before the socket exists (`unsought`). Servers send
States once they got the Join; the network delivers any State sent so far to
any listener at any time, which covers loss, repetition and overtaking.

### Java and Python coordinators

A connection is an object there, never reused for another client, so a client
stands for it. Requests are records with the socket they were sent from; those
whose sender has stopped waiting are `late`. In Java all queries share a
socket, as do all prepares: a late answer stays in `inbox` and is read as the
answer of the next server. In Python each request has its own, and a late answer
finds it closed. In Python a `recv` that raises closes the connection and takes
the client out of the list in two steps; an orderly end is not seen; `send` to a
closed or reset connection, or `pop` from an empty list, raises and leaves the
check thread `dead`.

### Java and Python servers

The listener's handlers are atomic, as in `Server`. The Java game thread reads
the two directions from a concurrent map and replaces an immutable state, so its
frame is two reads, one computation (`NextFrame`, with exactly one of
`HitWall`, `ScorePoint`, `Fly`) and two sends. The Python one works on the State
object a Movement writes to, and is cut like the C++ one.

### RustCoordinator

One thread: it collects the addresses under the mutex, whose guard lives to the
end of the loop's body, asks each server, waits without a timeout, and
`StoreStatus` needs the mutex again. Only a Status gets there: after a failed
receive (`ReceiveError`), a datagram that does not decode, Tokens, any other
message or an empty one, `Receive` goes on to the next server.

## 3. Runs

| Run | Asks |
|---|---|
| `server_lobby` | does any order, number or origin of Prepare, Join and Movement disturb a match? Types, `PlayersStayPut`, `OneGameLoop`, and refinement of `MatchSeats` |
| `server_game` | is the game right with movements between any two steps of the loop? `BallInField`, `OnePointPerGoal`, `SameFrameSameState`, `FramesInOrder` |
| `server_live` | does it go on? `KeepsBroadcasting`, `BallKeepsMoving`, `HeldDirectionArrives` |
| `server_player_fields` | expected to fail: are `player_1` and `player_2` what their names say? |
| `coordinator_servers` | with a bad network, restarts and leavers: `NoSeatTwice`, `StrandedOnlyByTrouble`, types |
| `coordinator_clients` | with clients that come and go, on a good network: `QueuedAreConnected`, `ServedInOrder`, `UndefinedOnlyIfLeft` |
| `coordinator_live` | do two waiting clients and a free server meet? `WaitingAreMatched` |
| `system` | from Search to game: who plays with whom (`NeighboursPlay`), what can keep matched clients from playing (`MatchedPlay`), and refinement of `Coordinator` (`ImplementsCoordinator`) |
| `clients` | the three clients: Joins (`MatchIsJoined`), Movements (`MisaddressedOnlyByOverlap`, `NeverTokenless`), the screen (`ScreenNeverGoesBack`, `StaleOnlyByRace`, `FrozenOnlyAtFirstFrame`) |
| `other_coordinators` | Java and Python: does a Match fit its server, who is served in order, are seats given twice? |
| `other_servers` | Java and Python: `OneGameLoop`, `BallShownInField`, `ScoredOnce`, `SameForBoth`, and refinement of `MatchSeats` |
| `rust_coordinator` | expected to fail: are the servers checked again and again? |

Bounds and why they are enough:

- Server: two token strings that are the process's own, a third that is foreign
  and two addresses in the lobby run; one address in the game runs, where addresses are
  no longer looked at. `FrameSpace` and `ScoreSpace` of 2 make both counters
  wrap. `HalfField` 2 or 3 with steps of 1 is the smallest field on which the
  ball reaches walls, goals and paddles in one run; speeds up to `MaxSpeed`.
- Coordinator: `coordinator_servers` has two servers, three clients on two
  descriptors (so one is reused), one restart per server and the lossy network; `coordinator_clients` has
  four clients, so two matches, three descriptors, one server restarted once, and
  `Lossy = FALSE`: its properties are about the two threads, a lost datagram
  only makes the check thread start over, which `coordinator_servers` has with
  three clients, and the theorems hold for the lossy network too.
- System: four clients, so two matches, on one server that may be restarted,
  with the lossy network. `Bounds` keeps this within minutes: the fourth client
  comes only if nobody leaves, and clients leave only where no Prepare exchange
  was disturbed and no Join was lost; each of these is looked at without the other, and the theorems
  need neither.
- Client: two tokens, so a second, unsought Match; `MaxFrame` 2 and the constraint
  `Bounds`, that the servers send two frames together: one game in which a
  frame is overtaken or two games with a frame each.
- Java and Python coordinators: four clients, so two matches, two servers,
  `MaxLeave` 1 client that leaves (in order or by a reset), and `MaxLate` 1
  answer that outlives its request, which is what it takes to be read in place
  of another one.
- Java and Python servers: as for the C++ server, with two addresses; a
  `ScoreSpace` of 3, since Python's PLAYER_2 scores two.
- The symmetry sets are permutations of addresses, tokens, clients, descriptors
  and servers, which the modules compare only for equality; runs with liveness
  use none.

What `server_player_fields` shows: `send_state_to_all_players` copies the
players in the order of an `unordered_map` keyed by random tokens. In about
half of all matches both clients are sent PLAYER_2's record as `player_1`; the
renderers draw it at the left, while the server tests PLAYER_1's paddle there.
`HeldDirectionArrives` therefore looks a player up by its identifier.

What the coordinator runs say about the unlocked queue: as long as nobody
disconnects, clients are served in order, each once, and the deque is never
empty when it is popped. If somebody disconnects between the size test and the
pops, the deque may be empty (undefined; `UndefinedOnlyIfLeft` says that
a client that left earlier cannot cause it), the wrong client may be popped, and
a Match may go nowhere or to a descriptor that now belongs to somebody else.
The check thread may also read a closed descriptor from the queue, but only
between `CloseSocket` and `EraseSearching` of that disconnect
(`QueuedAreConnected`), and never one that was given to a later client.
`StrandedOnlyByTrouble` lists what leaves a server in PREPARING, from which
nothing takes it back, for players that were not both told of it: the answer to
its Prepare was lost, its Prepare came when nobody waited for the answer any
more (late or doubled), or one of the two clients closed before its Match was
sent; each counts for the process of the server that is running. The second of
two clients that were popped is not told either if the deque was empty, but
there the model ends.

What `clients` shows: the order in which `handle_match` writes its two fields
and `send_move` reads them decides whether a Movement can go to the wrong
server, and it can in all three programs, only while a second Match is
handled. Before the first Match a C++ client sends a Movement without a token
nowhere (a `None` to a `None` here, which no property forbids); Java and
Python do not send it. The C++ client loses the Join of a
Match that it is sent before it searched. Python's window drops overtaken
frames, but may stop for good at the first frame, when `last_frame` is there and
`state` is not, and may miss the last one. Java's listener reads the field again
to show it (`UpdateScreen`), which shows a newer State if a second listener has
stored one.

What `other_coordinators` shows: the Java coordinator sends clients to a server
with another one's tokens only if the answer to a Prepare came after its timeout.
Datagrams that are duplicated are not in `CoordinatorWorld`: a second copy of a
Tokens answer in Java's shared socket would have the same effect as a late one,
and that case is not checked. In both programs a client that disconnects in
order stays in the queue and is served in its turn, which is what the code does
and what the two order properties say. In Python tokens are not mixed up, but one reset connection may end the
matchmaking for ever.

What `rust_coordinator` shows: the first Status that is received blocks the
check thread, because `send_message_to_server` locks the mutex that
`check_servers` holds, and this even where all servers run and answer with
nothing but a Status. A round in which no Status comes does end. `RustCoordinatorProofs` proves what follows from it for
any set of servers.

What `system` shows: nobody is told when a Join is lost. The two players of a
match may then wait for ever, one of them joined; `MatchedPlay` says that a lost
or delayed Join, a restart or a client that left is the only way to get there.
It is an invariant and not a liveness property: reading and delivering are the
only steps between a Match and its game, and whether they happen is the network's
decision alone.

### Fairness

- `Server!FairSpec`: weak fairness of the game thread alone. It never waits for
  anything but a bounded sleep, and each of its steps stays enabled until it is
  taken. Nothing is assumed of the network or the listener; the premise of
  `HeldDirectionArrives` is that a direction is held for good.
- `Coordinator!FairSpec`: weak fairness of the listener (it sits in `select` and
  serves what is ready), of the check thread (it sleeps five seconds and every
  wait has a timeout) and of a server's answer. Without it two clients could
  wait for ever for a server that never answers. Liveness is checked with
  `Lossy = FALSE`: a network that may lose everything promises nothing.

- `RustCoordinator!FairSpec`: weak fairness of the thread and of the answer of a
  server that runs. The property speaks of the case that all of them run, so
  its failure is the thread's own.

## 4. Proofs

`PongGeometryProofs` proves, for all constants that meet `GeometryAssumption`,
what the game uses of its arithmetic: a paddle stays in the field; the part of
a paddle that is hit lies on it (`HitIsOnPaddle`); a rebound makes the ball at
most a quarter faster (`ReboundBounded`); a ball slower than the width of ball
and paddle together cannot pass a paddle in its way unseen
(`SlowBallMeetsPaddle`). The last one marks the limit of the code, since repeated
edge hits raise the speed without bound; the limit is exact (`FastBallMayPass`:
at every speed from there on, some ball passes unseen).

`ServerProofs` proves, from `ServerAssumption` and `GeometryAssumption` alone
(two different tokens exist, `MaxSpeed` is at least the serve), every safety
property of the server runs but the one that fails:

| Theorem | Property |
|---|---|
| `TypeCorrect` | `TypeOK` |
| `PlayersFixed` | `PlayersStayPut` |
| `SingleGameLoop` | `OneGameLoop` |
| `BallStaysInField` | `BallInField` |
| `ImplementsMatchSeats` | `SeatsSpec` |
| `SameFrameToBoth` | `SameFrameSameState` |
| `EveryFrameInOrder` | `FramesInOrder` |
| `GoalsScoreOnce` | `OnePointPerGoal` |

The argument has two layers. `IInv` is `TypeOK /\ SeatsInv /\ BallInv`.
`SeatsInv` says what each phase means for the maps: nobody before a Prepare,
some of the two tokens while PREPARING, exactly both and one game thread from
STARTED on. It is what makes `PlayersStayPut` inductive: every `operator[]` of
the game thread finds its key because no Join is accepted any more, and a
Movement's key is one of the two. `BallInv` relates position and velocity: a
ball past a wall moves inwards, which is needed because the code reverses the
ball without putting it back.

`BroadcastInv` rests on `IInv`: it relates the last State sent to each token to
the frame counter and to the `cursor` of the broadcast loop (tokens still to be
visited have the previous frame, the others the current one). `SameFrameToBoth`
and `EveryFrameInOrder` follow; frame numbers wrap, so the argument only uses
that successive frames differ (`NextFrameDiffers`). `ScoreInv`'s part is that
`get_token_by_player_id` finds exactly the player with the identifier, so that
`ScorePoint` changes one score and every other step none. The refinement proof
maps each server step to a step or a stutter of `MatchSeats` (`StepImplements`).

Of the liveness properties of the game thread, `KeepsBroadcasting`,
`BallKeepsMoving` and `HeldDirectionArrives`, the part that does not depend on
fairness is proved: a number that every step of the thread lowers. `StepsLeft` counts the steps to the top of
the loop, at most ten, and nothing it depends on is changed by the listener, so
no flood of datagrams keeps a frame from being finished (`FramesAreFinished`);
`FlightLeft`, ten times the ball's distance from the goal ahead plus `StepsLeft`,
reaches the frame in which the ball is in the goal or hit (`BallArrives`). They
need `WorkInv`: a loop over the players has one left when it looks for one, and
a ball that was served never gets slower than at its serve. `HeldLeft`, sixteen
times a paddle's distance from the end it is held towards plus the steps to the
thread's next visit of it (`VisitLeft`), says that the paddle arrives
(`HeldPaddleArrives`): it never turns back, no Movement of the other player
delays it, and only the one visit counts for nothing in which UP was received
between the two tests of that paddle (`BetweenTests`). That both players are
shown it there is the broadcast's part, `FramesAreFinished` and `BroadcastInv`.

`CoordinatorProofs` proves, from `CoordinatorAssumption` alone (`Nobody` is no
client and no descriptor, `MaxEpoch` a natural number, `Lossy` a truth value), every safety property of
the coordinator runs, for any number of clients, descriptors, servers and
restarts and for the lossy network as well as the good one:

| Theorem | Property |
|---|---|
| `TypeCorrect` | `TypeOK` |
| `QueueIsConnected` | `QueuedAreConnected` |
| `TokensAreSentOnce` | `NoSeatTwice` |
| `EmptyQueueNeedsLeaver` | `UndefinedOnlyIfLeft` |
| `StrandedNeedsTrouble` | `StrandedOnlyByTrouble` |
| `ServedInArrivalOrder` | `ServedInOrder` |

The inductive invariant `IInv` has a part per question, each kept by its own
lemma: `ControlOK` (where the check thread is and what it holds there; a
request is out exactly while it waits; where the listener is and what it
forgets there), `ConnectionsOK` (a descriptor the listener keeps and
its client belong together, and a client whose Search was not read is not queued;
`QueuedAreConnected` needs it when a descriptor is taken again), `SeatsOK`
(which Matches may exist for a process: none before its tokens were received,
at most the first while they are handed out; it makes `NoSeatTwice` inductive),
`TroubleOK` (an untroubled server that is PREPARING has its answer on the way,
in hand, or both Matches sent), `MeantOK` (every Match was meant for a client,
one that has closed where it reached another or nobody: until a descriptor is
given away its client is closed, `ClosedForever`), `LengthOK` (the queue is as
long as the round still needs, unless it was shortened since the size test), and
`OrderOK` (while nobody has left, Matches, the client in hand and the queue are,
place by place, the arrivals). `StrandedNeedsTrouble` follows from `TroubleOK`
and `MeantOK`, `EmptyQueueNeedsLeaver` from `LengthOK`. `OrderOK` is stated by indices;
`OrderGivesConcatenation` turns it into `ServedInOrder`.

`RoundsEnd` is to `WaitingAreMatched` what `FramesAreFinished` is to
`KeepsBroadcasting`, for any finite set of n servers: `RoundLeft` counts what a
round of `check_status` has still to do, every step of the check thread but
`Wake` lowers it, nobody else changes it, and it is at most 4n + 9. The thread
is thus asleep again, or at the end of the model, after a bounded number of its
own steps, whatever is lost and whoever comes and goes.

What `erase(remove(fd))` leaves of the queue is computed by a recursive function
of the library. Its facts (`WithoutProperties`: nothing new, `fd` gone, no new
repetition) are proved without an induction over data: `KeptStep` follows the
recursion one place further, and a least place where it could not be followed
(`LeastCounterexample`) is contradicted (`KeptExists`).

`SystemProofs` rests on these: every step of `System` is a step of `Coordinator`
or leaves it alone (`StepImplements`), so that `IInv` holds there too.

| Theorem | Property |
|---|---|
| `SystemImplementsCoordinator` | `ImplementsCoordinator` |
| `NeighboursPlayEachOther` | `NeighboursPlay` |
| `MatchedClientsPlay` | `MatchedPlay` |

The refinement needs `GivenOK`: whoever sends a Join, sits in a lobby or plays
was sent that seat's Match, of that process; so the step that starts a game finds both
Matches, which is `MatchStarts`. For `NeighboursPlay`, `PairsOK` says that
Matches come in pairs of one process, seat 1 at an odd place and seat 2 after
it; with `ServedInOrder` the players are an odd arrival and the next, and with
`ArrivedOK` (one Search, one arrival) nobody is in two games. For
`MatchedPlay`, `PromiseOK` says that a process whose tokens were received, are
being handed out, or were sent in a Match is PREPARING or plays: no valid Join
finds it in another phase; and `ReadOK` follows a Match that was read: its Join
is on the way, lost, in the lobby, or its game has started.

`SystemKeepsSeats` closes the gap between `System`, which has a server only as a
phase and a lobby, and the modules of the servers: between two restarts, each
server of `System` takes steps of `MatchSeats` only (`Seats(s)` is the mapping),
the abstract specification that `Server` and `GameServer` are proved to
implement.

`ServersProofs` is about the Java and the Python server, as `MCServers` runs them
(`ServersSpec`), for any addresses, field, speeds and counters:

| Theorem | Property |
|---|---|
| `ServersImplementMatchSeats` | `SeatsSpec` |
| `ServersOneGameLoop` | `OneGameLoop` |
| `ServersSameForBoth` | `SameForBoth` |
| `ServersShowBallInField` | `BallShownInField` |
| `ServersScoreOnce` | `ScoredOnce` |
| `ServersTypeCorrect` | `TypeOK` |

Its invariant has three parts, each kept by the steps of either server:
`LobbyOK` (what each phase means for the map of players and, in Python, for the
list of those who joined), `BroadcastOK` (between broadcasts both players have
the last frame; within one, those still to be served have an older one, the
others the current one) and `BallOK` (a ball past a wall flies back, and is past
it by less than a step). That the ball's position is bounded needs one more,
`FlightOK`: a ball past a goal line flies outwards and is at a wall only, so that the
next step of the loop finds it in the goal. `BallOK` does not bound x.
`ServersFinishFrames` says of both game loops what `FramesAreFinished` says of
the C++ one: a frame is with both players after at most eight steps.

`CoordinatorsProofs` is about the Java and the Python coordinator, as
`MCCoordinators` runs them (`CoordinatorsSpec`), for any number of clients,
servers, departures and late answers:

| Theorem | Property |
|---|---|
| `SeatsGivenOnce` | `NoSeatGivenTwice` |
| `JavaFits` | `JavaMatchFitsServer` |
| `PythonFits` | `PythonMatchFitsServer` |
| `JavaInOrder` | `JavaServedInOrder` |
| `PythonInOrder` | `PythonServedInOrder` |
| `CoordinatorsTypeCorrect` | `TypeOK` |

What the two do to requests, tokens and queue is alike, so their steps are
first sorted into ten kinds (`JavaStepKind`, `PythonStepKind`), and every part of
the invariant is kept by every kind. `Requests` says where answers can be: a
request that is not late is the one waited for, and as long as nothing came late
at most one answer waits where those to a Prepare come, from the server asked;
in Python nothing ever comes late, because a late request's socket is closed.
`FitOK` follows from it. `Tokens` says that the tokens of a server are in one
place (on the way, waiting, in hand, or in Matches whose seats are below the
next one) and that their server has left WAITING for good. `Order` is stated
by indices like that of the C++ coordinator, with what keeps the queue long
enough for the round; it is promised until a reset in Python (`Calm`), where the
listener alone may take a client out of the queue. The hard conjunct of `TypeOK`
is that a socket holds at most `MaxLate + 1` answers: one waits for the thread
and the others came late. It is `RoomOK`, a count: what is on the way and in the
shared sockets is at most `MaxLate`, and one more exactly while the thread waits
for it; sending makes room for one, a timeout uses it up, and what is received
is one less, whichever it was. `CoordinatorsRoundsEnd` bounds the rounds of both
check threads as `RoundsEnd` does those of the C++ one: what comes late, or is taken
for another server's answer, does not make a round longer.

`ClientProofs` is about the three clients, from `ClientAssumption` alone (a token
is not the name of an empty or half-written field), for any number of tokens,
Matches, listeners and frames:

| Theorem | Property |
|---|---|
| `MovementsReachTheirServer` | `MisaddressedOnlyByOverlap` |
| `MovementsHaveTokens` | `NeverTokenless` |
| `MatchesAreJoined` | `MatchIsJoined` |
| `WindowFreezesOnlyAtFirstFrame` | `FrozenOnlyAtFirstFrame` |
| `WindowShowsTheLastState` | `StaleOnlyByRace` |
| `ScreenShowsNewerFrames` | `ScreenNeverGoesBack` |
| `ClientTypeCorrect` | `TypeOK` |

A thread's position in its program is the number of steps it has left (`Rest`,
with a table per program that says which step that is), so one invariant serves
three programs. `MatchInv` relates what is left of `handle_match` to the fields:
which of token and address it has written (`Written`), that only a C++ client
without a socket loses a Join (`Unsocketed`), that a token is there only after
what `send_move` tests (`FirstWritten`), and that a token read by `send_move`
is still the field's unless the two overlap (`Read`). For the Python window,
`Announced` says that a frame number without a State means a store in progress,
which is why the exception can end the drawing at the first State only. In one
game (`One`), `Stored` bounds the State by `last_frame`, step by step of the
store, and `Shown` what is drawn by the State: a window that has processed
`last_frame`, and did not begin within a store, shows it. A frame number names one
State there (`SameGame`), so a duplicate changes nothing. `Forward` is the
argument for C++ and Java, where only the network keeps frames in order: what is
drawn is no newer than the field, and that no newer than what was received last.

`RustCoordinatorProofs` explains the one run of the Rust coordinator, which fails,
for any set of servers and any answers: no phase is ever stored (`NeverLearns`),
and a thread that has received a Status does nothing more (`StoreBlocks`). Both
follow from `RoundOK`: the mutex is held wherever the thread is not asleep.

So every safety property that a run checks and that holds is a theorem. Only
model-checked is the liveness of `KeepsBroadcasting`, `BallKeepsMoving`,
`HeldDirectionArrives` and `WaitingAreMatched`: fairness and ENABLED are outside
the prover's reach, and what is proved of each is the decreasing number it would
rest on. Refuted, not proved:
`PlayerFieldsByIdentifier` and `ChecksRepeat`.

## 5. Plan

Done, in this order: `PongGeometry`, `Server`, `MatchSeats` and their proofs;
`Coordinator`; `Client`; the Java, Python and Rust programs; `System`;
`CoordinatorProofs` and `SystemProofs`; `ServersProofs` and
`CoordinatorsProofs`; `ClientProofs`; the types of clients, servers and
coordinators in Java and Python; `RustCoordinatorProofs`; progress of the game
thread, of a held paddle and of the check thread; the servers of `System` as `MatchSeats`. An
abstract matchmaking specification that was once planned became
`NeighboursPlay`: the matching is decided by the order of arrival alone, so a
module of its own would restate it.

What could still be proved: that the threads of a client come to the end of their
programs. Each step shortens one program by one, so that little would be learnt.

## 6. Not modelled

- Third-party and generated code: the OpenGL loader `glad` and
  `khrplatform.h`, which are three quarters of the lines of C++ here, and what
  protobuf generates. An assignment of a protobuf message is modelled by its
  steps where a second thread can see them (`Client`).
- `main.cpp`, `Main.java`: argument parsing; they start one process and share
  nothing. Failures of `socket`, `bind` and `connect` at start-up end a process
  that has no state yet.
- The renderers' drawing and window handling. Of the OpenGL renderer,
  `keyboard_callback` and `render_window` are in `Client` as far as they use
  the client; which keys are held is kept nowhere in the client, so that
  releasing UP while DOWN is held, which sends STOP, is one of the directions
  that may be sent at any time.
- The logger: formatting and output.
- The bits: floating-point rounding is a choice of two neighbours; the growth
  of Java's `ArrayDeque` under two threads, and races inside a `std::deque` or
  `std::unordered_map`, are not looked into, their operations being atomic here;
  the exception Python's protobuf raises for a frame number of 2^32.
- Clients that search twice: no client of the repository does.
- Duplicated answers to the Java and the Python coordinator; in Python they meet
  a closed socket.
- What the code does without promising anything: the Java client ends in the
  middle of a game when the coordinator's connection does (action `Cleanup`); a
  Rust coordinator waits for ever for a server that does not answer; edge hits
  raise the ball's speed without bound.
