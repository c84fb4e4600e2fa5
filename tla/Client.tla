------------------------------- MODULE Client -------------------------------
(***************************************************************************)
(* One client process after it has connected to the coordinator: the C++,  *)
(* the Java or the Python one (cpp/client.cpp, Client.java, client.py),    *)
(* which speak the same protocol and differ in the order of their steps.   *)
(*                                                                         *)
(* Three kinds of thread share the client's fields without a lock: the     *)
(* one that listens to the coordinator and runs handle_match, a listener   *)
(* for each Match that stores the States a server sends, and the window's  *)
(* thread, which sends movements and draws.  What each of them does is a   *)
(* sequence of steps on the shared fields; a step is an action.            *)
(*                                                                         *)
(* Around it: a coordinator that sends Matches on a TCP stream, also one   *)
(* the client did not ask for (a descriptor reused, see Coordinator), and  *)
(* ends at any time; and for each token a server of its own that sends     *)
(* States once it got the Join, over a network that delivers any State     *)
(* sent so far, in any order, any number of times or never.                *)
(***************************************************************************)
EXTENDS Naturals, Sequences, FiniteSets

CONSTANTS
  Token,           \* tokens of Matches; a server's address is named by its token
  Implementation,  \* which of the three programs the client may be
  MaxFrame         \* bound of the model: frames each server sends

ASSUME ClientAssumption ==
  /\ Implementation \subseteq {"cpp", "java", "python"}
  /\ {"none", "torn"} \cap Token = {}
  /\ MaxFrame \in Nat

VARIABLES
  impl,            \* the program this client runs
  window,          \* main thread: "connected", has a "socket", window is "open"
  coordinator,     \* "up" or "gone", as far as the client notices
  offered,         \* the tokens the coordinator sent a Match for
  unsought,        \* those it sent a C++ client before its Search
  stream,          \* Matches on the TCP stream, not read yet
  match,           \* handle_match, running or last run: [steps, token]
  token, address,  \* fields of the client
  joins,           \* the Joins sent: [token, to]
  listeners,       \* the listen_server threads: a sequence of [steps, got]
  frames,          \* token -> number of frames its server has sent
  reordered,       \* whether a listener received an older frame after a newer one
  state,           \* the last State, as the parts that are drawn apart
  last_frame, last_processed,  \* fields of the Python client
  ui,              \* the window's thread: [steps, token, overlap]
  drawn,           \* what the window shows
  raced,           \* whether the last drawing began within the store of a State
  frozen,          \* update_loop ended with an exception and is not called again
  ended            \* the Java client has closed its sockets and its window

fields == <<token, address>>
coordinatorVars == <<coordinator, offered, unsought, stream>>
serverVars == <<frames, reordered>>
storeVars == <<listeners, state, last_frame>>
drawVars == <<drawn, last_processed, raced, frozen>>
processVars == <<impl, window, ended>>
vars == <<fields, coordinatorVars, match, serverVars, storeVars, drawVars,
          processVars, joins, ui>>

-----------------------------------------------------------------------------
(* The programs: the steps of each thread, per implementation. *)

None == "none"  \* an empty or uninitialised token or address
Torn == "torn"  \* one that is being written by another thread
IdleUi == [steps |-> <<>>, token |-> None, overlap |-> FALSE]
NoState == [token |-> None, frame |-> 0]

CppHandleMatch == <<"tear_token", "token", "tear_address", "address", "join", "listen">>
\* Faulty variants: the Join before the address; the address before the token.
JavaHandleMatch_JoinFirst == <<"token", "join", "address", "listen">>
JavaHandleMatch_AddressFirst == <<"address", "token", "listen", "join">>
JavaHandleMatch == <<"token", "address", "listen", "join">>
PythonHandleMatch == <<"address", "token", "listen", "join">>
HandleMatch == [cpp |-> CppHandleMatch, java |-> JavaHandleMatch, python |-> PythonHandleMatch]

\* An assignment of a State: protobuf clears it and merges its parts one by one.
CppStore == <<"clear", "ball", "paddles">>
JavaStore == <<"own", "state", "screen">>
\* Faulty variant: shows every State.
PythonStore_AnyFrame == <<"own", "last_frame", "state">>
PythonStore == <<"own", "newer", "last_frame", "state">>
Store == [cpp |-> CppStore, java |-> JavaStore, python |-> PythonStore]

CppSendMove == <<"read_token", "movement">>
JavaSendMove == <<"need_address", "read_token", "movement">>
PythonSendMove == <<"need_token", "read_token", "need_address", "movement">>
SendMove == [cpp |-> CppSendMove, java |-> JavaSendMove, python |-> PythonSendMove]

\* The Java window is drawn by the listener ("screen").
CppDraw == <<"draw_ball", "draw_paddles">>
\* Faulty variant: notes the frame after the drawing.
PythonDraw_NoteLast == <<"fresh", "draw_ball", "draw_paddles", "processed">>
PythonDraw == <<"fresh", "processed", "draw_ball", "draw_paddles">>
Draw == [cpp |-> CppDraw, python |-> PythonDraw]

Idle(thread) == thread.steps = <<>>
At(thread, step) == thread.steps # <<>> /\ Head(thread.steps) = step
Past(thread) == [thread EXCEPT !.steps = Tail(@)]

-----------------------------------------------------------------------------

Init ==
  /\ impl \in Implementation
  /\ window = IF impl = "cpp" THEN "connected" ELSE "socket"
  /\ coordinator = "up" /\ offered = {} /\ unsought = {} /\ stream = <<>>
  /\ match = [steps |-> <<>>, token |-> None]
  /\ token = None /\ address = None
  /\ joins = {}
  /\ listeners = <<>>
  /\ frames = [t \in Token |-> 0] /\ reordered = FALSE
  /\ state = [ball |-> NoState, paddles |-> NoState]
  /\ last_frame = 0 /\ last_processed = 0
  /\ ui = IdleUi
  /\ drawn = [ball |-> NoState, paddles |-> NoState]
  /\ raced = FALSE /\ frozen = FALSE /\ ended = FALSE

-----------------------------------------------------------------------------
(* The main thread. *)

CreateSocket ==
  /\ window = "connected"
  /\ window' = "socket"
  /\ UNCHANGED <<impl, ended, fields, coordinatorVars, match, serverVars,
                 storeVars, drawVars, joins, ui>>

SearchAndOpen ==
  /\ window = "socket" /\ ~ended
  /\ window' = "open"
  /\ UNCHANGED <<impl, ended, fields, coordinatorVars, match, serverVars,
                 storeVars, drawVars, joins, ui>>

\* The Java client ends with its connection to the coordinator.
Cleanup ==
  /\ impl = "java" /\ ~ended
  /\ coordinator = "gone" /\ stream = <<>> /\ Idle(match)
  /\ ended' = TRUE
  /\ UNCHANGED <<impl, window, fields, coordinatorVars, match, serverVars,
                 storeVars, drawVars, joins, ui>>

-----------------------------------------------------------------------------
(* The thread that listens to the coordinator. *)

\* One recv reads all that has arrived; the fields of several Matches merge
\* into one message, that is into the last of them.
ReadMatch(n) ==
  /\ Idle(match) /\ ~ended
  /\ n \in 1 .. Len(stream)
  /\ match' = [steps |-> HandleMatch[impl], token |-> stream[n]]
  /\ stream' = SubSeq(stream, n + 1, Len(stream))
  /\ ui' = [ui EXCEPT !.overlap = ~Idle(ui)]
  /\ UNCHANGED <<coordinator, offered, unsought, fields, serverVars,
                 storeVars, drawVars, processVars, joins>>

MatchStep(step) ==
  /\ At(match, step)
  /\ match' = Past(match)

\* Faulty variant: forgets the last State, "None" in Python.
WriteToken_ResetState ==
  /\ MatchStep("token")
  /\ token' = match.token
  /\ state' = [ball |-> NoState, paddles |-> NoState]
  /\ UNCHANGED <<address, coordinatorVars, serverVars, listeners, last_frame, drawVars,
                 processVars, joins, ui>>

WriteToken ==
  /\ \/ MatchStep("tear_token") /\ token' = Torn
     \/ MatchStep("token") /\ token' = match.token
  /\ UNCHANGED <<address, coordinatorVars, serverVars, storeVars, drawVars,
                 processVars, joins, ui>>

\* Faulty variant: keeps the address of the first Match.
WriteAddress_OnlyFirst ==
  /\ \/ MatchStep("tear_address") /\ UNCHANGED address
     \/ MatchStep("address") /\ address' = IF address = None THEN match.token ELSE address
  /\ UNCHANGED <<token, coordinatorVars, serverVars, storeVars, drawVars,
                 processVars, joins, ui>>

WriteAddress ==
  /\ \/ MatchStep("tear_address") /\ address' = Torn
     \/ MatchStep("address") /\ address' = match.token
  /\ UNCHANGED <<token, coordinatorVars, serverVars, storeVars, drawVars,
                 processVars, joins, ui>>

\* In C++ the first Match may be there before the socket is.
SendJoin ==
  /\ MatchStep("join")
  /\ joins' = IF window = "connected" THEN joins ELSE joins \cup {[token |-> token, to |-> address]}
  /\ UNCHANGED <<fields, coordinatorVars, serverVars, storeVars, drawVars, processVars, ui>>

StartListener ==
  /\ MatchStep("listen")
  /\ listeners' = Append(listeners, [steps |-> <<>>, got |-> NoState])
  /\ UNCHANGED <<fields, coordinatorVars, serverVars, state, last_frame, drawVars,
                 processVars, joins, ui>>

ListenCoordinator ==
  \/ \E n \in 1 .. Len(stream) : ReadMatch(n)
  \/ WriteToken \/ WriteAddress \/ SendJoin \/ StartListener

-----------------------------------------------------------------------------
(* A listen_server thread. *)

Receive(l, d) ==
  /\ Idle(listeners[l]) /\ window # "connected" /\ ~ended
  /\ d.frame \in 1 .. frames[d.token]
  /\ listeners' = [listeners EXCEPT ![l] = [steps |-> Store[impl], got |-> d]]
  /\ reordered' = (reordered \/ (d.token = listeners[l].got.token /\ d.frame < listeners[l].got.frame))
  /\ UNCHANGED <<frames, state, last_frame, fields, coordinatorVars, match, drawVars,
                 processVars, joins, ui>>

\* A State of another game, or in Python an older one, is dropped.
Accepts(l, step) ==
  LET d == listeners[l].got IN
  IF step = "own" THEN d.token = token ELSE d.frame >= last_frame

Test(l) ==
  \E step \in {"own", "newer"} :
    /\ At(listeners[l], step)
    /\ listeners' = [listeners EXCEPT ![l] = IF Accepts(l, step) THEN Past(@)
                                             ELSE [@ EXCEPT !.steps = <<>>]]
    /\ UNCHANGED <<state, last_frame, fields, coordinatorVars, match, serverVars,
                   drawVars, processVars, joins, ui>>

\* What each step of the store assigns.
StoreState(l) ==
  LET d == listeners[l].got IN
  /\ \/ At(listeners[l], "clear") /\ state' = [ball |-> NoState, paddles |-> NoState]
     \/ At(listeners[l], "ball") /\ state' = [state EXCEPT !.ball = d]
     \/ At(listeners[l], "paddles") /\ state' = [state EXCEPT !.paddles = d]
     \/ At(listeners[l], "state") /\ state' = [ball |-> d, paddles |-> d]
  /\ listeners' = [listeners EXCEPT ![l] = Past(@)]
  /\ UNCHANGED <<last_frame, fields, coordinatorVars, match, serverVars,
                 drawVars, processVars, joins, ui>>

StoreFrame(l) ==
  /\ At(listeners[l], "last_frame")
  /\ last_frame' = listeners[l].got.frame
  /\ listeners' = [listeners EXCEPT ![l] = Past(@)]
  /\ UNCHANGED <<state, fields, coordinatorVars, match, serverVars,
                 drawVars, processVars, joins, ui>>

\* It shows the field, which is read again.
UpdateScreen(l) ==
  /\ At(listeners[l], "screen")
  /\ drawn' = state
  /\ listeners' = [listeners EXCEPT ![l] = Past(@)]
  /\ UNCHANGED <<state, last_frame, last_processed, raced, frozen, fields, coordinatorVars,
                 match, serverVars, processVars, joins, ui>>

StoreStep(l) == Test(l) \/ StoreState(l) \/ StoreFrame(l) \/ UpdateScreen(l)

-----------------------------------------------------------------------------
(* The window's thread. *)

\* A key is pressed or released: send_move begins.
Key ==
  /\ Idle(ui) /\ ~ended /\ (window = "open" \/ impl = "java")
  /\ ui' = [steps |-> SendMove[impl], token |-> None, overlap |-> ~Idle(match)]
  /\ UNCHANGED <<fields, coordinatorVars, match, serverVars, storeVars, drawVars,
                 processVars, joins>>

\* Tests that end send_move early, and the read of the token.
MoveStep ==
  /\ \/ At(ui, "need_address") /\ ui' = IF address = None THEN IdleUi ELSE Past(ui)
     \/ At(ui, "need_token") /\ ui' = IF token = None THEN IdleUi ELSE Past(ui)
     \/ At(ui, "read_token") /\ ui' = [Past(ui) EXCEPT !.token = token]
  /\ UNCHANGED <<fields, coordinatorVars, match, serverVars, storeVars, drawVars,
                 processVars, joins>>

\* The Movement that SendMovement sends; what becomes of it is the server's.
Movement == [token |-> ui.token, to |-> address]

SendMovement ==
  /\ At(ui, "movement")
  /\ ui' = IdleUi
  /\ UNCHANGED <<fields, coordinatorVars, match, serverVars, storeVars, drawVars,
                 processVars, joins>>

BeginDraw ==
  /\ Idle(ui) /\ window = "open" /\ impl # "java" /\ ~frozen
  /\ ui' = [steps |-> Draw[impl], token |-> None, overlap |-> FALSE]
  /\ UNCHANGED <<fields, coordinatorVars, match, serverVars, storeVars, drawVars,
                 processVars, joins>>

TestFresh ==
  /\ At(ui, "fresh")
  /\ ui' = IF last_frame > last_processed THEN Past(ui) ELSE [ui EXCEPT !.steps = <<>>]
  /\ UNCHANGED <<fields, coordinatorVars, match, serverVars, storeVars, drawVars,
                 processVars, joins>>

\* Whether a listener has written last_frame and not yet state.
WithinStore == \E l \in 1 .. Len(listeners) : At(listeners[l], "state")

\* Faulty variant: skips ahead.
NoteProcessed_Ahead ==
  /\ At(ui, "processed")
  /\ last_processed' = last_frame + 1
  /\ raced' = WithinStore
  /\ ui' = Past(ui)
  /\ UNCHANGED <<drawn, frozen, fields, coordinatorVars, match, serverVars, storeVars,
                 processVars, joins>>

NoteProcessed ==
  /\ At(ui, "processed")
  /\ last_processed' = last_frame
  /\ raced' = WithinStore
  /\ ui' = Past(ui)
  /\ UNCHANGED <<drawn, frozen, fields, coordinatorVars, match, serverVars, storeVars,
                 processVars, joins>>

\* In Python state is None before the first State: the exception leaves
\* update_loop before it calls window.after.
DrawPart ==
  /\ \E part \in {"ball", "paddles"} :
       /\ At(ui, IF part = "ball" THEN "draw_ball" ELSE "draw_paddles")
       /\ IF impl = "python" /\ state[part] = NoState
          THEN frozen' = TRUE /\ ui' = [ui EXCEPT !.steps = <<>>] /\ UNCHANGED drawn
          ELSE drawn' = [drawn EXCEPT ![part] = state[part]] /\ ui' = Past(ui) /\ UNCHANGED frozen
  /\ UNCHANGED <<last_processed, raced, fields, coordinatorVars, match, serverVars,
                 storeVars, processVars, joins>>

UiStep == MoveStep \/ SendMovement \/ TestFresh \/ NoteProcessed \/ DrawPart

-----------------------------------------------------------------------------
(* The coordinator and the servers. *)

OfferMatch(t) ==
  /\ coordinator = "up" /\ t \notin offered
  /\ offered' = offered \cup {t}
  /\ unsought' = IF window = "open" \/ impl # "cpp" THEN unsought ELSE unsought \cup {t}
  /\ stream' = Append(stream, t)
  /\ UNCHANGED <<coordinator, fields, match, serverVars, storeVars, drawVars,
                 processVars, joins, ui>>

\* The C++ and the Python client do not notice: recv returns nothing and is
\* called again.
CoordinatorEnds ==
  /\ coordinator = "up" /\ impl = "java"
  /\ coordinator' = "gone"
  /\ UNCHANGED <<offered, unsought, stream, fields, match, serverVars, storeVars,
                 drawVars, processVars, joins, ui>>

\* The game of token t has started and its server sends the next frame.
ServerSends(t) ==
  /\ [token |-> t, to |-> t] \in joins
  /\ frames[t] < MaxFrame
  /\ frames' = [frames EXCEPT ![t] = @ + 1]
  /\ UNCHANGED <<reordered, fields, coordinatorVars, match, storeVars,
                 drawVars, processVars, joins, ui>>

-----------------------------------------------------------------------------

State == [token : Token, frame : 1 .. MaxFrame]

Environment == CoordinatorEnds \/ \E t \in Token : OfferMatch(t) \/ ServerSends(t)
Main == CreateSocket \/ SearchAndOpen \/ Cleanup
ListenServer(l) == (\E d \in State : Receive(l, d)) \/ StoreStep(l)

Next ==
  \/ Main \/ ListenCoordinator \/ Environment
  \/ \E l \in 1 .. Len(listeners) : ListenServer(l)
  \/ Key \/ BeginDraw \/ UiStep

Spec == Init /\ [][Next]_vars

-----------------------------------------------------------------------------
(* Properties. *)

Part == State \cup {NoState}

TypeOK ==
  /\ impl \in Implementation /\ window \in {"connected", "socket", "open"}
  /\ coordinator \in {"up", "gone"}
  /\ unsought \subseteq offered /\ offered \subseteq Token
  /\ stream \in Seq(Token)
  /\ match.token \in offered \cup {None}
  /\ {token, address} \subseteq Token \cup {None, Torn}
  /\ \A m \in joins \cup {Movement} : {m.token, m.to} \subseteq Token \cup {None, Torn}
  /\ \A l \in 1 .. Len(listeners) : listeners[l].got \in Part
  /\ frames \in [Token -> 0 .. MaxFrame]
  /\ state \in [ball : Part, paddles : Part] /\ drawn \in [ball : Part, paddles : Part]
  /\ last_frame \in 0 .. MaxFrame /\ last_processed \in 0 .. MaxFrame
  /\ {reordered, raced, frozen, ended, ui.overlap} \subseteq BOOLEAN

\* A Movement goes to the server that gave out its token, unless handle_match
\* ran while it was being sent.  (In C++, before the first Match, no token goes
\* nowhere.)
MisaddressedOnlyByOverlap ==
  At(ui, "movement") => Movement.to = Movement.token \/ ui.overlap

\* The Java and the Python client never send a Movement without a token, nor
\* one to nobody: the order in which handle_match writes the two fields fits
\* the test that send_move makes.
NeverTokenless ==
  At(ui, "movement") /\ impl # "cpp" => None \notin {Movement.token, Movement.to}

\* A Match that is handled is joined at its server.  Only the C++ client may
\* fail to, and only for a Match it was sent before it searched.
MatchIsJoined ==
  Idle(match) /\ match.token # None =>
    \/ [token |-> match.token, to |-> match.token] \in joins
    \/ impl = "cpp" /\ match.token \in unsought

\* The client was in one match so far.
OneGame == Len(listeners) <= 1 /\ Cardinality(joins) <= 1

\* The ball on the screen never goes back to an older frame of the same game:
\* in Python for any network, in C++ and Java if no frame was overtaken.
\* Two listeners, started by two Matches, may overtake each other.
ScreenNeverGoesBack ==
  [][/\ drawn'.ball.token = drawn.ball.token
     /\ OneGame
     /\ impl = "python" \/ ~reordered
     => drawn'.ball.frame >= drawn.ball.frame]_drawn

\* The Python window stops being drawn only if the first State ever was
\* announced by last_frame before it was there.
FrozenOnlyAtFirstFrame ==
  frozen => impl = "python" /\ drawn.ball = NoState /\ raced

\* The Python window, once it has nothing left to draw, shows the last State
\* it was sent, unless its drawing began within the store of it.
StaleOnlyByRace ==
  impl = "python" /\ OneGame /\ Idle(ui) /\ last_processed = last_frame /\ ~frozen /\ ~raced
  /\ (\A l \in 1 .. Len(listeners) : Idle(listeners[l]))
    => drawn = state
=============================================================================
