---------------------------- MODULE ClientProofs ----------------------------
(***************************************************************************)
(* The client, proved for any number of tokens, frames and listeners: a    *)
(* Match is joined, a Movement goes where it belongs, and the window shows *)
(* no older frame, not for long an old one, and stops being drawn at the   *)
(* first frame only.                                                       *)
(*                                                                         *)
(* The invariant says what each thread has written and read by the number  *)
(* of steps it has left.                                                   *)
(***************************************************************************)
EXTENDS Client, SequenceTheorems, FiniteSetTheorems, TLAPS

-----------------------------------------------------------------------------
(* Threads and what is left of their steps. *)

Step ==
  {"tear_token", "token", "tear_address", "address", "join", "listen",
   "clear", "ball", "paddles", "own", "state", "screen", "newer", "last_frame",
   "read_token", "movement", "need_address", "need_token",
   "draw_ball", "draw_paddles", "fresh", "processed"}

\* steps is what is left of a program.
Rest(steps, program) ==
  /\ steps \in Seq(Step) /\ Len(steps) <= Len(program)
  /\ \A i \in 1 .. Len(steps) : steps[i] = program[Len(program) - Len(steps) + i]

\* A program that has not begun, or has ended, is a rest of it.
LEMMA WholeAndEmpty ==
  ASSUME NEW program \in Seq(Step)
  PROVE  Rest(program, program) /\ Rest(<<>>, program) /\ Len(<<>>) = 0
<1>1. Len(program) \in Nat /\ <<>> \in Seq(Step) /\ Len(<<>>) = 0
  BY LenProperties, EmptySeq
<1> QED BY <1>1 DEF Rest

\* A step takes the first of what is left.
LEMMA NextStep ==
  ASSUME NEW program \in Seq(Step), NEW steps, Rest(steps, program)
  PROVE  /\ Len(steps) \in 0 .. Len(program)
         /\ Len(steps) = 0 <=> steps = <<>>
         /\ steps # <<>> =>
              /\ Head(steps) = program[Len(program) - Len(steps) + 1]
              /\ Rest(Tail(steps), program)
              /\ Len(Tail(steps)) = Len(steps) - 1
<1>1. /\ steps \in Seq(Step) /\ Len(steps) \in Nat /\ Len(program) \in Nat
      /\ Len(steps) <= Len(program)
      /\ Len(steps) = 0 <=> steps = <<>>
  BY LenProperties, EmptySeq DEF Rest
<1>2. ASSUME steps # <<>>
      PROVE  /\ Head(steps) = program[Len(program) - Len(steps) + 1]
             /\ Rest(Tail(steps), program)
             /\ Len(Tail(steps)) = Len(steps) - 1
  <2>1. /\ Head(steps) = steps[1] /\ Tail(steps) \in Seq(Step) /\ Len(Tail(steps)) = Len(steps) - 1
        /\ \A i \in 1 .. Len(Tail(steps)) : Tail(steps)[i] = steps[i + 1]
    BY <1>1, <1>2, HeadTailProperties
  <2>2. 1 \in 1 .. Len(steps)
    BY <1>1, <1>2
  <2>3. ASSUME NEW i \in 1 .. Len(Tail(steps))
        PROVE  Tail(steps)[i] = program[Len(program) - Len(Tail(steps)) + i]
    <3>1. i + 1 \in 1 .. Len(steps) /\ Len(program) - Len(Tail(steps)) + i = Len(program) - Len(steps) + (i + 1)
      BY <1>1, <2>1
    <3> QED BY <2>1, <3>1 DEF Rest
  <2> QED BY <1>1, <2>1, <2>2, <2>3 DEF Rest
<1> QED BY <1>1, <1>2

\* What handle_match does.
LEMMA MatchPrograms ==
  /\ CppHandleMatch \in Seq(Step) /\ Len(CppHandleMatch) = 6
  /\ CppHandleMatch[1] = "tear_token" /\ CppHandleMatch[2] = "token" /\ CppHandleMatch[3] = "tear_address"
  /\ CppHandleMatch[4] = "address" /\ CppHandleMatch[5] = "join" /\ CppHandleMatch[6] = "listen"
  /\ JavaHandleMatch \in Seq(Step) /\ Len(JavaHandleMatch) = 4
  /\ JavaHandleMatch[1] = "token" /\ JavaHandleMatch[2] = "address" /\ JavaHandleMatch[3] = "listen"
  /\ JavaHandleMatch[4] = "join"
  /\ PythonHandleMatch \in Seq(Step) /\ Len(PythonHandleMatch) = 4
  /\ PythonHandleMatch[1] = "address" /\ PythonHandleMatch[2] = "token" /\ PythonHandleMatch[3] = "listen"
  /\ PythonHandleMatch[4] = "join"
<1>1. CppHandleMatch \in Seq(Step)
  <2>1. CppHandleMatch \in Seq({"tear_token", "token", "tear_address", "address", "join", "listen"})
    BY DEF CppHandleMatch
  <2> QED BY <2>1, SeqMonotonic DEF Step
<1>2. Len(CppHandleMatch) = 6 /\ CppHandleMatch[1] = "tear_token" /\ CppHandleMatch[2] = "token"
      /\ CppHandleMatch[3] = "tear_address" /\ CppHandleMatch[4] = "address" /\ CppHandleMatch[5] = "join"
      /\ CppHandleMatch[6] = "listen"
  BY DEF CppHandleMatch
<1>3. JavaHandleMatch \in Seq(Step)
  <2>1. JavaHandleMatch \in Seq({"token", "address", "listen", "join"})
    BY DEF JavaHandleMatch
  <2> QED BY <2>1, SeqMonotonic DEF Step
<1>4. Len(JavaHandleMatch) = 4 /\ JavaHandleMatch[1] = "token" /\ JavaHandleMatch[2] = "address"
      /\ JavaHandleMatch[3] = "listen" /\ JavaHandleMatch[4] = "join"
  BY DEF JavaHandleMatch
<1>5. PythonHandleMatch \in Seq(Step)
  <2>1. PythonHandleMatch \in Seq({"address", "token", "listen", "join"})
    BY DEF PythonHandleMatch
  <2> QED BY <2>1, SeqMonotonic DEF Step
<1>6. Len(PythonHandleMatch) = 4 /\ PythonHandleMatch[1] = "address" /\ PythonHandleMatch[2] = "token"
      /\ PythonHandleMatch[3] = "listen" /\ PythonHandleMatch[4] = "join"
  BY DEF PythonHandleMatch
<1> QED BY <1>1, <1>2, <1>3, <1>4, <1>5, <1>6

\* What send_move does.
LEMMA MovePrograms ==
  /\ CppSendMove \in Seq(Step) /\ Len(CppSendMove) = 2
  /\ CppSendMove[1] = "read_token" /\ CppSendMove[2] = "movement"
  /\ JavaSendMove \in Seq(Step) /\ Len(JavaSendMove) = 3
  /\ JavaSendMove[1] = "need_address" /\ JavaSendMove[2] = "read_token" /\ JavaSendMove[3] = "movement"
  /\ PythonSendMove \in Seq(Step) /\ Len(PythonSendMove) = 4
  /\ PythonSendMove[1] = "need_token" /\ PythonSendMove[2] = "read_token" /\ PythonSendMove[3] = "need_address"
  /\ PythonSendMove[4] = "movement"
<1>1. CppSendMove \in Seq(Step)
  <2>1. CppSendMove \in Seq({"read_token", "movement"})
    BY DEF CppSendMove
  <2> QED BY <2>1, SeqMonotonic DEF Step
<1>2. Len(CppSendMove) = 2 /\ CppSendMove[1] = "read_token" /\ CppSendMove[2] = "movement"
  BY DEF CppSendMove
<1>3. JavaSendMove \in Seq(Step)
  <2>1. JavaSendMove \in Seq({"need_address", "read_token", "movement"})
    BY DEF JavaSendMove
  <2> QED BY <2>1, SeqMonotonic DEF Step
<1>4. Len(JavaSendMove) = 3 /\ JavaSendMove[1] = "need_address" /\ JavaSendMove[2] = "read_token"
      /\ JavaSendMove[3] = "movement"
  BY DEF JavaSendMove
<1>5. PythonSendMove \in Seq(Step)
  <2>1. PythonSendMove \in Seq({"need_token", "read_token", "need_address", "movement"})
    BY DEF PythonSendMove
  <2> QED BY <2>1, SeqMonotonic DEF Step
<1>6. Len(PythonSendMove) = 4 /\ PythonSendMove[1] = "need_token" /\ PythonSendMove[2] = "read_token"
      /\ PythonSendMove[3] = "need_address" /\ PythonSendMove[4] = "movement"
  BY DEF PythonSendMove
<1> QED BY <1>1, <1>2, <1>3, <1>4, <1>5, <1>6

\* What listen_server does with a State.
LEMMA StorePrograms ==
  /\ CppStore \in Seq(Step) /\ Len(CppStore) = 3
  /\ CppStore[1] = "clear" /\ CppStore[2] = "ball" /\ CppStore[3] = "paddles"
  /\ JavaStore \in Seq(Step) /\ Len(JavaStore) = 3
  /\ JavaStore[1] = "own" /\ JavaStore[2] = "state" /\ JavaStore[3] = "screen"
  /\ PythonStore \in Seq(Step) /\ Len(PythonStore) = 4
  /\ PythonStore[1] = "own" /\ PythonStore[2] = "newer" /\ PythonStore[3] = "last_frame"
  /\ PythonStore[4] = "state"
<1>1. CppStore \in Seq(Step)
  <2>1. CppStore \in Seq({"clear", "ball", "paddles"})
    BY DEF CppStore
  <2> QED BY <2>1, SeqMonotonic DEF Step
<1>2. Len(CppStore) = 3 /\ CppStore[1] = "clear" /\ CppStore[2] = "ball"
      /\ CppStore[3] = "paddles"
  BY DEF CppStore
<1>3. JavaStore \in Seq(Step)
  <2>1. JavaStore \in Seq({"own", "state", "screen"})
    BY DEF JavaStore
  <2> QED BY <2>1, SeqMonotonic DEF Step
<1>4. Len(JavaStore) = 3 /\ JavaStore[1] = "own" /\ JavaStore[2] = "state"
      /\ JavaStore[3] = "screen"
  BY DEF JavaStore
<1>5. PythonStore \in Seq(Step)
  <2>1. PythonStore \in Seq({"own", "newer", "last_frame", "state"})
    BY DEF PythonStore
  <2> QED BY <2>1, SeqMonotonic DEF Step
<1>6. Len(PythonStore) = 4 /\ PythonStore[1] = "own" /\ PythonStore[2] = "newer"
      /\ PythonStore[3] = "last_frame" /\ PythonStore[4] = "state"
  BY DEF PythonStore
<1> QED BY <1>1, <1>2, <1>3, <1>4, <1>5, <1>6

\* What the window's thread draws.
LEMMA DrawPrograms ==
  /\ CppDraw \in Seq(Step) /\ Len(CppDraw) = 2
  /\ CppDraw[1] = "draw_ball" /\ CppDraw[2] = "draw_paddles"
  /\ PythonDraw \in Seq(Step) /\ Len(PythonDraw) = 4
  /\ PythonDraw[1] = "fresh" /\ PythonDraw[2] = "processed" /\ PythonDraw[3] = "draw_ball"
  /\ PythonDraw[4] = "draw_paddles"
<1>1. CppDraw \in Seq(Step)
  <2>1. CppDraw \in Seq({"draw_ball", "draw_paddles"})
    BY DEF CppDraw
  <2> QED BY <2>1, SeqMonotonic DEF Step
<1>2. Len(CppDraw) = 2 /\ CppDraw[1] = "draw_ball" /\ CppDraw[2] = "draw_paddles"
  BY DEF CppDraw
<1>3. PythonDraw \in Seq(Step)
  <2>1. PythonDraw \in Seq({"fresh", "processed", "draw_ball", "draw_paddles"})
    BY DEF PythonDraw
  <2> QED BY <2>1, SeqMonotonic DEF Step
<1>4. Len(PythonDraw) = 4 /\ PythonDraw[1] = "fresh" /\ PythonDraw[2] = "processed"
      /\ PythonDraw[3] = "draw_ball" /\ PythonDraw[4] = "draw_paddles"
  BY DEF PythonDraw
<1> QED BY <1>1, <1>2, <1>3, <1>4

\* The program of a thread is that of its implementation.
LEMMA Programs ==
  /\ HandleMatch["cpp"] = CppHandleMatch /\ HandleMatch["java"] = JavaHandleMatch
  /\ HandleMatch["python"] = PythonHandleMatch
  /\ SendMove["cpp"] = CppSendMove /\ SendMove["java"] = JavaSendMove /\ SendMove["python"] = PythonSendMove
  /\ Store["cpp"] = CppStore /\ Store["java"] = JavaStore /\ Store["python"] = PythonStore
  /\ Draw["cpp"] = CppDraw /\ Draw["python"] = PythonDraw
BY DEF HandleMatch, SendMove, Store, Draw

Moving == ui.steps # <<>> /\ Rest(ui.steps, SendMove[impl])
Drawing == ui.steps # <<>> /\ impl # "java" /\ Rest(ui.steps, Draw[impl])

Listener == {t \in [steps : Seq(Step), got : Part] : Rest(t.steps, Store[impl])}

MatchTypes ==
  /\ stream \in Seq(offered) /\ offered \subseteq Token
  /\ match \in [steps : Seq(Step), token : offered \cup {None}]
  /\ Rest(match.steps, HandleMatch[impl])
  /\ match.steps # <<>> => match.token # None
  /\ token \in Token \cup {None, Torn} /\ address \in Token \cup {None, Torn}

UiTypes ==
  /\ ui \in [steps : Seq(Step), token : Token \cup {None, Torn}, overlap : BOOLEAN]
  /\ ui.steps = <<>> \/ Moving \/ Drawing

StoreTypes ==
  /\ listeners \in Seq(Listener)
  /\ \A l \in 1 .. Len(listeners) : listeners[l].steps # <<>> => listeners[l].got \in State
  /\ frames \in [Token -> Nat]
  /\ state \in [ball : Part, paddles : Part] /\ drawn \in [ball : Part, paddles : Part]
  /\ last_frame \in Nat /\ last_processed \in Nat

Types == impl \in {"cpp", "java", "python"} /\ MatchTypes /\ UiTypes /\ StoreTypes

\* None and Torn are no tokens; a State has a frame number above 0.
LEMMA TokenFacts ==
  /\ None \notin Token /\ Torn \notin Token /\ None # Torn
  /\ NoState.frame = 0 /\ NoState.token = None
  /\ \A d \in State : d.frame \in Nat /\ d.frame # 0 /\ d.token \in Token /\ d # NoState
  /\ NoState \in Part
BY ClientAssumption DEF None, Torn, NoState, State, Part

-----------------------------------------------------------------------------
(* Which step is how many from the end. *)

\* The steps of a program of two, counted from the end.
LEMMA TwoSteps ==
  ASSUME NEW P, NEW n \in 1 .. 2, NEW step, step = P[2 - n + 1]
  PROVE  \/ n = 1 /\ step = P[2]
         \/ n = 2 /\ step = P[1]
<1>1. n = 1 \/ n = 2
  OBVIOUS
<1>2. CASE n = 1
  BY <1>2
<1>3. CASE n = 2
  BY <1>3
<1> QED BY <1>1, <1>2, <1>3

\* Of three.
LEMMA ThreeSteps ==
  ASSUME NEW P, NEW n \in 1 .. 3, NEW step, step = P[3 - n + 1]
  PROVE  \/ n = 1 /\ step = P[3]
         \/ n = 2 /\ step = P[2]
         \/ n = 3 /\ step = P[1]
<1>1. n = 1 \/ n = 2 \/ n = 3
  OBVIOUS
<1>2. CASE n = 1
  BY <1>2
<1>3. CASE n = 2
  BY <1>3
<1>4. CASE n = 3
  BY <1>4
<1> QED BY <1>1, <1>2, <1>3, <1>4

\* Of four.
LEMMA FourSteps ==
  ASSUME NEW P, NEW n \in 1 .. 4, NEW step, step = P[4 - n + 1]
  PROVE  \/ n = 1 /\ step = P[4]
         \/ n = 2 /\ step = P[3]
         \/ n = 3 /\ step = P[2]
         \/ n = 4 /\ step = P[1]
<1>1. n = 1 \/ n = 2 \/ n = 3 \/ n = 4
  OBVIOUS
<1>2. CASE n = 1
  BY <1>2
<1>3. CASE n = 2
  BY <1>3
<1>4. CASE n = 3
  BY <1>4
<1>5. CASE n = 4
  BY <1>5
<1> QED BY <1>1, <1>2, <1>3, <1>4, <1>5

\* Of six.
LEMMA SixSteps ==
  ASSUME NEW P, NEW n \in 1 .. 6, NEW step, step = P[6 - n + 1]
  PROVE  \/ n = 1 /\ step = P[6]
         \/ n = 2 /\ step = P[5]
         \/ n = 3 /\ step = P[4]
         \/ n = 4 /\ step = P[3]
         \/ n = 5 /\ step = P[2]
         \/ n = 6 /\ step = P[1]
<1>1. n = 1 \/ n = 2 \/ n = 3 \/ n = 4 \/ n = 5 \/ n = 6
  OBVIOUS
<1>2. CASE n = 1
  BY <1>2
<1>3. CASE n = 2
  BY <1>3
<1>4. CASE n = 3
  BY <1>4
<1>5. CASE n = 4
  BY <1>5
<1>6. CASE n = 5
  BY <1>6
<1>7. CASE n = 6
  BY <1>7
<1> QED BY <1>1, <1>2, <1>3, <1>4, <1>5, <1>6, <1>7

\* In handle_match.
LEMMA MatchTable ==
  ASSUME NEW i \in {"cpp", "java", "python"}, NEW steps, steps # <<>>, Rest(steps, HandleMatch[i]),
         NEW step, step = Head(steps)
  PROVE  /\ Len(steps) \in Nat /\ Len(steps) # 0 /\ Len(Tail(steps)) = Len(steps) - 1
         /\ Rest(Tail(steps), HandleMatch[i])
         /\ i = "cpp" =>
              /\ step = "tear_token" => Len(steps) = 6
              /\ step = "token" => Len(steps) = 5
              /\ step = "tear_address" => Len(steps) = 4
              /\ step = "address" => Len(steps) = 3
              /\ step = "join" => Len(steps) = 2
              /\ step = "listen" => Len(steps) = 1
              /\ step \in {"tear_token", "token", "tear_address", "address", "join", "listen"}
         /\ i = "java" =>
              /\ step = "token" => Len(steps) = 4
              /\ step = "address" => Len(steps) = 3
              /\ step = "listen" => Len(steps) = 2
              /\ step = "join" => Len(steps) = 1
              /\ step \in {"token", "address", "listen", "join"}
         /\ i = "python" =>
              /\ step = "address" => Len(steps) = 4
              /\ step = "token" => Len(steps) = 3
              /\ step = "listen" => Len(steps) = 2
              /\ step = "join" => Len(steps) = 1
              /\ step \in {"address", "token", "listen", "join"}
<1> DEFINE n == Len(steps)
<1>1. ASSUME NEW P \in Seq(Step), HandleMatch[i] = P
      PROVE  /\ n \in 1 .. Len(P) /\ step = P[Len(P) - n + 1]
             /\ Len(Tail(steps)) = n - 1 /\ Rest(Tail(steps), P)
  BY <1>1, NextStep
<1>2. CASE i = "cpp"
  <2>1. n \in 1 .. 6 /\ step = CppHandleMatch[6 - n + 1]
        /\ Len(Tail(steps)) = n - 1 /\ Rest(Tail(steps), CppHandleMatch)
    BY <1>1, <1>2, Programs, MatchPrograms
  <2> HIDE DEF n
  <2>2. \/ n = 1 /\ step = CppHandleMatch[6]
        \/ n = 2 /\ step = CppHandleMatch[5]
        \/ n = 3 /\ step = CppHandleMatch[4]
        \/ n = 4 /\ step = CppHandleMatch[3]
        \/ n = 5 /\ step = CppHandleMatch[2]
        \/ n = 6 /\ step = CppHandleMatch[1]
    BY <2>1, SixSteps
  <2>3. \/ n = 1 /\ step = "listen"
        \/ n = 2 /\ step = "join"
        \/ n = 3 /\ step = "address"
        \/ n = 4 /\ step = "tear_address"
        \/ n = 5 /\ step = "token"
        \/ n = 6 /\ step = "tear_token"
    BY <2>2, MatchPrograms
  <2>4. /\ step = "listen" => n = 1
        /\ step = "join" => n = 2
        /\ step = "address" => n = 3
        /\ step = "tear_address" => n = 4
        /\ step = "token" => n = 5
        /\ step = "tear_token" => n = 6
    BY <2>3
  <2>5. step \in {"tear_token", "token", "tear_address", "address", "join", "listen"}
    BY <2>3
  <2>6. Len(steps) \in Nat /\ Len(steps) # 0 /\ HandleMatch[i] = CppHandleMatch
        /\ Len(Tail(steps)) = Len(steps) - 1 /\ Rest(Tail(steps), HandleMatch[i])
    BY <2>1, <1>2, Programs DEF n
  <2>7. /\ step = "listen" => Len(steps) = 1
        /\ step = "join" => Len(steps) = 2
        /\ step = "address" => Len(steps) = 3
        /\ step = "tear_address" => Len(steps) = 4
        /\ step = "token" => Len(steps) = 5
        /\ step = "tear_token" => Len(steps) = 6
    BY <2>4 DEF n
  <2>8. i # "java"
    BY <1>2
  <2>9. i # "python"
    BY <1>2
  <2> QED BY <1>2, <2>5, <2>6, <2>7, <2>8, <2>9
<1>3. CASE i = "java"
  <2>1. n \in 1 .. 4 /\ step = JavaHandleMatch[4 - n + 1]
        /\ Len(Tail(steps)) = n - 1 /\ Rest(Tail(steps), JavaHandleMatch)
    BY <1>1, <1>3, Programs, MatchPrograms
  <2> HIDE DEF n
  <2>2. \/ n = 1 /\ step = JavaHandleMatch[4]
        \/ n = 2 /\ step = JavaHandleMatch[3]
        \/ n = 3 /\ step = JavaHandleMatch[2]
        \/ n = 4 /\ step = JavaHandleMatch[1]
    BY <2>1, FourSteps
  <2>3. \/ n = 1 /\ step = "join"
        \/ n = 2 /\ step = "listen"
        \/ n = 3 /\ step = "address"
        \/ n = 4 /\ step = "token"
    BY <2>2, MatchPrograms
  <2>4. /\ step = "join" => n = 1
        /\ step = "listen" => n = 2
        /\ step = "address" => n = 3
        /\ step = "token" => n = 4
    BY <2>3
  <2>5. step \in {"token", "address", "listen", "join"}
    BY <2>3
  <2>6. Len(steps) \in Nat /\ Len(steps) # 0 /\ HandleMatch[i] = JavaHandleMatch
        /\ Len(Tail(steps)) = Len(steps) - 1 /\ Rest(Tail(steps), HandleMatch[i])
    BY <2>1, <1>3, Programs DEF n
  <2>7. /\ step = "join" => Len(steps) = 1
        /\ step = "listen" => Len(steps) = 2
        /\ step = "address" => Len(steps) = 3
        /\ step = "token" => Len(steps) = 4
    BY <2>4 DEF n
  <2>8. i # "cpp"
    BY <1>3
  <2>9. i # "python"
    BY <1>3
  <2> QED BY <1>3, <2>5, <2>6, <2>7, <2>8, <2>9
<1>4. CASE i = "python"
  <2>1. n \in 1 .. 4 /\ step = PythonHandleMatch[4 - n + 1]
        /\ Len(Tail(steps)) = n - 1 /\ Rest(Tail(steps), PythonHandleMatch)
    BY <1>1, <1>4, Programs, MatchPrograms
  <2> HIDE DEF n
  <2>2. \/ n = 1 /\ step = PythonHandleMatch[4]
        \/ n = 2 /\ step = PythonHandleMatch[3]
        \/ n = 3 /\ step = PythonHandleMatch[2]
        \/ n = 4 /\ step = PythonHandleMatch[1]
    BY <2>1, FourSteps
  <2>3. \/ n = 1 /\ step = "join"
        \/ n = 2 /\ step = "listen"
        \/ n = 3 /\ step = "token"
        \/ n = 4 /\ step = "address"
    BY <2>2, MatchPrograms
  <2>4. /\ step = "join" => n = 1
        /\ step = "listen" => n = 2
        /\ step = "token" => n = 3
        /\ step = "address" => n = 4
    BY <2>3
  <2>5. step \in {"address", "token", "listen", "join"}
    BY <2>3
  <2>6. Len(steps) \in Nat /\ Len(steps) # 0 /\ HandleMatch[i] = PythonHandleMatch
        /\ Len(Tail(steps)) = Len(steps) - 1 /\ Rest(Tail(steps), HandleMatch[i])
    BY <2>1, <1>4, Programs DEF n
  <2>7. /\ step = "join" => Len(steps) = 1
        /\ step = "listen" => Len(steps) = 2
        /\ step = "token" => Len(steps) = 3
        /\ step = "address" => Len(steps) = 4
    BY <2>4 DEF n
  <2>8. i # "cpp"
    BY <1>4
  <2>9. i # "java"
    BY <1>4
  <2> QED BY <1>4, <2>5, <2>6, <2>7, <2>8, <2>9
<1> QED BY <1>2, <1>3, <1>4

\* In send_move.
LEMMA MoveTable ==
  ASSUME NEW i \in {"cpp", "java", "python"}, NEW steps, steps # <<>>, Rest(steps, SendMove[i]),
         NEW step, step = Head(steps)
  PROVE  /\ Len(steps) \in Nat /\ Len(steps) # 0 /\ Len(Tail(steps)) = Len(steps) - 1
         /\ Rest(Tail(steps), SendMove[i])
         /\ i = "cpp" =>
              /\ step = "read_token" => Len(steps) = 2
              /\ step = "movement" => Len(steps) = 1
              /\ step \in {"read_token", "movement"}
         /\ i = "java" =>
              /\ step = "need_address" => Len(steps) = 3
              /\ step = "read_token" => Len(steps) = 2
              /\ step = "movement" => Len(steps) = 1
              /\ step \in {"need_address", "read_token", "movement"}
         /\ i = "python" =>
              /\ step = "need_token" => Len(steps) = 4
              /\ step = "read_token" => Len(steps) = 3
              /\ step = "need_address" => Len(steps) = 2
              /\ step = "movement" => Len(steps) = 1
              /\ step \in {"need_token", "read_token", "need_address", "movement"}
<1> DEFINE n == Len(steps)
<1>1. ASSUME NEW P \in Seq(Step), SendMove[i] = P
      PROVE  /\ n \in 1 .. Len(P) /\ step = P[Len(P) - n + 1]
             /\ Len(Tail(steps)) = n - 1 /\ Rest(Tail(steps), P)
  BY <1>1, NextStep
<1>2. CASE i = "cpp"
  <2>1. n \in 1 .. 2 /\ step = CppSendMove[2 - n + 1]
        /\ Len(Tail(steps)) = n - 1 /\ Rest(Tail(steps), CppSendMove)
    BY <1>1, <1>2, Programs, MovePrograms
  <2> HIDE DEF n
  <2>2. \/ n = 1 /\ step = CppSendMove[2]
        \/ n = 2 /\ step = CppSendMove[1]
    BY <2>1, TwoSteps
  <2>3. \/ n = 1 /\ step = "movement"
        \/ n = 2 /\ step = "read_token"
    BY <2>2, MovePrograms
  <2>4. /\ step = "movement" => n = 1
        /\ step = "read_token" => n = 2
    BY <2>3
  <2>5. step \in {"read_token", "movement"}
    BY <2>3
  <2>6. Len(steps) \in Nat /\ Len(steps) # 0 /\ SendMove[i] = CppSendMove
        /\ Len(Tail(steps)) = Len(steps) - 1 /\ Rest(Tail(steps), SendMove[i])
    BY <2>1, <1>2, Programs DEF n
  <2>7. /\ step = "movement" => Len(steps) = 1
        /\ step = "read_token" => Len(steps) = 2
    BY <2>4 DEF n
  <2>8. i # "java"
    BY <1>2
  <2>9. i # "python"
    BY <1>2
  <2> QED BY <1>2, <2>5, <2>6, <2>7, <2>8, <2>9
<1>3. CASE i = "java"
  <2>1. n \in 1 .. 3 /\ step = JavaSendMove[3 - n + 1]
        /\ Len(Tail(steps)) = n - 1 /\ Rest(Tail(steps), JavaSendMove)
    BY <1>1, <1>3, Programs, MovePrograms
  <2> HIDE DEF n
  <2>2. \/ n = 1 /\ step = JavaSendMove[3]
        \/ n = 2 /\ step = JavaSendMove[2]
        \/ n = 3 /\ step = JavaSendMove[1]
    BY <2>1, ThreeSteps
  <2>3. \/ n = 1 /\ step = "movement"
        \/ n = 2 /\ step = "read_token"
        \/ n = 3 /\ step = "need_address"
    BY <2>2, MovePrograms
  <2>4. /\ step = "movement" => n = 1
        /\ step = "read_token" => n = 2
        /\ step = "need_address" => n = 3
    BY <2>3
  <2>5. step \in {"need_address", "read_token", "movement"}
    BY <2>3
  <2>6. Len(steps) \in Nat /\ Len(steps) # 0 /\ SendMove[i] = JavaSendMove
        /\ Len(Tail(steps)) = Len(steps) - 1 /\ Rest(Tail(steps), SendMove[i])
    BY <2>1, <1>3, Programs DEF n
  <2>7. /\ step = "movement" => Len(steps) = 1
        /\ step = "read_token" => Len(steps) = 2
        /\ step = "need_address" => Len(steps) = 3
    BY <2>4 DEF n
  <2>8. i # "cpp"
    BY <1>3
  <2>9. i # "python"
    BY <1>3
  <2> QED BY <1>3, <2>5, <2>6, <2>7, <2>8, <2>9
<1>4. CASE i = "python"
  <2>1. n \in 1 .. 4 /\ step = PythonSendMove[4 - n + 1]
        /\ Len(Tail(steps)) = n - 1 /\ Rest(Tail(steps), PythonSendMove)
    BY <1>1, <1>4, Programs, MovePrograms
  <2> HIDE DEF n
  <2>2. \/ n = 1 /\ step = PythonSendMove[4]
        \/ n = 2 /\ step = PythonSendMove[3]
        \/ n = 3 /\ step = PythonSendMove[2]
        \/ n = 4 /\ step = PythonSendMove[1]
    BY <2>1, FourSteps
  <2>3. \/ n = 1 /\ step = "movement"
        \/ n = 2 /\ step = "need_address"
        \/ n = 3 /\ step = "read_token"
        \/ n = 4 /\ step = "need_token"
    BY <2>2, MovePrograms
  <2>4. /\ step = "movement" => n = 1
        /\ step = "need_address" => n = 2
        /\ step = "read_token" => n = 3
        /\ step = "need_token" => n = 4
    BY <2>3
  <2>5. step \in {"need_token", "read_token", "need_address", "movement"}
    BY <2>3
  <2>6. Len(steps) \in Nat /\ Len(steps) # 0 /\ SendMove[i] = PythonSendMove
        /\ Len(Tail(steps)) = Len(steps) - 1 /\ Rest(Tail(steps), SendMove[i])
    BY <2>1, <1>4, Programs DEF n
  <2>7. /\ step = "movement" => Len(steps) = 1
        /\ step = "need_address" => Len(steps) = 2
        /\ step = "read_token" => Len(steps) = 3
        /\ step = "need_token" => Len(steps) = 4
    BY <2>4 DEF n
  <2>8. i # "cpp"
    BY <1>4
  <2>9. i # "java"
    BY <1>4
  <2> QED BY <1>4, <2>5, <2>6, <2>7, <2>8, <2>9
<1> QED BY <1>2, <1>3, <1>4

\* In listen_server.
LEMMA StoreTable ==
  ASSUME NEW i \in {"cpp", "java", "python"}, NEW steps, steps # <<>>, Rest(steps, Store[i]),
         NEW step, step = Head(steps)
  PROVE  /\ Len(steps) \in Nat /\ Len(steps) # 0 /\ Len(Tail(steps)) = Len(steps) - 1
         /\ Rest(Tail(steps), Store[i])
         /\ i = "cpp" =>
              /\ step = "clear" => Len(steps) = 3
              /\ step = "ball" => Len(steps) = 2
              /\ step = "paddles" => Len(steps) = 1
              /\ step \in {"clear", "ball", "paddles"}
         /\ i = "java" =>
              /\ step = "own" => Len(steps) = 3
              /\ step = "state" => Len(steps) = 2
              /\ step = "screen" => Len(steps) = 1
              /\ step \in {"own", "state", "screen"}
         /\ i = "python" =>
              /\ step = "own" => Len(steps) = 4
              /\ step = "newer" => Len(steps) = 3
              /\ step = "last_frame" => Len(steps) = 2
              /\ step = "state" => Len(steps) = 1
              /\ step \in {"own", "newer", "last_frame", "state"}
<1> DEFINE n == Len(steps)
<1>1. ASSUME NEW P \in Seq(Step), Store[i] = P
      PROVE  /\ n \in 1 .. Len(P) /\ step = P[Len(P) - n + 1]
             /\ Len(Tail(steps)) = n - 1 /\ Rest(Tail(steps), P)
  BY <1>1, NextStep
<1>2. CASE i = "cpp"
  <2>1. n \in 1 .. 3 /\ step = CppStore[3 - n + 1]
        /\ Len(Tail(steps)) = n - 1 /\ Rest(Tail(steps), CppStore)
    BY <1>1, <1>2, Programs, StorePrograms
  <2> HIDE DEF n
  <2>2. \/ n = 1 /\ step = CppStore[3]
        \/ n = 2 /\ step = CppStore[2]
        \/ n = 3 /\ step = CppStore[1]
    BY <2>1, ThreeSteps
  <2>3. \/ n = 1 /\ step = "paddles"
        \/ n = 2 /\ step = "ball"
        \/ n = 3 /\ step = "clear"
    BY <2>2, StorePrograms
  <2>4. /\ step = "paddles" => n = 1
        /\ step = "ball" => n = 2
        /\ step = "clear" => n = 3
    BY <2>3
  <2>5. step \in {"clear", "ball", "paddles"}
    BY <2>3
  <2>6. Len(steps) \in Nat /\ Len(steps) # 0 /\ Store[i] = CppStore
        /\ Len(Tail(steps)) = Len(steps) - 1 /\ Rest(Tail(steps), Store[i])
    BY <2>1, <1>2, Programs DEF n
  <2>7. /\ step = "paddles" => Len(steps) = 1
        /\ step = "ball" => Len(steps) = 2
        /\ step = "clear" => Len(steps) = 3
    BY <2>4 DEF n
  <2>8. i # "java"
    BY <1>2
  <2>9. i # "python"
    BY <1>2
  <2> QED BY <1>2, <2>5, <2>6, <2>7, <2>8, <2>9
<1>3. CASE i = "java"
  <2>1. n \in 1 .. 3 /\ step = JavaStore[3 - n + 1]
        /\ Len(Tail(steps)) = n - 1 /\ Rest(Tail(steps), JavaStore)
    BY <1>1, <1>3, Programs, StorePrograms
  <2> HIDE DEF n
  <2>2. \/ n = 1 /\ step = JavaStore[3]
        \/ n = 2 /\ step = JavaStore[2]
        \/ n = 3 /\ step = JavaStore[1]
    BY <2>1, ThreeSteps
  <2>3. \/ n = 1 /\ step = "screen"
        \/ n = 2 /\ step = "state"
        \/ n = 3 /\ step = "own"
    BY <2>2, StorePrograms
  <2>4. /\ step = "screen" => n = 1
        /\ step = "state" => n = 2
        /\ step = "own" => n = 3
    BY <2>3
  <2>5. step \in {"own", "state", "screen"}
    BY <2>3
  <2>6. Len(steps) \in Nat /\ Len(steps) # 0 /\ Store[i] = JavaStore
        /\ Len(Tail(steps)) = Len(steps) - 1 /\ Rest(Tail(steps), Store[i])
    BY <2>1, <1>3, Programs DEF n
  <2>7. /\ step = "screen" => Len(steps) = 1
        /\ step = "state" => Len(steps) = 2
        /\ step = "own" => Len(steps) = 3
    BY <2>4 DEF n
  <2>8. i # "cpp"
    BY <1>3
  <2>9. i # "python"
    BY <1>3
  <2> QED BY <1>3, <2>5, <2>6, <2>7, <2>8, <2>9
<1>4. CASE i = "python"
  <2>1. n \in 1 .. 4 /\ step = PythonStore[4 - n + 1]
        /\ Len(Tail(steps)) = n - 1 /\ Rest(Tail(steps), PythonStore)
    BY <1>1, <1>4, Programs, StorePrograms
  <2> HIDE DEF n
  <2>2. \/ n = 1 /\ step = PythonStore[4]
        \/ n = 2 /\ step = PythonStore[3]
        \/ n = 3 /\ step = PythonStore[2]
        \/ n = 4 /\ step = PythonStore[1]
    BY <2>1, FourSteps
  <2>3. \/ n = 1 /\ step = "state"
        \/ n = 2 /\ step = "last_frame"
        \/ n = 3 /\ step = "newer"
        \/ n = 4 /\ step = "own"
    BY <2>2, StorePrograms
  <2>4. /\ step = "state" => n = 1
        /\ step = "last_frame" => n = 2
        /\ step = "newer" => n = 3
        /\ step = "own" => n = 4
    BY <2>3
  <2>5. step \in {"own", "newer", "last_frame", "state"}
    BY <2>3
  <2>6. Len(steps) \in Nat /\ Len(steps) # 0 /\ Store[i] = PythonStore
        /\ Len(Tail(steps)) = Len(steps) - 1 /\ Rest(Tail(steps), Store[i])
    BY <2>1, <1>4, Programs DEF n
  <2>7. /\ step = "state" => Len(steps) = 1
        /\ step = "last_frame" => Len(steps) = 2
        /\ step = "newer" => Len(steps) = 3
        /\ step = "own" => Len(steps) = 4
    BY <2>4 DEF n
  <2>8. i # "cpp"
    BY <1>4
  <2>9. i # "java"
    BY <1>4
  <2> QED BY <1>4, <2>5, <2>6, <2>7, <2>8, <2>9
<1> QED BY <1>2, <1>3, <1>4

\* In what the window's thread draws.
LEMMA DrawTable ==
  ASSUME NEW i \in {"cpp", "python"}, NEW steps, steps # <<>>, Rest(steps, Draw[i]),
         NEW step, step = Head(steps)
  PROVE  /\ Len(steps) \in Nat /\ Len(steps) # 0 /\ Len(Tail(steps)) = Len(steps) - 1
         /\ Rest(Tail(steps), Draw[i])
         /\ i = "cpp" =>
              /\ step = "draw_ball" => Len(steps) = 2
              /\ step = "draw_paddles" => Len(steps) = 1
              /\ step \in {"draw_ball", "draw_paddles"}
         /\ i = "python" =>
              /\ step = "fresh" => Len(steps) = 4
              /\ step = "processed" => Len(steps) = 3
              /\ step = "draw_ball" => Len(steps) = 2
              /\ step = "draw_paddles" => Len(steps) = 1
              /\ step \in {"fresh", "processed", "draw_ball", "draw_paddles"}
<1> DEFINE n == Len(steps)
<1>1. ASSUME NEW P \in Seq(Step), Draw[i] = P
      PROVE  /\ n \in 1 .. Len(P) /\ step = P[Len(P) - n + 1]
             /\ Len(Tail(steps)) = n - 1 /\ Rest(Tail(steps), P)
  BY <1>1, NextStep
<1>2. CASE i = "cpp"
  <2>1. n \in 1 .. 2 /\ step = CppDraw[2 - n + 1]
        /\ Len(Tail(steps)) = n - 1 /\ Rest(Tail(steps), CppDraw)
    BY <1>1, <1>2, Programs, DrawPrograms
  <2> HIDE DEF n
  <2>2. \/ n = 1 /\ step = CppDraw[2]
        \/ n = 2 /\ step = CppDraw[1]
    BY <2>1, TwoSteps
  <2>3. \/ n = 1 /\ step = "draw_paddles"
        \/ n = 2 /\ step = "draw_ball"
    BY <2>2, DrawPrograms
  <2>4. /\ step = "draw_paddles" => n = 1
        /\ step = "draw_ball" => n = 2
    BY <2>3
  <2>5. step \in {"draw_ball", "draw_paddles"}
    BY <2>3
  <2>6. Len(steps) \in Nat /\ Len(steps) # 0 /\ Draw[i] = CppDraw
        /\ Len(Tail(steps)) = Len(steps) - 1 /\ Rest(Tail(steps), Draw[i])
    BY <2>1, <1>2, Programs DEF n
  <2>7. /\ step = "draw_paddles" => Len(steps) = 1
        /\ step = "draw_ball" => Len(steps) = 2
    BY <2>4 DEF n
  <2>8. i # "python"
    BY <1>2
  <2> QED BY <1>2, <2>5, <2>6, <2>7, <2>8
<1>3. CASE i = "python"
  <2>1. n \in 1 .. 4 /\ step = PythonDraw[4 - n + 1]
        /\ Len(Tail(steps)) = n - 1 /\ Rest(Tail(steps), PythonDraw)
    BY <1>1, <1>3, Programs, DrawPrograms
  <2> HIDE DEF n
  <2>2. \/ n = 1 /\ step = PythonDraw[4]
        \/ n = 2 /\ step = PythonDraw[3]
        \/ n = 3 /\ step = PythonDraw[2]
        \/ n = 4 /\ step = PythonDraw[1]
    BY <2>1, FourSteps
  <2>3. \/ n = 1 /\ step = "draw_paddles"
        \/ n = 2 /\ step = "draw_ball"
        \/ n = 3 /\ step = "processed"
        \/ n = 4 /\ step = "fresh"
    BY <2>2, DrawPrograms
  <2>4. /\ step = "draw_paddles" => n = 1
        /\ step = "draw_ball" => n = 2
        /\ step = "processed" => n = 3
        /\ step = "fresh" => n = 4
    BY <2>3
  <2>5. step \in {"fresh", "processed", "draw_ball", "draw_paddles"}
    BY <2>3
  <2>6. Len(steps) \in Nat /\ Len(steps) # 0 /\ Draw[i] = PythonDraw
        /\ Len(Tail(steps)) = Len(steps) - 1 /\ Rest(Tail(steps), Draw[i])
    BY <2>1, <1>3, Programs DEF n
  <2>7. /\ step = "draw_paddles" => Len(steps) = 1
        /\ step = "draw_ball" => Len(steps) = 2
        /\ step = "processed" => Len(steps) = 3
        /\ step = "fresh" => Len(steps) = 4
    BY <2>4 DEF n
  <2>8. i # "cpp"
    BY <1>3
  <2> QED BY <1>3, <2>5, <2>6, <2>7, <2>8
<1> QED BY <1>2, <1>3

-----------------------------------------------------------------------------
(* What the actions of each thread leave alone. *)

MatchSteps == WriteToken \/ WriteAddress \/ SendJoin \/ StartListener
StoreSteps == \E l \in 1 .. Len(listeners) : ListenServer(l)
UiSteps == Key \/ BeginDraw \/ UiStep
ReadSteps == \E n \in 1 .. Len(stream) : ReadMatch(n)

\* Every step is one of these.
LEMMA StepOf ==
  ASSUME Next
  PROVE  Main \/ ReadSteps \/ MatchSteps \/ StoreSteps \/ UiSteps \/ Environment
BY DEF Next, ListenCoordinator, MatchSteps, StoreSteps, UiSteps, ReadSteps

\* The main thread moves the window only.
LEMMA MainKeeps ==
  ASSUME Main
  PROVE  /\ impl' = impl /\ token' = token /\ address' = address /\ coordinator' = coordinator
         /\ offered' = offered /\ unsought' = unsought /\ stream' = stream /\ match' = match
         /\ frames' = frames /\ reordered' = reordered /\ listeners' = listeners /\ state' = state
         /\ last_frame' = last_frame /\ drawn' = drawn /\ last_processed' = last_processed
         /\ raced' = raced /\ frozen' = frozen /\ joins' = joins /\ ui' = ui
         /\ window' = window \/ window' # "connected"
BY DEF Main, CreateSocket, SearchAndOpen, Cleanup, fields, coordinatorVars, serverVars, storeVars, drawVars

\* A Match that is read.
LEMMA ReadKeeps ==
  ASSUME ReadSteps
  PROVE  /\ impl' = impl /\ window' = window /\ token' = token /\ address' = address
         /\ offered' = offered /\ unsought' = unsought /\ joins' = joins
         /\ frames' = frames /\ reordered' = reordered /\ listeners' = listeners /\ state' = state
         /\ last_frame' = last_frame /\ drawn' = drawn /\ last_processed' = last_processed
         /\ raced' = raced /\ frozen' = frozen
         /\ Idle(match) /\ ui' = [ui EXCEPT !.overlap = ~Idle(ui)]
         /\ \E n \in 1 .. Len(stream) :
              /\ match' = [steps |-> HandleMatch[impl], token |-> stream[n]]
              /\ stream' = SubSeq(stream, n + 1, Len(stream))
BY DEF ReadSteps, ReadMatch, fields, serverVars, storeVars, drawVars, processVars

\* handle_match.
LEMMA MatchKeeps ==
  ASSUME MatchSteps
  PROVE  /\ impl' = impl /\ window' = window /\ stream' = stream
         /\ offered' = offered /\ unsought' = unsought /\ ui' = ui
         /\ frames' = frames /\ reordered' = reordered /\ state' = state
         /\ last_frame' = last_frame /\ drawn' = drawn /\ last_processed' = last_processed
         /\ raced' = raced /\ frozen' = frozen
         /\ \E step : MatchStep(step)
         /\ \/ listeners' = listeners
            \/ listeners' = Append(listeners, [steps |-> <<>>, got |-> NoState])
         /\ joins \subseteq joins'
         /\ \/ joins' = joins
            \/ joins' = joins \cup {[token |-> token, to |-> address]}
         /\ MatchStep("join") \/ joins' = joins
<1>1. CASE WriteToken
  BY <1>1 DEF WriteToken, MatchStep, coordinatorVars, serverVars, storeVars, drawVars, processVars
<1>2. CASE WriteAddress
  BY <1>2 DEF WriteAddress, MatchStep, coordinatorVars, serverVars, storeVars, drawVars, processVars
<1>3. CASE SendJoin
  <2>1. MatchStep("join") /\ joins \subseteq joins'
        /\ (joins' = joins \/ joins' = joins \cup {[token |-> token, to |-> address]})
    BY <1>3 DEF SendJoin
  <2>2. impl' = impl /\ window' = window /\ stream' = stream
        /\ offered' = offered /\ unsought' = unsought /\ ui' = ui
        /\ frames' = frames /\ reordered' = reordered /\ state' = state
        /\ last_frame' = last_frame /\ drawn' = drawn /\ last_processed' = last_processed
        /\ raced' = raced /\ frozen' = frozen /\ listeners' = listeners
    BY <1>3 DEF SendJoin, coordinatorVars, serverVars, storeVars, drawVars, processVars
  <2> QED BY <2>1, <2>2
<1>4. CASE StartListener
  <2>1. MatchStep("listen") /\ listeners' = Append(listeners, [steps |-> <<>>, got |-> NoState])
    BY <1>4 DEF StartListener
  <2>2. impl' = impl /\ window' = window /\ stream' = stream
        /\ offered' = offered /\ unsought' = unsought /\ ui' = ui
        /\ frames' = frames /\ reordered' = reordered /\ state' = state
        /\ last_frame' = last_frame /\ drawn' = drawn /\ last_processed' = last_processed
        /\ raced' = raced /\ frozen' = frozen /\ joins' = joins
    BY <1>4 DEF StartListener, coordinatorVars, serverVars, drawVars, processVars
  <2> QED BY <2>1, <2>2
<1> QED BY <1>1, <1>2, <1>3, <1>4 DEF MatchSteps

\* A listen_server.
LEMMA StoreKeeps ==
  ASSUME NEW l, ListenServer(l)
  PROVE  /\ impl' = impl /\ window' = window /\ token' = token /\ address' = address
         /\ offered' = offered /\ unsought' = unsought /\ stream' = stream /\ match' = match
         /\ frames' = frames /\ last_processed' = last_processed
         /\ raced' = raced /\ frozen' = frozen /\ joins' = joins /\ ui' = ui
         /\ \E x : listeners' = [listeners EXCEPT ![l] = x]
<1>1. CASE \E d \in State : Receive(l, d)
  BY <1>1 DEF Receive, fields, coordinatorVars, drawVars, processVars
<1>2. CASE Test(l)
  <2>1. PICK step \in {"own", "newer"} :
          listeners' = [listeners EXCEPT ![l] = IF Accepts(l, step) THEN Past(@) ELSE [@ EXCEPT !.steps = <<>>]]
          /\ UNCHANGED <<state, last_frame, fields, coordinatorVars, match, serverVars,
                         drawVars, processVars, joins, ui>>
    BY <1>2 DEF Test
  <2> QED BY <2>1 DEF fields, coordinatorVars, serverVars, drawVars, processVars
<1>3. CASE StoreState(l)
  BY <1>3 DEF StoreState, fields, coordinatorVars, serverVars, drawVars, processVars
<1>4. CASE StoreFrame(l)
  BY <1>4 DEF StoreFrame, fields, coordinatorVars, serverVars, drawVars, processVars
<1>5. CASE UpdateScreen(l)
  BY <1>5 DEF UpdateScreen, fields, coordinatorVars, serverVars, drawVars, processVars
<1> QED BY <1>1, <1>2, <1>3, <1>4, <1>5 DEF ListenServer, StoreStep

\* The window's thread.
LEMMA UiKeeps ==
  ASSUME UiSteps
  PROVE  /\ impl' = impl /\ window' = window /\ token' = token /\ address' = address
         /\ offered' = offered /\ unsought' = unsought /\ stream' = stream /\ match' = match
         /\ frames' = frames /\ reordered' = reordered /\ listeners' = listeners /\ state' = state
         /\ last_frame' = last_frame /\ joins' = joins
<1>1. CASE Key \/ BeginDraw \/ SendMovement
  BY <1>1 DEF Key, BeginDraw, SendMovement, fields, coordinatorVars, serverVars, storeVars, processVars
<1>2. CASE MoveStep
  BY <1>2 DEF MoveStep, fields, coordinatorVars, serverVars, storeVars, processVars
<1>3. CASE TestFresh \/ NoteProcessed
  BY <1>3 DEF TestFresh, NoteProcessed, fields, coordinatorVars, serverVars, storeVars, processVars
<1>4. CASE DrawPart
  BY <1>4 DEF DrawPart, fields, coordinatorVars, serverVars, storeVars, processVars
<1> QED BY <1>1, <1>2, <1>3, <1>4 DEF UiSteps, UiStep

\* The coordinator and the servers.
LEMMA EnvironmentKeeps ==
  ASSUME Environment
  PROVE  /\ impl' = impl /\ window' = window /\ token' = token /\ address' = address /\ match' = match
         /\ joins' = joins /\ ui' = ui /\ listeners' = listeners /\ state' = state
         /\ last_frame' = last_frame /\ drawn' = drawn /\ last_processed' = last_processed
         /\ raced' = raced /\ frozen' = frozen /\ reordered' = reordered
         /\ \/ \E t \in Token : OfferMatch(t) /\ frames' = frames
            \/ /\ offered' = offered /\ unsought' = unsought /\ stream' = stream
               /\ \/ frames' = frames
                  \/ \E t \in Token : /\ [token |-> t, to |-> t] \in joins
                                      /\ frames' = [frames EXCEPT ![t] = @ + 1]
<1>1. CASE CoordinatorEnds
  BY <1>1 DEF CoordinatorEnds, fields, serverVars, storeVars, drawVars, processVars
<1>2. ASSUME NEW t \in Token, OfferMatch(t)
      PROVE  /\ impl' = impl /\ window' = window /\ token' = token /\ address' = address /\ match' = match
             /\ joins' = joins /\ ui' = ui /\ listeners' = listeners /\ state' = state
             /\ last_frame' = last_frame /\ drawn' = drawn /\ last_processed' = last_processed
             /\ raced' = raced /\ frozen' = frozen /\ reordered' = reordered /\ frames' = frames
  BY <1>2 DEF OfferMatch, fields, serverVars, storeVars, drawVars, processVars
<1>3. ASSUME NEW t \in Token, ServerSends(t)
      PROVE  /\ [token |-> t, to |-> t] \in joins
             /\ frames' = [frames EXCEPT ![t] = @ + 1]
             /\ UNCHANGED <<reordered, fields, coordinatorVars, match, storeVars,
                            drawVars, processVars, joins, ui>>
  BY <1>3, Zenon DEF ServerSends
<1>4. ASSUME NEW t \in Token, ServerSends(t)
      PROVE  /\ impl' = impl /\ window' = window /\ token' = token /\ address' = address /\ match' = match
             /\ joins' = joins /\ ui' = ui /\ listeners' = listeners /\ state' = state
             /\ last_frame' = last_frame /\ drawn' = drawn /\ last_processed' = last_processed
             /\ raced' = raced /\ frozen' = frozen /\ reordered' = reordered
             /\ offered' = offered /\ unsought' = unsought /\ stream' = stream
  BY <1>3, <1>4 DEF fields, coordinatorVars, storeVars, drawVars, processVars
<1> QED BY <1>1, <1>2, <1>3, <1>4 DEF Environment

-----------------------------------------------------------------------------
(* The types. *)

\* The thread of handle_match takes its steps in their order.
LEMMA MatchAt ==
  ASSUME Types, NEW step, MatchStep(step)
  PROVE  /\ match.token \in Token /\ match.token \in offered /\ match.token # None
         /\ match' = [steps |-> Tail(match.steps), token |-> match.token]
         /\ Tail(match.steps) \in Seq(Step) /\ Rest(Tail(match.steps), HandleMatch[impl])
         /\ Len(match.steps) \in Nat /\ Len(match.steps) # 0 /\ ~Idle(match)
         /\ Len(Tail(match.steps)) = Len(match.steps) - 1
         /\ impl = "cpp" =>
              /\ step = "tear_token" => Len(match.steps) = 6
              /\ step = "token" => Len(match.steps) = 5
              /\ step = "tear_address" => Len(match.steps) = 4
              /\ step = "address" => Len(match.steps) = 3
              /\ step = "join" => Len(match.steps) = 2
              /\ step = "listen" => Len(match.steps) = 1
         /\ impl = "java" =>
              /\ step = "token" => Len(match.steps) = 4
              /\ step = "address" => Len(match.steps) = 3
              /\ step = "listen" => Len(match.steps) = 2
              /\ step = "join" => Len(match.steps) = 1
              /\ step \in {"token", "address", "listen", "join"}
         /\ impl = "python" =>
              /\ step = "address" => Len(match.steps) = 4
              /\ step = "token" => Len(match.steps) = 3
              /\ step = "listen" => Len(match.steps) = 2
              /\ step = "join" => Len(match.steps) = 1
              /\ step \in {"address", "token", "listen", "join"}
<1>1. /\ match.steps # <<>> /\ step = Head(match.steps) /\ match' = Past(match)
      /\ impl \in {"cpp", "java", "python"} /\ Rest(match.steps, HandleMatch[impl])
  BY DEF MatchStep, At, Types, MatchTypes
<1>2. /\ match.token \in Token /\ match.token \in offered /\ match.token # None
      /\ match' = [steps |-> Tail(match.steps), token |-> match.token]
  BY <1>1, TokenFacts DEF Types, MatchTypes, Past
<1>3. Rest(Tail(match.steps), HandleMatch[impl])
  BY <1>1, MatchTable
<1>4. Tail(match.steps) \in Seq(Step) /\ ~Idle(match)
  BY <1>1, <1>3 DEF Rest, Idle
<1> QED BY <1>1, <1>2, <1>3, <1>4, MatchTable

\* The types of what the coordinator sends and handle_match writes.
LEMMA MatchTypesStep ==
  ASSUME Types, Next
  PROVE  MatchTypes'
<1>0. Types /\ MatchTypes /\ impl \in {"cpp", "java", "python"}
  BY DEF Types
<1>1. CASE Main \/ StoreSteps \/ UiSteps
  <2>1. impl' = impl /\ stream' = stream /\ offered' = offered /\ match' = match /\ token' = token
        /\ address' = address
    BY <1>1, MainKeeps, UiKeeps, StoreKeeps DEF StoreSteps
  <2> QED BY <1>0, <2>1 DEF MatchTypes
<1>2. CASE ReadSteps
  <2>1. PICK n \in 1 .. Len(stream) :
              /\ match' = [steps |-> HandleMatch[impl], token |-> stream[n]]
              /\ stream' = SubSeq(stream, n + 1, Len(stream))
    BY <1>2, ReadKeeps
  <2>2. /\ stream \in Seq(offered) /\ offered' = offered /\ offered \subseteq Token /\ impl' = impl
        /\ token' = token /\ address' = address
        /\ token \in Token \cup {None, Torn} /\ address \in Token \cup {None, Torn}
    BY <1>0, <1>2, ReadKeeps DEF MatchTypes
  <2>3. stream[n] \in offered /\ stream[n] # None /\ Len(stream) \in Nat
    BY <2>2, ElementOfSeq, LenProperties, TokenFacts
  <2>4. stream' \in Seq(offered)
    <3>1. \A i \in n + 1 .. Len(stream) : stream[i] \in offered
      BY <2>2, <2>3, ElementOfSeq
    <3>2. n + 1 \in Int /\ Len(stream) \in Int
      BY <2>3
    <3> QED BY <2>1, <3>1, <3>2, SubSeqProperties
  <2>5. HandleMatch[impl] \in Seq(Step) /\ Rest(HandleMatch[impl], HandleMatch[impl])
    BY <1>0, Programs, MatchPrograms, WholeAndEmpty
  <2>6. match' \in [steps : Seq(Step), token : offered \cup {None}] /\ match'.token # None
        /\ Rest(match'.steps, HandleMatch[impl])
    BY <2>1, <2>3, <2>5
  <2> QED BY <2>2, <2>4, <2>6 DEF MatchTypes
<1>3. CASE MatchSteps
  <2>1. PICK step : MatchStep(step)
    BY <1>3, MatchKeeps
  <2>2. /\ match' = [steps |-> Tail(match.steps), token |-> match.token]
        /\ match.token \in Token /\ match.token \in offered /\ match.token # None
        /\ Tail(match.steps) \in Seq(Step) /\ Rest(Tail(match.steps), HandleMatch[impl])
    BY <1>0, <2>1, MatchAt
  <2>3. stream' = stream /\ offered' = offered /\ impl' = impl
    BY <1>3, MatchKeeps
  <2>4. token' \in {token, Torn, match.token} /\ address' \in {address, Torn, match.token}
    BY <1>3 DEF MatchSteps, WriteToken, WriteAddress, SendJoin, StartListener, fields
  <2>5. match' \in [steps : Seq(Step), token : offered \cup {None}] /\ match'.token # None
        /\ match'.steps = Tail(match.steps)
    BY <2>2
  <2>6. token' \in Token \cup {None, Torn} /\ address' \in Token \cup {None, Torn}
    BY <1>0, <2>2, <2>4 DEF MatchTypes
  <2> QED BY <1>0, <2>2, <2>3, <2>5, <2>6 DEF MatchTypes
<1>4. CASE Environment
  <2>1. impl' = impl /\ token' = token /\ address' = address /\ match' = match
    BY <1>4, EnvironmentKeeps
  <2>2. CASE offered' = offered /\ stream' = stream
    BY <1>0, <2>1, <2>2 DEF MatchTypes
  <2>3. ASSUME NEW t \in Token, OfferMatch(t)
        PROVE  MatchTypes'
    <3>1. offered' = offered \cup {t} /\ stream' = Append(stream, t) /\ stream \in Seq(offered)
          /\ offered \subseteq Token
      BY <1>0, <2>3 DEF OfferMatch, MatchTypes
    <3>2. stream \in Seq(offered')
      BY <3>1, SeqMonotonic
    <3>3. stream' \in Seq(offered')
      BY <3>1, <3>2
    <3>4. match' \in [steps : Seq(Step), token : offered' \cup {None}]
      BY <1>0, <2>1, <3>1 DEF MatchTypes
    <3> QED BY <1>0, <2>1, <3>1, <3>3, <3>4 DEF MatchTypes
  <2> QED BY <1>4, <2>2, <2>3, EnvironmentKeeps
<1> QED BY <1>1, <1>2, <1>3, <1>4, StepOf

MoveSteps == {"read_token", "movement", "need_address", "need_token"}
DrawSteps == {"draw_ball", "draw_paddles", "fresh", "processed"}

\* What is left of the window's thread.
After == [steps |-> Tail(ui.steps), token |-> ui.token, overlap |-> ui.overlap]

\* The window's thread within send_move.
LEMMA MovingAt ==
  ASSUME Types, Moving, NEW step, step = Head(ui.steps)
  PROVE  /\ step \in MoveSteps /\ step \notin DrawSteps
         /\ Len(ui.steps) \in Nat /\ Len(ui.steps) # 0 /\ Len(Tail(ui.steps)) = Len(ui.steps) - 1
         /\ Tail(ui.steps) \in Seq(Step) /\ Rest(Tail(ui.steps), SendMove[impl])
         /\ Past(ui) = After
         /\ impl = "cpp" =>
              /\ step = "read_token" => Len(ui.steps) = 2
              /\ step = "movement" => Len(ui.steps) = 1
              /\ step \in {"read_token", "movement"}
         /\ impl = "java" =>
              /\ step = "need_address" => Len(ui.steps) = 3
              /\ step = "read_token" => Len(ui.steps) = 2
              /\ step = "movement" => Len(ui.steps) = 1
              /\ step \in {"need_address", "read_token", "movement"}
         /\ impl = "python" =>
              /\ step = "need_token" => Len(ui.steps) = 4
              /\ step = "read_token" => Len(ui.steps) = 3
              /\ step = "need_address" => Len(ui.steps) = 2
              /\ step = "movement" => Len(ui.steps) = 1
<1>1. /\ ui.steps # <<>> /\ Rest(ui.steps, SendMove[impl]) /\ impl \in {"cpp", "java", "python"}
      /\ ui \in [steps : Seq(Step), token : Token \cup {None, Torn}, overlap : BOOLEAN]
  BY DEF Moving, Types, UiTypes
<1>2. Past(ui) = After
  BY <1>1 DEF Past, After
<1>3. step \in MoveSteps
  <2>1. CASE impl = "cpp"
    <3>1. step \in {"read_token", "movement"}
      BY <1>1, <2>1, MoveTable
    <3> QED BY <3>1 DEF MoveSteps
  <2>2. CASE impl = "java"
    <3>1. step \in {"need_address", "read_token", "movement"}
      BY <1>1, <2>2, MoveTable
    <3> QED BY <3>1 DEF MoveSteps
  <2>3. CASE impl = "python"
    <3>1. step \in {"need_token", "read_token", "need_address", "movement"}
      BY <1>1, <2>3, MoveTable
    <3> QED BY <3>1 DEF MoveSteps
  <2> QED BY <1>1, <2>1, <2>2, <2>3
<1>4. step \notin DrawSteps
  BY <1>3 DEF MoveSteps, DrawSteps
<1>5. Rest(Tail(ui.steps), SendMove[impl])
  BY <1>1, MoveTable
<1>6. Tail(ui.steps) \in Seq(Step)
  BY <1>5 DEF Rest
<1> QED BY <1>1, <1>2, <1>3, <1>4, <1>5, <1>6, MoveTable

\* The window's thread within its drawing.
LEMMA DrawingAt ==
  ASSUME Types, Drawing, NEW step, step = Head(ui.steps)
  PROVE  /\ step \in DrawSteps /\ step \notin MoveSteps
         /\ Len(ui.steps) \in Nat /\ Len(ui.steps) # 0 /\ Len(Tail(ui.steps)) = Len(ui.steps) - 1
         /\ Tail(ui.steps) \in Seq(Step) /\ Rest(Tail(ui.steps), Draw[impl])
         /\ Past(ui) = After /\ impl \in {"cpp", "python"}
         /\ impl = "cpp" =>
              /\ step = "draw_ball" => Len(ui.steps) = 2
              /\ step = "draw_paddles" => Len(ui.steps) = 1
              /\ step \in {"draw_ball", "draw_paddles"}
         /\ impl = "python" =>
              /\ step = "fresh" => Len(ui.steps) = 4
              /\ step = "processed" => Len(ui.steps) = 3
              /\ step = "draw_ball" => Len(ui.steps) = 2
              /\ step = "draw_paddles" => Len(ui.steps) = 1
<1>1. /\ ui.steps # <<>> /\ Rest(ui.steps, Draw[impl]) /\ impl \in {"cpp", "python"}
      /\ ui \in [steps : Seq(Step), token : Token \cup {None, Torn}, overlap : BOOLEAN]
  BY DEF Drawing, Types, UiTypes
<1>2. Past(ui) = After
  BY <1>1 DEF Past, After
<1>3. step \in DrawSteps
  <2>1. CASE impl = "cpp"
    <3>1. step \in {"draw_ball", "draw_paddles"}
      BY <1>1, <2>1, DrawTable
    <3> QED BY <3>1 DEF DrawSteps
  <2>2. CASE impl = "python"
    <3>1. step \in {"fresh", "processed", "draw_ball", "draw_paddles"}
      BY <1>1, <2>2, DrawTable
    <3> QED BY <3>1 DEF DrawSteps
  <2> QED BY <1>1, <2>1, <2>2
<1>4. step \notin MoveSteps
  BY <1>3 DEF MoveSteps, DrawSteps
<1>5. Rest(Tail(ui.steps), Draw[impl])
  BY <1>1, DrawTable
<1>6. Tail(ui.steps) \in Seq(Step)
  BY <1>5 DEF Rest
<1> QED BY <1>1, <1>2, <1>3, <1>4, <1>5, <1>6, DrawTable

\* The window's thread does one of the two.
LEMMA MovingOrDrawing ==
  ASSUME Types
  PROVE  /\ ~(Moving /\ Drawing)
         /\ \A step \in MoveSteps : At(ui, step) => Moving /\ step = Head(ui.steps)
         /\ \A step \in DrawSteps : At(ui, step) => Drawing /\ step = Head(ui.steps)
<1>1. ASSUME Moving, Drawing PROVE FALSE
  BY <1>1, MovingAt, DrawingAt
<1>2. ASSUME NEW step \in MoveSteps, At(ui, step) PROVE Moving /\ step = Head(ui.steps)
  BY <1>2, DrawingAt DEF Types, UiTypes, At
<1>3. ASSUME NEW step \in DrawSteps, At(ui, step) PROVE Drawing /\ step = Head(ui.steps)
  BY <1>3, MovingAt DEF Types, UiTypes, At
<1> QED BY <1>1, <1>2, <1>3

\* The types of the window's thread.
LEMMA UiTypesStep ==
  ASSUME Types, Next
  PROVE  UiTypes'
<1>0. Types /\ UiTypes /\ impl \in {"cpp", "java", "python"}
      /\ ui \in [steps : Seq(Step), token : Token \cup {None, Torn}, overlap : BOOLEAN]
      /\ token \in Token \cup {None, Torn} /\ <<>> \in Seq(Step)
  BY EmptySeq DEF Types, UiTypes, MatchTypes
<1> DEFINE Ok(u) == /\ u \in [steps : Seq(Step), token : Token \cup {None, Torn}, overlap : BOOLEAN]
                    /\ \/ u.steps = <<>>
                       \/ Rest(u.steps, SendMove[impl])
                       \/ impl # "java" /\ Rest(u.steps, Draw[impl])
<1>1. Ok(ui) /\ ui \in [steps : Seq(Step), token : Token \cup {None, Torn}, overlap : BOOLEAN]
  BY <1>0 DEF UiTypes, Moving, Drawing
<1>2. ASSUME Ok(ui'), impl' = impl
      PROVE  UiTypes'
  BY <1>2 DEF UiTypes, Moving, Drawing
<1>3. CASE Main \/ MatchSteps \/ StoreSteps \/ Environment
  <2>1. ui' = ui /\ impl' = impl
    BY <1>3, MainKeeps, MatchKeeps, StoreKeeps, EnvironmentKeeps DEF StoreSteps
  <2> QED BY <1>1, <1>2, <2>1
<1>4. CASE ReadSteps
  <2>1. ui' = [ui EXCEPT !.overlap = ~Idle(ui)] /\ impl' = impl
    BY <1>4, ReadKeeps
  <2>2. ui' = [steps |-> ui.steps, token |-> ui.token, overlap |-> ~Idle(ui)]
    BY <1>1, <2>1
  <2>3. Ok(ui')
    BY <1>1, <2>2
  <2> QED BY <1>2, <2>1, <2>3
<1>5. CASE UiSteps
  <2>1. impl' = impl
    BY <1>5, UiKeeps
  <2>2. IdleUi = [steps |-> <<>>, token |-> None, overlap |-> FALSE] /\ Ok(IdleUi)
    BY <1>0 DEF IdleUi
  <2>3. Ok([ui EXCEPT !.steps = <<>>])
    BY <1>0
  <2>4. CASE Key
    <3>1. ui' = [steps |-> SendMove[impl], token |-> None, overlap |-> ~Idle(match)]
      BY <2>4 DEF Key
    <3>2. SendMove[impl] \in Seq(Step) /\ Rest(SendMove[impl], SendMove[impl])
      BY <1>0, Programs, MovePrograms, WholeAndEmpty
    <3>3. Ok(ui')
      BY <3>1, <3>2
    <3> QED BY <1>2, <2>1, <3>3
  <2>5. CASE BeginDraw
    <3>1. ui' = [steps |-> Draw[impl], token |-> None, overlap |-> FALSE] /\ impl # "java"
      BY <2>5 DEF BeginDraw
    <3>2. Draw[impl] \in Seq(Step) /\ Rest(Draw[impl], Draw[impl])
      BY <1>0, <3>1, Programs, DrawPrograms, WholeAndEmpty
    <3>3. Ok(ui')
      BY <3>1, <3>2
    <3> QED BY <1>2, <2>1, <3>3
  <2>6. ASSUME NEW step \in MoveSteps \cup DrawSteps, At(ui, step)
        PROVE  Past(ui) = After /\ Ok(After)
    <3>1. CASE Moving
      <4>1. Past(ui) = After /\ Tail(ui.steps) \in Seq(Step) /\ Rest(Tail(ui.steps), SendMove[impl])
        BY <1>0, <3>1, MovingAt
      <4> QED BY <1>1, <4>1 DEF After
    <3>2. CASE Drawing
      <4>1. Past(ui) = After /\ Tail(ui.steps) \in Seq(Step) /\ Rest(Tail(ui.steps), Draw[impl])
            /\ impl # "java"
        BY <1>0, <3>2, DrawingAt
      <4> QED BY <1>1, <4>1 DEF After
    <3> QED BY <1>0, <2>6, <3>1, <3>2, MovingOrDrawing
  <2>7. CASE MoveStep
    <3>1. \/ ui' = IdleUi
          \/ At(ui, "need_address") /\ ui' = Past(ui)
          \/ At(ui, "need_token") /\ ui' = Past(ui)
          \/ At(ui, "read_token") /\ ui' = [Past(ui) EXCEPT !.token = token]
      BY <2>7 DEF MoveStep
    <3>2. CASE ui' = IdleUi
      BY <1>2, <2>1, <2>2, <3>2
    <3>3. CASE ui' = Past(ui) /\ (At(ui, "need_address") \/ At(ui, "need_token"))
      <4>1. Ok(ui')
        BY <2>6, <3>3 DEF MoveSteps
      <4> QED BY <1>2, <2>1, <4>1
    <3>4. CASE At(ui, "read_token") /\ ui' = [Past(ui) EXCEPT !.token = token]
      <4>1. Past(ui) = After /\ Ok(After)
        BY <2>6, <3>4 DEF MoveSteps
      <4>2. Ok([After EXCEPT !.token = token])
        BY <1>0, <4>1
      <4>3. Ok(ui')
        BY <3>4, <4>1, <4>2
      <4> QED BY <1>2, <2>1, <4>3
    <3> QED BY <3>1, <3>2, <3>3, <3>4
  <2>8. CASE SendMovement
    <3>1. ui' = IdleUi
      BY <2>8 DEF SendMovement
    <3> QED BY <1>2, <2>1, <2>2, <3>1
  <2>9. CASE TestFresh \/ NoteProcessed \/ DrawPart
    <3>1. PICK step \in DrawSteps : At(ui, step) /\ (ui' = Past(ui) \/ ui' = [ui EXCEPT !.steps = <<>>])
      <4>1. CASE TestFresh
        BY <4>1 DEF TestFresh, DrawSteps
      <4>2. CASE NoteProcessed
        BY <4>2 DEF NoteProcessed, DrawSteps
      <4>3. CASE DrawPart
        <5>1. PICK part \in {"ball", "paddles"} :
                 /\ At(ui, IF part = "ball" THEN "draw_ball" ELSE "draw_paddles")
                 /\ ui' = Past(ui) \/ ui' = [ui EXCEPT !.steps = <<>>]
          BY <4>3 DEF DrawPart
        <5> QED BY <5>1 DEF DrawSteps
      <4> QED BY <2>9, <4>1, <4>2, <4>3
    <3>2. Ok(ui')
      BY <2>3, <2>6, <3>1
    <3> QED BY <1>2, <2>1, <3>2
  <2> QED BY <1>5, <2>4, <2>5, <2>7, <2>8, <2>9 DEF UiSteps, UiStep
<1> QED BY <1>3, <1>4, <1>5, StepOf

\* A thread that has taken a step.
LEMMA PastOf ==
  ASSUME NEW S, NEW G, NEW t \in [steps : S, got : G]
  PROVE  /\ Past(t) = [steps |-> Tail(t.steps), got |-> t.got]
         /\ [t EXCEPT !.steps = <<>>] = [steps |-> <<>>, got |-> t.got]
<1>1. \A x : [t EXCEPT !.steps = x] = [steps |-> x, got |-> t.got]
  OBVIOUS
<1>2. Past(t) = [t EXCEPT !.steps = Tail(t.steps)]
  BY DEF Past
<1> QED BY <1>1, <1>2

\* A listener within the store of a State.
LEMMA StoreAt ==
  ASSUME Types, NEW l \in 1 .. Len(listeners), NEW step, At(listeners[l], step)
  PROVE  /\ listeners[l].got \in State
         /\ Past(listeners[l]) = [steps |-> Tail(listeners[l].steps), got |-> listeners[l].got]
         /\ Past(listeners[l]) \in Listener
         /\ Len(listeners[l].steps) \in Nat /\ Len(listeners[l].steps) # 0
         /\ Len(Tail(listeners[l].steps)) = Len(listeners[l].steps) - 1
         /\ impl = "cpp" =>
              /\ step = "clear" => Len(listeners[l].steps) = 3
              /\ step = "ball" => Len(listeners[l].steps) = 2
              /\ step = "paddles" => Len(listeners[l].steps) = 1
              /\ step \in {"clear", "ball", "paddles"}
         /\ impl = "java" =>
              /\ step = "own" => Len(listeners[l].steps) = 3
              /\ step = "state" => Len(listeners[l].steps) = 2
              /\ step = "screen" => Len(listeners[l].steps) = 1
              /\ step \in {"own", "state", "screen"}
         /\ impl = "python" =>
              /\ step = "own" => Len(listeners[l].steps) = 4
              /\ step = "newer" => Len(listeners[l].steps) = 3
              /\ step = "last_frame" => Len(listeners[l].steps) = 2
              /\ step = "state" => Len(listeners[l].steps) = 1
              /\ step \in {"own", "newer", "last_frame", "state"}
<1> DEFINE t == listeners[l]
<1>1. impl \in {"cpp", "java", "python"} /\ t \in Listener
      /\ t.steps # <<>> /\ step = Head(t.steps)
      /\ (t.steps # <<>> => t.got \in State)
  BY ElementOfSeq DEF Types, StoreTypes, At
<1>2. Rest(t.steps, Store[impl]) /\ t \in [steps : Seq(Step), got : Part]
  BY <1>1 DEF Listener
<1> HIDE DEF t
<1>3. Past(t) = [steps |-> Tail(t.steps), got |-> t.got] /\ t.got \in State /\ t.got \in Part
  <2>1. t.got \in State /\ t.got \in Part
    BY <1>1, <1>2
  <2> QED BY <1>2, <2>1, PastOf
<1>4. Rest(Tail(t.steps), Store[impl])
  BY <1>1, <1>2, StoreTable
<1>5. Past(t) \in Listener
  <2>1. Tail(t.steps) \in Seq(Step)
    BY <1>4 DEF Rest
  <2>2. Past(t) \in [steps : Seq(Step), got : Part]
    BY <1>3, <2>1
  <2>3. Past(t).steps = Tail(t.steps)
    BY <1>3
  <2> QED BY <1>4, <2>2, <2>3 DEF Listener
<1>6. /\ Len(t.steps) \in Nat /\ Len(t.steps) # 0
      /\ Len(Tail(t.steps)) = Len(t.steps) - 1
      /\ impl = "cpp" =>
           /\ step = "clear" => Len(t.steps) = 3
           /\ step = "ball" => Len(t.steps) = 2
           /\ step = "paddles" => Len(t.steps) = 1
           /\ step \in {"clear", "ball", "paddles"}
      /\ impl = "java" =>
           /\ step = "own" => Len(t.steps) = 3
           /\ step = "state" => Len(t.steps) = 2
           /\ step = "screen" => Len(t.steps) = 1
           /\ step \in {"own", "state", "screen"}
      /\ impl = "python" =>
           /\ step = "own" => Len(t.steps) = 4
           /\ step = "newer" => Len(t.steps) = 3
           /\ step = "last_frame" => Len(t.steps) = 2
           /\ step = "state" => Len(t.steps) = 1
           /\ step \in {"own", "newer", "last_frame", "state"}
  BY <1>1, <1>2, StoreTable
<1> QED BY <1>3, <1>5, <1>6 DEF t

\* A step of listener l: what becomes of it, and what it stores.
LEMMA StoreOf ==
  ASSUME Types, NEW l \in 1 .. Len(listeners), ListenServer(l)
  PROVE  \/ \E d \in State :
              /\ Receive(l, d) /\ Idle(listeners[l]) /\ d.frame <= frames[d.token]
              /\ listeners' = [listeners EXCEPT ![l] = [steps |-> Store[impl], got |-> d]]
              /\ state' = state /\ last_frame' = last_frame /\ drawn' = drawn
              /\ reordered' = (reordered \/ (d.token = listeners[l].got.token /\ d.frame < listeners[l].got.frame))
         \/ /\ reordered' = reordered /\ listeners[l].got \in State /\ ~Idle(listeners[l])
            /\ \/ /\ listeners' = [listeners EXCEPT ![l] = [steps |-> <<>>, got |-> listeners[l].got]]
                  /\ state' = state /\ last_frame' = last_frame /\ drawn' = drawn
                  /\ At(listeners[l], "own") \/ At(listeners[l], "newer")
               \/ /\ listeners' = [listeners EXCEPT ![l] = Past(listeners[l])]
                  /\ \/ /\ At(listeners[l], "own") /\ listeners[l].got.token = token
                        /\ state' = state /\ last_frame' = last_frame /\ drawn' = drawn
                     \/ /\ At(listeners[l], "newer") /\ listeners[l].got.frame >= last_frame
                        /\ state' = state /\ last_frame' = last_frame /\ drawn' = drawn
                     \/ /\ StoreState(l) /\ last_frame' = last_frame /\ drawn' = drawn
                     \/ /\ At(listeners[l], "last_frame") /\ last_frame' = listeners[l].got.frame
                        /\ state' = state /\ drawn' = drawn
                     \/ /\ At(listeners[l], "screen") /\ state' = state /\ last_frame' = last_frame
                        /\ drawn' = state
<1> DEFINE t == listeners[l]
<1>0. l \in DOMAIN listeners /\ t \in [steps : Seq(Step), got : Part]
  <2>1. listeners \in Seq(Listener)
    BY DEF Types, StoreTypes
  <2> QED BY <2>1, ElementOfSeq, LenProperties DEF Listener
<1>1. ASSUME NEW d \in State, Receive(l, d)
      PROVE  /\ Idle(listeners[l]) /\ d.frame <= frames[d.token]
             /\ listeners' = [listeners EXCEPT ![l] = [steps |-> Store[impl], got |-> d]]
             /\ state' = state /\ last_frame' = last_frame /\ drawn' = drawn
             /\ reordered' = (reordered \/ (d.token = listeners[l].got.token /\ d.frame < listeners[l].got.frame))
  <2>1. frames[d.token] \in Nat /\ d.frame \in 1 .. frames[d.token]
    BY <1>1 DEF Receive, Types, StoreTypes, State
  <2> QED BY <1>1, <2>1 DEF Receive, drawVars
<1>2. ASSUME NEW step, At(t, step)
      PROVE  t.got \in State /\ ~Idle(t)
  BY <1>2, StoreAt DEF At, Idle
<1>3. ASSUME NEW step \in {"own", "newer"}, At(t, step),
             listeners' = [listeners EXCEPT ![l] = IF Accepts(l, step) THEN Past(@)
                                             ELSE [@ EXCEPT !.steps = <<>>]]
      PROVE  IF Accepts(l, step) THEN listeners' = [listeners EXCEPT ![l] = Past(t)]
             ELSE listeners' = [listeners EXCEPT ![l] = [steps |-> <<>>, got |-> t.got]]
  <2>1. [t EXCEPT !.steps = <<>>] = [steps |-> <<>>, got |-> t.got]
    BY <1>0, PastOf
  <2>2. listeners' = [listeners EXCEPT ![l] = IF Accepts(l, step) THEN Past(t) ELSE [t EXCEPT !.steps = <<>>]]
    BY <1>0, <1>3
  <2> QED BY <2>1, <2>2
<1>4. CASE Test(l)
  <2>1. PICK step \in {"own", "newer"} :
          /\ At(t, step)
          /\ listeners' = [listeners EXCEPT ![l] = IF Accepts(l, step) THEN Past(@) ELSE [@ EXCEPT !.steps = <<>>]]
          /\ UNCHANGED <<state, last_frame, fields, coordinatorVars, match, serverVars,
                         drawVars, processVars, joins, ui>>
    BY <1>4 DEF Test
  <2>2. state' = state /\ last_frame' = last_frame /\ drawn' = drawn /\ reordered' = reordered
    BY <2>1 DEF drawVars, serverVars
  <2>3. CASE ~Accepts(l, step)
    BY <1>2, <1>3, <2>1, <2>2, <2>3
  <2>4. CASE Accepts(l, step)
    <3>1. listeners' = [listeners EXCEPT ![l] = Past(t)]
      BY <1>3, <2>1, <2>4
    <3>2. step = "own" => t.got.token = token
      BY <2>4 DEF Accepts
    <3>3. step # "own" => t.got.frame >= last_frame
      BY <2>4 DEF Accepts
    <3> QED BY <1>2, <2>1, <2>2, <3>1, <3>2, <3>3
  <2> QED BY <2>3, <2>4
<1>5. CASE StoreState(l)
  <2>1. \E step : At(t, step)
    BY <1>5 DEF StoreState
  <2>2. listeners' = [listeners EXCEPT ![l] = Past(t)]
    BY <1>0, <1>5 DEF StoreState
  <2>3. last_frame' = last_frame /\ drawn' = drawn /\ reordered' = reordered
    BY <1>5 DEF StoreState, drawVars, serverVars
  <2> QED BY <1>2, <1>5, <2>1, <2>2, <2>3
<1>6. CASE StoreFrame(l)
  <2>1. At(t, "last_frame") /\ last_frame' = t.got.frame
    BY <1>6 DEF StoreFrame
  <2>2. listeners' = [listeners EXCEPT ![l] = Past(t)]
    BY <1>0, <1>6 DEF StoreFrame
  <2>3. state' = state /\ drawn' = drawn /\ reordered' = reordered
    BY <1>6 DEF StoreFrame, drawVars, serverVars
  <2> QED BY <1>2, <2>1, <2>2, <2>3
<1>7. CASE UpdateScreen(l)
  <2>1. At(t, "screen") /\ drawn' = state
    BY <1>7 DEF UpdateScreen
  <2>2. listeners' = [listeners EXCEPT ![l] = Past(t)]
    BY <1>0, <1>7 DEF UpdateScreen
  <2>3. state' = state /\ last_frame' = last_frame /\ reordered' = reordered
    BY <1>7 DEF UpdateScreen, serverVars
  <2> QED BY <1>2, <2>1, <2>2, <2>3
<1> QED BY <1>1, <1>4, <1>5, <1>6, <1>7 DEF ListenServer, StoreStep

\* What a listener is after its step, and that the others are as they were.
LEMMA ListenerAfter ==
  ASSUME Types, NEW l \in 1 .. Len(listeners), NEW x \in Listener,
         listeners' = [listeners EXCEPT ![l] = x]
  PROVE  /\ Len(listeners') = Len(listeners) /\ Len(listeners) \in Nat
         /\ listeners' \in Seq(Listener)
         /\ listeners'[l] = x
         /\ \A k \in 1 .. Len(listeners) : k # l => listeners'[k] = listeners[k]
<1>1. listeners \in Seq(Listener)
  BY DEF Types, StoreTypes
<1> QED BY <1>1, ExceptSeq, LenProperties

\* What a listener is after its step has the type of a listener.
LEMMA ListenerTyped ==
  ASSUME Types, NEW l \in 1 .. Len(listeners), ListenServer(l)
  PROVE  \E x \in Listener : /\ listeners' = [listeners EXCEPT ![l] = x]
                             /\ x.steps # <<>> => x.got \in State
<1>0. /\ impl \in {"cpp", "java", "python"} /\ listeners[l] \in Listener
      /\ listeners[l] \in [steps : Seq(Step), got : Part]
      /\ Part = State \cup {NoState}
  BY ElementOfSeq DEF Types, StoreTypes, Listener, Part
<1>1. Store[impl] \in Seq(Step) /\ Rest(Store[impl], Store[impl]) /\ Rest(<<>>, Store[impl]) /\ <<>> \in Seq(Step)
  BY <1>0, Programs, StorePrograms, WholeAndEmpty, EmptySeq
<1>2. CASE \E d \in State : listeners' = [listeners EXCEPT ![l] = [steps |-> Store[impl], got |-> d]]
  <2>1. PICK d \in State : listeners' = [listeners EXCEPT ![l] = [steps |-> Store[impl], got |-> d]]
    BY <1>2
  <2>2. [steps |-> Store[impl], got |-> d] \in Listener
    BY <1>0, <1>1 DEF Listener
  <2> QED BY <2>1, <2>2
<1>3. CASE listeners' = [listeners EXCEPT ![l] = [steps |-> <<>>, got |-> listeners[l].got]]
  <2>1. [steps |-> <<>>, got |-> listeners[l].got] \in Listener
    BY <1>0, <1>1 DEF Listener
  <2> QED BY <1>3, <2>1
<1>4. CASE /\ listeners' = [listeners EXCEPT ![l] = Past(listeners[l])]
           /\ \E step : At(listeners[l], step)
  <2>1. /\ Past(listeners[l]) \in Listener /\ listeners[l].got \in State
        /\ Past(listeners[l]) = [steps |-> Tail(listeners[l].steps), got |-> listeners[l].got]
    BY <1>4, StoreAt
  <2>2. Past(listeners[l]).got \in State
    BY <2>1
  <2> QED BY <1>4, <2>1, <2>2
<1>5. StoreState(l) => \E step : At(listeners[l], step)
  BY DEF StoreState
<1> QED BY <1>2, <1>3, <1>4, <1>5, StoreOf

\* The types of what the listeners, the servers and the window's thread store.
LEMMA StoreTypesStep ==
  ASSUME Types, Next
  PROVE  StoreTypes'
<1>0. /\ Types /\ StoreTypes /\ impl' = impl
      /\ listeners \in Seq(Listener) /\ frames \in [Token -> Nat]
      /\ \A l \in 1 .. Len(listeners) : listeners[l].steps # <<>> => listeners[l].got \in State
      /\ state \in [ball : Part, paddles : Part] /\ drawn \in [ball : Part, paddles : Part]
      /\ last_frame \in Nat /\ last_processed \in Nat
  BY MainKeeps, ReadKeeps, MatchKeeps, StoreKeeps, UiKeeps, EnvironmentKeeps, StepOf DEF Types, StoreTypes, StoreSteps
<1> DEFINE Threads(ls) == /\ ls \in Seq(Listener)
                          /\ \A l \in 1 .. Len(ls) : ls[l].steps # <<>> => ls[l].got \in State
           Stores(s) == s \in [ball : Part, paddles : Part]
<1>1. Threads(listeners) /\ Stores(state) /\ Stores(drawn)
  BY <1>0
<1>2. ASSUME Threads(listeners'), Stores(state'), Stores(drawn'), frames' \in [Token -> Nat],
             last_frame' \in Nat, last_processed' \in Nat
      PROVE  StoreTypes'
  <2>1. Listener' = Listener
    BY <1>0 DEF Listener
  <2> QED BY <1>2, <2>1 DEF StoreTypes
<1>3. CASE Main \/ ReadSteps
  BY <1>0, <1>1, <1>2, <1>3, MainKeeps, ReadKeeps
<1>4. CASE Environment
  <2>1. frames' = frames \/ \E t \in Token : frames' = [frames EXCEPT ![t] = @ + 1]
    BY <1>4, EnvironmentKeeps
  <2>2. ASSUME NEW t \in Token
        PROVE  [frames EXCEPT ![t] = @ + 1] \in [Token -> Nat]
    BY <1>0
  <2>3. frames' \in [Token -> Nat]
    BY <1>0, <2>1, <2>2
  <2> QED BY <1>0, <1>1, <1>2, <1>4, <2>3, EnvironmentKeeps
<1>5. CASE MatchSteps
  <2>1. Threads(listeners')
    <3>1. CASE listeners' = listeners
      BY <1>1, <3>1
    <3>2. CASE listeners' = Append(listeners, [steps |-> <<>>, got |-> NoState])
      <4>1. [steps |-> <<>>, got |-> NoState] \in Listener
        <5>1. Rest(<<>>, Store[impl]) /\ <<>> \in Seq(Step)
          BY Programs, StorePrograms, WholeAndEmpty, EmptySeq DEF Types
        <5> QED BY <5>1, TokenFacts DEF Listener
      <4>2. /\ listeners' \in Seq(Listener) /\ Len(listeners') = Len(listeners) + 1
            /\ \A l \in 1 .. Len(listeners) : listeners'[l] = listeners[l]
            /\ listeners'[Len(listeners) + 1] = [steps |-> <<>>, got |-> NoState]
            /\ Len(listeners) \in Nat
        BY <1>0, <3>2, <4>1, LenProperties
      <4>3. ASSUME NEW l \in 1 .. Len(listeners'), listeners'[l].steps # <<>>
            PROVE  listeners'[l].got \in State
        <5>1. CASE l \in 1 .. Len(listeners)
          BY <1>0, <4>2, <4>3, <5>1
        <5>2. CASE l = Len(listeners) + 1
          BY <4>2, <4>3, <5>2
        <5> QED BY <4>2, <5>1, <5>2
      <4> QED BY <4>2, <4>3
    <3> QED BY <1>5, <3>1, <3>2, MatchKeeps
  <2> QED BY <1>0, <1>1, <1>2, <1>5, <2>1, MatchKeeps
<1>6. CASE UiSteps
  <2>1. Stores(drawn') /\ last_processed' \in Nat
    <3>1. CASE drawn' = drawn /\ last_processed' \in {last_processed, last_frame}
      BY <1>0, <3>1
    <3>2. CASE DrawPart
      <4>1. last_processed' = last_processed
        BY <3>2 DEF DrawPart
      <4>2. PICK part \in {"ball", "paddles"} : drawn' = drawn \/ drawn' = [drawn EXCEPT ![part] = state[part]]
        BY <3>2 DEF DrawPart
      <4>3. Stores(drawn')
        BY <1>0, <4>2
      <4> QED BY <1>0, <4>1, <4>3
    <3>3. CASE Key \/ BeginDraw \/ MoveStep \/ SendMovement \/ TestFresh \/ NoteProcessed
      BY <3>1, <3>3 DEF Key, BeginDraw, MoveStep, SendMovement, TestFresh, NoteProcessed, drawVars
    <3> QED BY <1>6, <3>2, <3>3 DEF UiSteps, UiStep
  <2> QED BY <1>0, <1>1, <1>2, <1>6, <2>1, UiKeeps
<1>7. ASSUME NEW l \in 1 .. Len(listeners), ListenServer(l)
      PROVE  StoreTypes'
  <2>1. PICK x \in Listener : /\ listeners' = [listeners EXCEPT ![l] = x]
                              /\ x.steps # <<>> => x.got \in State
    BY <1>0, <1>7, ListenerTyped
  <2>2. Threads(listeners')
    BY <1>0, <2>1, ListenerAfter
  <2>3. frames' = frames /\ last_processed' = last_processed
    BY <1>7, StoreKeeps
  <2>4. listeners[l].got \in Part /\ Part = State \cup {NoState}
    BY <1>0, ElementOfSeq DEF Listener, Part
  <2>5. \A d \in State : d.frame \in Nat
    BY TokenFacts
  <2>6. StoreState(l) => Stores(state')
    BY <1>0, <2>4, TokenFacts DEF StoreState
  <2>7. Stores([ball |-> listeners[l].got, paddles |-> listeners[l].got])
    BY <2>4
  <2>8. Stores(state') /\ Stores(drawn') /\ last_frame' \in Nat
    <3>1. listeners[l].got \in State => listeners[l].got.frame \in Nat
      BY <2>5
    <3> HIDE DEF Stores
    <3> QED BY <1>0, <1>1, <1>7, <2>6, <2>7, <3>1, StoreOf
  <2> QED BY <1>0, <1>2, <2>2, <2>3, <2>8
<1> QED BY <1>3, <1>4, <1>5, <1>6, <1>7, StepOf DEF StoreSteps

-----------------------------------------------------------------------------
(* The Match: what handle_match has written with so many steps left, and   *)
(* what send_move has read.                                                *)

\* The steps handle_match has left once it has written the token, the
\* address, and sent the Join; and those of send_move once it has read.
TokenLeft == [cpp |-> 4, java |-> 3, python |-> 2]
AddressLeft == [cpp |-> 2, java |-> 2, python |-> 3]
JoinLeft == [cpp |-> 1, java |-> 0, python |-> 0]
ReadLeft == [cpp |-> 1, java |-> 1, python |-> 2]

Joined ==
  \/ [token |-> match.token, to |-> match.token] \in joins
  \/ impl = "cpp" /\ match.token \in unsought

Written ==
  /\ match.token = None => token = None /\ address = None
  /\ match.token # None =>
       /\ Len(match.steps) <= TokenLeft[impl] => token = match.token
       /\ Len(match.steps) <= AddressLeft[impl] => address = match.token
       /\ Len(match.steps) <= JoinLeft[impl] => Joined

\* A C++ client without a socket has not searched.
Unsocketed == window = "connected" => impl = "cpp" /\ offered \subseteq unsought

\* The order in which the two fields are first written.
FirstWritten ==
  /\ impl = "java" /\ address # None => token # None
  /\ impl = "python" /\ token # None => address # None

Read ==
  Moving =>
    /\ ~ui.overlap =>
         /\ match.steps = <<>>
         /\ Len(ui.steps) <= ReadLeft[impl] => ui.token = token
    /\ impl = "java" =>
         /\ Len(ui.steps) <= 2 => address # None
         /\ Len(ui.steps) <= 1 => ui.token # None
    /\ impl = "python" =>
         /\ Len(ui.steps) <= 3 => token # None
         /\ Len(ui.steps) <= 2 => ui.token # None

MatchInv == Types /\ Written /\ Unsocketed /\ FirstWritten /\ Read

\* How many steps are left, by implementation.
LEMMA LeftFacts ==
  /\ TokenLeft["cpp"] = 4 /\ TokenLeft["java"] = 3 /\ TokenLeft["python"] = 2
  /\ AddressLeft["cpp"] = 2 /\ AddressLeft["java"] = 2 /\ AddressLeft["python"] = 3
  /\ JoinLeft["cpp"] = 1 /\ JoinLeft["java"] = 0 /\ JoinLeft["python"] = 0
  /\ ReadLeft["cpp"] = 1 /\ ReadLeft["java"] = 1 /\ ReadLeft["python"] = 2
BY DEF TokenLeft, AddressLeft, JoinLeft, ReadLeft

\* The step that writes the token, and so on, by what is left.
LEMMA LeftOf ==
  ASSUME Types, NEW step, MatchStep(step)
  PROVE  LET n == Len(match.steps) IN
         /\ n \in Nat /\ n # 0 /\ Len(match'.steps) = n - 1 /\ match'.token = match.token
         /\ match'.token # None /\ match.token \in Token /\ match.token \in offered /\ ~Idle(match)
         /\ step = "token" => n = TokenLeft[impl] + 1
         /\ step = "tear_token" => n > TokenLeft[impl] + 1
         /\ step = "address" => n = AddressLeft[impl] + 1
         /\ step = "tear_address" => n > AddressLeft[impl] + 1 /\ n # TokenLeft[impl] + 1
         /\ step = "join" => /\ n = JoinLeft[impl] + 1 /\ n <= TokenLeft[impl] /\ n <= AddressLeft[impl]
         /\ step # "token" => n # TokenLeft[impl] + 1
         /\ step # "address" => n # AddressLeft[impl] + 1
         /\ step # "join" => n # JoinLeft[impl] + 1
<1> DEFINE n == Len(match.steps)
           Facts == /\ step = "token" => n = TokenLeft[impl] + 1
                    /\ step = "tear_token" => n > TokenLeft[impl] + 1
                    /\ step = "address" => n = AddressLeft[impl] + 1
                    /\ step = "tear_address" => n > AddressLeft[impl] + 1 /\ n # TokenLeft[impl] + 1
                    /\ step = "join" => /\ n = JoinLeft[impl] + 1 /\ n <= TokenLeft[impl] /\ n <= AddressLeft[impl]
                    /\ step # "token" => n # TokenLeft[impl] + 1
                    /\ step # "address" => n # AddressLeft[impl] + 1
                    /\ step # "join" => n # JoinLeft[impl] + 1
<1>1. /\ n \in Nat /\ n # 0 /\ Len(match'.steps) = n - 1 /\ match'.token = match.token
      /\ match'.token # None /\ match.token \in Token /\ match.token \in offered /\ ~Idle(match)
  <2>1. /\ match' = [steps |-> Tail(match.steps), token |-> match.token]
        /\ Len(Tail(match.steps)) = n - 1 /\ n \in Nat /\ n # 0 /\ match.token # None
        /\ match.token \in Token /\ match.token \in offered /\ ~Idle(match)
    BY MatchAt
  <2>2. match'.steps = Tail(match.steps) /\ match'.token = match.token
    BY <2>1
  <2> QED BY <2>1, <2>2
<1>2. ASSUME impl = "cpp"
      PROVE  Facts
  <2>1. \/ step = "tear_token" /\ n = 6
        \/ step = "token" /\ n = 5
        \/ step = "tear_address" /\ n = 4
        \/ step = "address" /\ n = 3
        \/ step = "join" /\ n = 2
        \/ step = "listen" /\ n = 1
    <3>1. /\ step = Head(match.steps) /\ match.steps # <<>> /\ Rest(match.steps, HandleMatch[impl])
      BY DEF Types, MatchTypes, MatchStep, At
    <3>2. step \in {"tear_token", "token", "tear_address", "address", "join", "listen"}
      BY <1>2, <3>1, MatchTable
    <3> QED BY <1>2, <3>2, MatchAt
  <2>2. TokenLeft[impl] = 4 /\ AddressLeft[impl] = 2 /\ JoinLeft[impl] = 1
    BY <1>2, LeftFacts
  <2> HIDE DEF n
  <2>3. CASE step = "tear_token" /\ n = 6
    <3>1. n = 6
      BY <2>3
    <3>2. n # TokenLeft[impl] + 1 /\ n # AddressLeft[impl] + 1 /\ n # JoinLeft[impl] + 1
          /\ n > TokenLeft[impl] + 1
      BY <2>2, <3>1
    <3>3. step # "token" /\ step # "address" /\ step # "join" /\ step # "tear_address"
      BY <2>3, Zenon
    <3> QED BY <2>3, <3>2, <3>3, Zenon
  <2>4. CASE step = "token" /\ n = 5
    BY <2>2, <2>4
  <2>5. CASE step = "tear_address" /\ n = 4
    <3>1. n = 4
      BY <2>5
    <3>2. n # TokenLeft[impl] + 1 /\ n # AddressLeft[impl] + 1 /\ n # JoinLeft[impl] + 1
          /\ n > AddressLeft[impl] + 1 /\ n # TokenLeft[impl] + 1
      BY <2>2, <3>1
    <3>3. step # "token" /\ step # "address" /\ step # "join" /\ step # "tear_token"
      BY <2>5, Zenon
    <3> QED BY <2>5, <3>2, <3>3, Zenon
  <2>6. CASE step = "address" /\ n = 3
    BY <2>2, <2>6
  <2>7. CASE step = "join" /\ n = 2
    BY <2>2, <2>7
  <2>8. CASE step = "listen" /\ n = 1
    BY <2>2, <2>8
  <2> HIDE DEF Facts
  <2> QED BY <2>1, <2>3, <2>4, <2>5, <2>6, <2>7, <2>8
<1>3. ASSUME impl = "java"
      PROVE  Facts
  <2>1. \/ step = "token" /\ n = 4
        \/ step = "address" /\ n = 3
        \/ step = "listen" /\ n = 2
        \/ step = "join" /\ n = 1
    BY <1>3, MatchAt
  <2>2. TokenLeft[impl] = 3 /\ AddressLeft[impl] = 2 /\ JoinLeft[impl] = 0
    BY <1>3, LeftFacts
  <2> HIDE DEF n
  <2>3. CASE step = "token" /\ n = 4
    BY <2>2, <2>3
  <2>4. CASE step = "address" /\ n = 3
    BY <2>2, <2>4
  <2>5. CASE step = "listen" /\ n = 2
    BY <2>2, <2>5
  <2>6. CASE step = "join" /\ n = 1
    BY <2>2, <2>6
  <2> HIDE DEF Facts
  <2> QED BY <2>1, <2>3, <2>4, <2>5, <2>6
<1>4. ASSUME impl = "python"
      PROVE  Facts
  <2>1. \/ step = "address" /\ n = 4
        \/ step = "token" /\ n = 3
        \/ step = "listen" /\ n = 2
        \/ step = "join" /\ n = 1
    BY <1>4, MatchAt
  <2>2. TokenLeft[impl] = 2 /\ AddressLeft[impl] = 3 /\ JoinLeft[impl] = 0
    BY <1>4, LeftFacts
  <2> HIDE DEF n
  <2>3. CASE step = "address" /\ n = 4
    BY <2>2, <2>3
  <2>4. CASE step = "token" /\ n = 3
    BY <2>2, <2>4
  <2>5. CASE step = "listen" /\ n = 2
    BY <2>2, <2>5
  <2>6. CASE step = "join" /\ n = 1
    BY <2>2, <2>6
  <2> HIDE DEF Facts
  <2> QED BY <2>1, <2>3, <2>4, <2>5, <2>6
<1>5. Facts
  BY <1>2, <1>3, <1>4 DEF Types
<1> QED BY <1>1, <1>5

\* When handle_match has ended, both fields are those of its Match.
LEMMA IdleFields ==
  ASSUME Types, Written, match.steps = <<>>
  PROVE  token = match.token /\ address = match.token /\ (match.token # None => Joined)
<1>1. Len(match.steps) = 0 /\ impl \in {"cpp", "java", "python"}
  BY EmptySeq DEF Types
<1>2. 0 <= TokenLeft[impl] /\ 0 <= AddressLeft[impl] /\ 0 <= JoinLeft[impl]
  BY <1>1, LeftFacts
<1> QED BY <1>1, <1>2 DEF Written

\* What the steps of handle_match write.
LEMMA MatchWrites ==
  ASSUME Types, MatchSteps
  PROVE  \E step :
           /\ MatchStep(step)
           /\ \/ step = "token" /\ token' = match.token
              \/ step = "tear_token" /\ token' = Torn
              \/ step \notin {"token", "tear_token"} /\ token' = token
           /\ \/ step = "address" /\ address' = match.token
              \/ step = "tear_address" /\ address' = Torn
              \/ step \notin {"address", "tear_address"} /\ address' = address
           /\ step = "join" =>
                joins' = IF window = "connected" THEN joins ELSE joins \cup {[token |-> token, to |-> address]}
           /\ step # "join" => joins' = joins
           /\ step = "listen" => listeners' = Append(listeners, [steps |-> <<>>, got |-> NoState])
           /\ step # "listen" => listeners' = listeners
<1>1. CASE WriteToken
  <2>1. address' = address /\ joins' = joins /\ listeners' = listeners
    BY <1>1 DEF WriteToken, storeVars
  <2>2. \/ MatchStep("tear_token") /\ token' = Torn
        \/ MatchStep("token") /\ token' = match.token
    BY <1>1 DEF WriteToken
  <2> QED BY <2>1, <2>2
<1>2. CASE WriteAddress
  <2>1. token' = token /\ joins' = joins /\ listeners' = listeners
    BY <1>2 DEF WriteAddress, storeVars
  <2>2. \/ MatchStep("tear_address") /\ address' = Torn
        \/ MatchStep("address") /\ address' = match.token
    BY <1>2 DEF WriteAddress
  <2> QED BY <2>1, <2>2
<1>3. CASE SendJoin
  <2>1. token' = token /\ address' = address /\ listeners' = listeners
    BY <1>3 DEF SendJoin, storeVars, fields
  <2>2. MatchStep("join") /\ joins' = IF window = "connected" THEN joins ELSE joins \cup {[token |-> token, to |-> address]}
    BY <1>3 DEF SendJoin
  <2> QED BY <2>1, <2>2
<1>4. CASE StartListener
  <2>1. token' = token /\ address' = address /\ joins' = joins
    BY <1>4 DEF StartListener, fields
  <2>2. MatchStep("listen") /\ listeners' = Append(listeners, [steps |-> <<>>, got |-> NoState])
    BY <1>4 DEF StartListener
  <2> QED BY <2>1, <2>2
<1> QED BY <1>1, <1>2, <1>3, <1>4 DEF MatchSteps

\* Written is kept.
LEMMA WrittenStep ==
  ASSUME MatchInv, Next
  PROVE  Written'
<1>0. Types /\ Written /\ Unsocketed /\ impl' = impl /\ impl \in {"cpp", "java", "python"}
  BY MainKeeps, ReadKeeps, MatchKeeps, StoreKeeps, UiKeeps, EnvironmentKeeps, StepOf DEF MatchInv, Types, StoreSteps
<1>1. CASE Main \/ StoreSteps \/ UiSteps
  <2>1. match' = match /\ token' = token /\ address' = address /\ joins' = joins /\ unsought' = unsought
    BY <1>1, MainKeeps, UiKeeps, StoreKeeps DEF StoreSteps
  <2> QED BY <1>0, <2>1 DEF Written, Joined
<1>2. CASE Environment
  <2>1. match' = match /\ token' = token /\ address' = address /\ joins' = joins
    BY <1>2, EnvironmentKeeps
  <2>2. unsought \subseteq unsought'
    BY <1>2, EnvironmentKeeps DEF OfferMatch
  <2> QED BY <1>0, <2>1, <2>2 DEF Written, Joined
<1>3. CASE ReadSteps
  <2>1. PICK n \in 1 .. Len(stream) : match' = [steps |-> HandleMatch[impl], token |-> stream[n]]
    BY <1>3, ReadKeeps
  <2>2. match'.steps = HandleMatch[impl] /\ match'.token = stream[n]
    BY <2>1
  <2>3. stream[n] # None
    BY <1>0, ElementOfSeq, TokenFacts DEF Types, MatchTypes
  <2>4. /\ Len(HandleMatch[impl]) > TokenLeft[impl] /\ Len(HandleMatch[impl]) > AddressLeft[impl]
        /\ Len(HandleMatch[impl]) > JoinLeft[impl]
        /\ Len(HandleMatch[impl]) \in Nat /\ TokenLeft[impl] \in Nat /\ AddressLeft[impl] \in Nat
        /\ JoinLeft[impl] \in Nat
    <3>1. CASE impl = "cpp"
      <4>1. Len(HandleMatch[impl]) = 6 /\ TokenLeft[impl] = 4 /\ AddressLeft[impl] = 2 /\ JoinLeft[impl] = 1
        BY <3>1, Programs, MatchPrograms, LeftFacts
      <4> QED BY <4>1
    <3>2. CASE impl = "java"
      <4>1. Len(HandleMatch[impl]) = 4 /\ TokenLeft[impl] = 3 /\ AddressLeft[impl] = 2 /\ JoinLeft[impl] = 0
        BY <3>2, Programs, MatchPrograms, LeftFacts
      <4> QED BY <4>1
    <3>3. CASE impl = "python"
      <4>1. Len(HandleMatch[impl]) = 4 /\ TokenLeft[impl] = 2 /\ AddressLeft[impl] = 3 /\ JoinLeft[impl] = 0
        BY <3>3, Programs, MatchPrograms, LeftFacts
      <4> QED BY <4>1
    <3> QED BY <1>0, <3>1, <3>2, <3>3
  <2> QED BY <1>0, <2>2, <2>3, <2>4 DEF Written
<1>4. CASE MatchSteps
  <2>1. PICK step :
           /\ MatchStep(step)
           /\ \/ step = "token" /\ token' = match.token
              \/ step = "tear_token" /\ token' = Torn
              \/ step \notin {"token", "tear_token"} /\ token' = token
           /\ \/ step = "address" /\ address' = match.token
              \/ step = "tear_address" /\ address' = Torn
              \/ step \notin {"address", "tear_address"} /\ address' = address
           /\ step = "join" =>
                joins' = IF window = "connected" THEN joins ELSE joins \cup {[token |-> token, to |-> address]}
           /\ step # "join" => joins' = joins
    BY <1>0, <1>4, MatchWrites
  <2> DEFINE n == Len(match.steps)
             a == TokenLeft[impl]
             b == AddressLeft[impl]
             c == JoinLeft[impl]
  <2>2. a \in Nat /\ b \in Nat /\ c \in Nat
    BY <1>0, LeftFacts
  <2>3. /\ n \in Nat /\ n # 0 /\ Len(match'.steps) = n - 1 /\ match'.token = match.token
        /\ match'.token # None /\ match.token \in Token /\ match.token \in offered
        /\ step = "token" => n = a + 1
        /\ step = "tear_token" => n > a + 1
        /\ step = "address" => n = b + 1
        /\ step = "tear_address" => n > b + 1 /\ n # a + 1
        /\ step = "join" => n = c + 1 /\ n <= a /\ n <= b
        /\ step # "token" => n # a + 1
        /\ step # "address" => n # b + 1
        /\ step # "join" => n # c + 1
    BY <1>0, <2>1, LeftOf
  <2>4. /\ n <= a => token = match.token
        /\ n <= b => address = match.token
        /\ n <= c => Joined
    BY <1>0, <2>3 DEF Written
  <2>5. unsought' = unsought
    BY <1>4, MatchKeeps
  <2> HIDE DEF n, a, b, c
  <2>6. n - 1 <= a => token' = match.token
    BY <2>1, <2>2, <2>3, <2>4
  <2>7. n - 1 <= b => address' = match.token
    BY <2>1, <2>2, <2>3, <2>4
  <2>8. n - 1 <= c => Joined'
    <3>1. CASE step = "join"
      <4>1. token = match.token /\ address = match.token
        BY <2>3, <2>4, <3>1
      <4>2. CASE window = "connected"
        BY <1>0, <2>3, <2>5, <3>1, <4>2 DEF Unsocketed, Joined
      <4>3. CASE window # "connected"
        <5>1. [token |-> match.token, to |-> match.token] \in joins'
          BY <2>1, <3>1, <4>1, <4>3
        <5> QED BY <2>3, <5>1 DEF Joined
      <4> QED BY <4>2, <4>3
    <3>2. CASE step # "join"
      <4>1. joins' = joins
        BY <2>1, <3>2
      <4>2. n - 1 <= c => Joined
        BY <2>2, <2>3, <2>4, <3>2
      <4> QED BY <1>0, <2>3, <2>5, <4>1, <4>2 DEF Joined
    <3> QED BY <3>1, <3>2
  <2> QED BY <1>0, <2>3, <2>6, <2>7, <2>8 DEF Written, a, b, c
<1> QED BY <1>1, <1>2, <1>3, <1>4, StepOf

\* Unsocketed is kept.
LEMMA UnsocketedStep ==
  ASSUME MatchInv, Next
  PROVE  Unsocketed'
<1>0. Types /\ Unsocketed
  BY DEF MatchInv
<1>1. CASE Main
  BY <1>0, <1>1, MainKeeps DEF Unsocketed
<1>2. CASE ReadSteps \/ MatchSteps \/ StoreSteps \/ UiSteps
  <2>1. impl' = impl /\ window' = window /\ offered' = offered /\ unsought' = unsought
    BY <1>2, ReadKeeps, MatchKeeps, StoreKeeps, UiKeeps DEF StoreSteps
  <2> QED BY <1>0, <2>1 DEF Unsocketed
<1>3. CASE Environment
  <2>1. impl' = impl /\ window' = window
    BY <1>3, EnvironmentKeeps
  <2>2. CASE offered' = offered /\ unsought' = unsought
    BY <1>0, <2>1, <2>2 DEF Unsocketed
  <2>3. ASSUME NEW t \in Token, OfferMatch(t)
        PROVE  Unsocketed'
    BY <1>0, <2>1, <2>3 DEF Unsocketed, OfferMatch
  <2> QED BY <1>3, <2>2, <2>3, EnvironmentKeeps
<1> QED BY <1>1, <1>2, <1>3, StepOf

\* A field that has been written stays written.
LEMMA StaysWritten ==
  ASSUME MatchInv, Next
  PROVE  (token # None => token' # None) /\ (address # None => address' # None)
<1>1. CASE MatchSteps
  <2>1. Types
    BY DEF MatchInv
  <2>2. \E step : MatchStep(step) /\ token' \in {match.token, Torn, token} /\ address' \in {match.token, Torn, address}
    BY <1>1, <2>1, MatchWrites
  <2>3. match.token # None
    BY <2>1, <2>2, MatchAt
  <2> QED BY <2>2, <2>3, TokenFacts
<1>2. CASE Main \/ ReadSteps \/ StoreSteps \/ UiSteps \/ Environment
  <2>1. token' = token /\ address' = address
    BY <1>2, MainKeeps, ReadKeeps, StoreKeeps, UiKeeps, EnvironmentKeeps DEF StoreSteps
  <2> QED BY <2>1
<1> QED BY <1>1, <1>2, StepOf

\* FirstWritten is kept.
LEMMA FirstWrittenStep ==
  ASSUME MatchInv, Next
  PROVE  FirstWritten'
<1>0. Types /\ Written /\ FirstWritten
  BY DEF MatchInv
<1>1. CASE MatchSteps
  <2>0. impl' = impl
    BY <1>1, MatchKeeps
  <2>1. PICK step :
           /\ MatchStep(step)
           /\ \/ step = "token" /\ token' = match.token
              \/ step = "tear_token" /\ token' = Torn
              \/ step \notin {"token", "tear_token"} /\ token' = token
           /\ \/ step = "address" /\ address' = match.token
              \/ step = "tear_address" /\ address' = Torn
              \/ step \notin {"address", "tear_address"} /\ address' = address
    BY <1>0, <1>1, MatchWrites
  <2>2. /\ match.token # None
        /\ impl = "java" => /\ step = "address" => Len(match.steps) = 3
                            /\ step \in {"token", "address", "listen", "join"}
        /\ impl = "python" => /\ step = "token" => Len(match.steps) = 3
                              /\ step \in {"address", "token", "listen", "join"}
    BY <1>0, <2>1, MatchAt
  <2>3. CASE impl = "java"
    <3>1. CASE step = "address"
      <4>1. token = match.token
        <5>1. Len(match.steps) = 3 /\ TokenLeft[impl] = 3
          BY <2>2, <2>3, <3>1, LeftFacts
        <5>2. Len(match.steps) <= TokenLeft[impl]
          BY <5>1
        <5> QED BY <1>0, <2>2, <5>2 DEF Written
      <4> QED BY <2>0, <2>1, <2>2, <2>3, <3>1, <4>1, StaysWritten DEF FirstWritten
    <3>2. CASE step # "address"
      <4>1. address' = address
        BY <2>1, <2>2, <2>3, <3>2
      <4> QED BY <1>0, <2>0, <2>3, <4>1, StaysWritten DEF FirstWritten
    <3> QED BY <3>1, <3>2
  <2>4. CASE impl = "python"
    <3>1. CASE step = "token"
      <4>1. address = match.token
        <5>1. Len(match.steps) = 3 /\ AddressLeft[impl] = 3
          BY <2>2, <2>4, <3>1, LeftFacts
        <5>2. Len(match.steps) <= AddressLeft[impl]
          BY <5>1
        <5> QED BY <1>0, <2>2, <5>2 DEF Written
      <4> QED BY <2>0, <2>1, <2>2, <2>4, <3>1, <4>1, StaysWritten DEF FirstWritten
    <3>2. CASE step # "token"
      <4>1. token' = token
        BY <2>1, <2>2, <2>4, <3>2
      <4> QED BY <1>0, <2>0, <2>4, <4>1, StaysWritten DEF FirstWritten
    <3> QED BY <3>1, <3>2
  <2> QED BY <2>0, <2>3, <2>4 DEF FirstWritten
<1>2. CASE Main \/ ReadSteps \/ StoreSteps \/ UiSteps \/ Environment
  <2>1. token' = token /\ address' = address /\ impl' = impl
    BY <1>2, MainKeeps, ReadKeeps, StoreKeeps, UiKeeps, EnvironmentKeeps DEF StoreSteps
  <2> QED BY <1>0, <2>1 DEF FirstWritten
<1> QED BY <1>1, <1>2, StepOf

\* No rest of send_move is a rest of the drawing.
LEMMA NotBoth ==
  ASSUME NEW i \in {"cpp", "python"}, NEW steps, steps # <<>>,
         Rest(steps, SendMove[i]), Rest(steps, Draw[i])
  PROVE  FALSE
<1> DEFINE step == Head(steps)
<1>1. CASE i = "cpp"
  BY <1>1, MoveTable, DrawTable
<1>2. CASE i = "python"
  BY <1>2, MoveTable, DrawTable
<1> QED BY <1>1, <1>2

\* Read is kept.
LEMMA ReadStep ==
  ASSUME MatchInv, Next
  PROVE  Read'
<1>0. /\ Types /\ Written /\ FirstWritten /\ Read /\ impl' = impl /\ impl \in {"cpp", "java", "python"}
      /\ ui \in [steps : Seq(Step), token : Token \cup {None, Torn}, overlap : BOOLEAN]
  BY MainKeeps, ReadKeeps, MatchKeeps, StoreKeeps, UiKeeps, EnvironmentKeeps, StepOf DEF MatchInv, Types, UiTypes, StoreSteps
<1>1. CASE Main \/ StoreSteps \/ Environment
  <2>1. ui' = ui /\ match' = match /\ token' = token /\ address' = address
    BY <1>1, MainKeeps, StoreKeeps, EnvironmentKeeps DEF StoreSteps
  <2> QED BY <1>0, <2>1 DEF Read, Moving
<1>2. CASE ReadSteps
  <2>1. token' = token /\ address' = address /\ ui' = [ui EXCEPT !.overlap = ~Idle(ui)]
    BY <1>2, ReadKeeps
  <2>2. ui'.steps = ui.steps /\ ui'.token = ui.token /\ ui'.overlap = ~Idle(ui)
    BY <1>0, <2>1
  <2>3. Moving' => Moving /\ ui'.overlap
    BY <1>0, <2>2 DEF Moving, Idle
  <2> QED BY <1>0, <2>1, <2>2, <2>3 DEF Read
<1>3. CASE MatchSteps
  <2>1. ui' = ui /\ (Moving' => Moving)
    BY <1>0, <1>3, MatchKeeps DEF Moving
  <2>2. match.steps # <<>>
    <3>1. \E step : MatchStep(step)
      BY <1>3, MatchKeeps
    <3> QED BY <3>1 DEF MatchStep, At
  <2>3. (token # None => token' # None) /\ (address # None => address' # None)
    BY StaysWritten
  <2> QED BY <1>0, <2>1, <2>2, <2>3 DEF Read
<1>4. CASE UiSteps
  <2>0. match' = match /\ token' = token /\ address' = address
    BY <1>4, UiKeeps
  <2>1. CASE Key
    <3>1. ui' = [steps |-> SendMove[impl], token |-> None, overlap |-> ~Idle(match)]
      BY <2>1 DEF Key
    <3>2. ui'.steps = SendMove[impl] /\ ui'.overlap = ~Idle(match)
      BY <3>1
    <3>3. CASE impl = "cpp"
      <4>1. Len(SendMove[impl]) = 2 /\ ReadLeft[impl] = 1
        BY <3>3, Programs, MovePrograms, LeftFacts
      <4>2. Len(ui'.steps) = 2
        BY <3>2, <4>1
      <4>3. ~(Len(ui'.steps) <= ReadLeft[impl])
        BY <4>1, <4>2
      <4>4. ~ui'.overlap => match'.steps = <<>>
        BY <2>0, <3>2 DEF Idle
      <4> QED BY <1>0, <3>3, <4>3, <4>4 DEF Read
    <3>4. CASE impl = "java"
      <4>1. Len(SendMove[impl]) = 3 /\ ReadLeft[impl] = 1
        BY <3>4, Programs, MovePrograms, LeftFacts
      <4>2. Len(ui'.steps) = 3
        BY <3>2, <4>1
      <4>3. ~(Len(ui'.steps) <= ReadLeft[impl]) /\ ~(Len(ui'.steps) <= 2) /\ ~(Len(ui'.steps) <= 1)
        BY <4>1, <4>2
      <4>4. ~ui'.overlap => match'.steps = <<>>
        BY <2>0, <3>2 DEF Idle
      <4> QED BY <1>0, <3>4, <4>3, <4>4 DEF Read
    <3>5. CASE impl = "python"
      <4>1. Len(SendMove[impl]) = 4 /\ ReadLeft[impl] = 2
        BY <3>5, Programs, MovePrograms, LeftFacts
      <4>2. Len(ui'.steps) = 4
        BY <3>2, <4>1
      <4>3. ~(Len(ui'.steps) <= ReadLeft[impl]) /\ ~(Len(ui'.steps) <= 3) /\ ~(Len(ui'.steps) <= 2)
        BY <4>1, <4>2
      <4>4. ~ui'.overlap => match'.steps = <<>>
        BY <2>0, <3>2 DEF Idle
      <4> QED BY <1>0, <3>5, <4>3, <4>4 DEF Read
    <3> QED BY <1>0, <3>3, <3>4, <3>5
  <2>2. CASE ui'.steps = <<>>
    BY <2>2 DEF Read, Moving
  <2>3. CASE impl # "java" /\ Rest(ui'.steps, Draw[impl])
    <3>1. ASSUME Moving' PROVE FALSE
      BY <1>0, <2>3, <3>1, NotBoth DEF Moving
    <3> QED BY <3>1 DEF Read
  <2>4. CASE MoveStep /\ ui' # IdleUi
    <3>1. PICK step \in {"need_address", "need_token", "read_token"} :
            /\ At(ui, step)
            /\ step = "need_address" => address # None /\ ui' = Past(ui)
            /\ step = "need_token" => token # None /\ ui' = Past(ui)
            /\ step = "read_token" => ui' = [Past(ui) EXCEPT !.token = token]
      BY <2>4 DEF MoveStep
    <3>2. Moving /\ step = Head(ui.steps)
      BY <1>0, <3>1, MovingOrDrawing DEF MoveSteps
    <3>3. Past(ui) = After /\ Len(ui.steps) \in Nat /\ Len(Tail(ui.steps)) = Len(ui.steps) - 1
      BY <1>0, <3>2, MovingAt
    <3>4. /\ ui'.steps = Tail(ui.steps) /\ ui'.overlap = ui.overlap
          /\ ui'.token = IF step = "read_token" THEN token ELSE ui.token
      <4>1. CASE step = "read_token"
        <5>1. ui' = [After EXCEPT !.token = token]
          BY <3>1, <3>3, <4>1
        <5>2. ui' = [steps |-> Tail(ui.steps), token |-> token, overlap |-> ui.overlap]
          BY <5>1 DEF After
        <5> QED BY <4>1, <5>2
      <4>2. CASE step # "read_token"
        <5>1. ui' = [steps |-> Tail(ui.steps), token |-> ui.token, overlap |-> ui.overlap]
          BY <3>1, <3>3, <4>2 DEF After
        <5> QED BY <4>2, <5>1
      <4> QED BY <4>1, <4>2
    <3>5. /\ ~ui.overlap => match.steps = <<>>
          /\ ~ui.overlap => (Len(ui.steps) <= ReadLeft[impl] => ui.token = token)
      BY <1>0, <3>2 DEF Read
    <3> DEFINE n == Len(ui.steps)
    <3>6. n \in Nat /\ Len(ui'.steps) = n - 1
      BY <3>3, <3>4
    <3>7. CASE impl = "cpp"
      <4>1. step = "read_token" /\ ReadLeft[impl] = 1
        BY <1>0, <3>1, <3>2, <3>7, MovingAt, LeftFacts
      <4> QED BY <2>0, <3>4, <3>5, <3>7, <4>1, <1>0 DEF Read
    <3>8. CASE impl = "java"
      <4>1. /\ step = "need_address" => n = 3
            /\ step = "read_token" => n = 2
            /\ step \in {"need_address", "read_token"} /\ ReadLeft[impl] = 1
        BY <1>0, <3>1, <3>2, <3>8, MovingAt, LeftFacts
      <4>2. n = 2 => address # None
        BY <1>0, <3>2, <3>8 DEF Read
      <4>3. address # None => token # None
        BY <1>0, <3>8 DEF FirstWritten
      <4> HIDE DEF n
      <4>4. CASE step = "need_address"
        <5>1. n = 3 /\ address # None
          BY <3>1, <4>1, <4>4
        <5>2. Len(ui'.steps) = 2
          BY <3>6, <5>1
        <5>3. ~(Len(ui'.steps) <= ReadLeft[impl]) /\ ~(Len(ui'.steps) <= 1)
          BY <4>1, <5>2
        <5>4. ~ui'.overlap => match'.steps = <<>>
          BY <2>0, <3>4, <3>5
        <5> QED BY <1>0, <2>0, <3>8, <5>1, <5>3, <5>4 DEF Read
      <4>5. CASE step = "read_token"
        <5>1. n = 2 /\ address # None /\ token # None
          BY <4>1, <4>2, <4>3, <4>5
        <5>2. Len(ui'.steps) = 1 /\ ui'.token = token
          BY <3>4, <3>6, <4>5, <5>1
        <5> QED BY <1>0, <2>0, <3>4, <3>5, <3>8, <4>1, <5>1, <5>2 DEF Read
      <4> QED BY <4>1, <4>4, <4>5
    <3>9. CASE impl = "python"
      <4>1. /\ step = "need_token" => n = 4
            /\ step = "read_token" => n = 3
            /\ step = "need_address" => n = 2
            /\ ReadLeft[impl] = 2
        BY <1>0, <3>1, <3>2, <3>9, MovingAt, LeftFacts
      <4>2. (n <= 3 => token # None) /\ (n <= 2 => ui.token # None)
        BY <1>0, <3>2, <3>9 DEF Read
      <4> HIDE DEF n
      <4>4. CASE step = "need_token"
        <5>1. n = 4 /\ token # None
          BY <3>1, <4>1, <4>4
        <5>2. Len(ui'.steps) = 3
          BY <3>6, <5>1
        <5>3. ~(Len(ui'.steps) <= ReadLeft[impl]) /\ ~(Len(ui'.steps) <= 2)
          BY <4>1, <5>2
        <5>4. ~ui'.overlap => match'.steps = <<>>
          BY <2>0, <3>4, <3>5
        <5> QED BY <1>0, <2>0, <3>9, <5>1, <5>3, <5>4 DEF Read
      <4>5. CASE step = "read_token"
        <5>1. n = 3 /\ token # None
          BY <4>1, <4>2, <4>5
        <5>2. Len(ui'.steps) = 2 /\ ui'.token = token
          BY <3>4, <3>6, <4>5, <5>1
        <5> QED BY <1>0, <2>0, <3>4, <3>5, <3>9, <4>1, <5>1, <5>2 DEF Read
      <4>6. CASE step = "need_address"
        <5>1. n = 2 /\ token # None /\ ui.token # None
          BY <4>1, <4>2, <4>6
        <5>2. Len(ui'.steps) = 1 /\ ui'.token = ui.token
          BY <3>4, <3>6, <4>6, <5>1
        <5>3. ~ui.overlap => ui.token = token
          BY <3>5, <4>1, <5>1 DEF n
        <5> QED BY <1>0, <2>0, <3>4, <3>5, <3>9, <4>1, <5>1, <5>2, <5>3 DEF Read
      <4> QED BY <3>1, <4>4, <4>5, <4>6
    <3> QED BY <1>0, <3>7, <3>8, <3>9
  <2>5. CASE (MoveStep /\ ui' = IdleUi) \/ SendMovement
    <3>1. ui'.steps = <<>>
      BY <2>5 DEF SendMovement, IdleUi
    <3> QED BY <2>2, <3>1
  <2>6. CASE BeginDraw
    <3>1. ui' = [steps |-> Draw[impl], token |-> None, overlap |-> FALSE] /\ impl # "java"
      BY <2>6 DEF BeginDraw
    <3>2. Rest(ui'.steps, Draw[impl])
      BY <1>0, <3>1, Programs, DrawPrograms, WholeAndEmpty
    <3> QED BY <2>3, <3>1, <3>2
  <2>7. CASE TestFresh \/ NoteProcessed \/ DrawPart
    <3>1. PICK step \in DrawSteps : At(ui, step) /\ (ui' = Past(ui) \/ ui' = [ui EXCEPT !.steps = <<>>])
      <4>1. CASE TestFresh
        BY <4>1 DEF TestFresh, DrawSteps
      <4>2. CASE NoteProcessed
        BY <4>2 DEF NoteProcessed, DrawSteps
      <4>3. CASE DrawPart
        <5>1. PICK part \in {"ball", "paddles"} :
                 /\ At(ui, IF part = "ball" THEN "draw_ball" ELSE "draw_paddles")
                 /\ ui' = Past(ui) \/ ui' = [ui EXCEPT !.steps = <<>>]
          BY <4>3 DEF DrawPart
        <5> QED BY <5>1 DEF DrawSteps
      <4> QED BY <2>7, <4>1, <4>2, <4>3
    <3>2. CASE ui' = [ui EXCEPT !.steps = <<>>]
      BY <1>0, <2>2, <3>2
    <3>3. CASE ui' = Past(ui)
      <4>1. Drawing /\ step = Head(ui.steps)
        BY <1>0, <3>1, MovingOrDrawing
      <4>2. Past(ui) = After /\ Rest(Tail(ui.steps), Draw[impl]) /\ impl # "java"
        BY <1>0, <4>1, DrawingAt DEF Drawing
      <4>3. ui'.steps = Tail(ui.steps)
        BY <3>3, <4>2 DEF After
      <4> QED BY <2>3, <4>2, <4>3
    <3> QED BY <3>1, <3>2, <3>3
  <2> QED BY <1>4, <2>1, <2>4, <2>5, <2>6, <2>7 DEF UiSteps, UiStep
<1> QED BY <1>1, <1>2, <1>3, <1>4, StepOf

\* MatchInv holds at first.
LEMMA MatchInvInit ==
  ASSUME Init
  PROVE  MatchInv
<1>1. /\ impl \in {"cpp", "java", "python"} /\ offered = {} /\ unsought = {} /\ stream = <<>>
      /\ match = [steps |-> <<>>, token |-> None] /\ token = None /\ address = None
      /\ listeners = <<>> /\ frames = [t \in Token |-> 0]
      /\ state = [ball |-> NoState, paddles |-> NoState]
      /\ last_frame = 0 /\ last_processed = 0 /\ ui = IdleUi
      /\ drawn = [ball |-> NoState, paddles |-> NoState]
      /\ window = "connected" => impl = "cpp"
  BY ClientAssumption DEF Init
<1>2. Rest(<<>>, HandleMatch[impl]) /\ <<>> \in Seq(Step) /\ <<>> \in Seq(offered) /\ <<>> \in Seq(Listener)
      /\ Len(<<>>) = 0
  BY <1>1, Programs, MatchPrograms, WholeAndEmpty, EmptySeq
<1>3. MatchTypes
  <2>1. match.steps = <<>> /\ match.token = None
    BY <1>1
  <2>2. match \in [steps : Seq(Step), token : offered \cup {None}]
    BY <1>1, <1>2
  <2> QED BY <1>1, <1>2, <2>1, <2>2 DEF MatchTypes
<1>4. ui.steps = <<>> /\ UiTypes
  BY <1>1, <1>2 DEF UiTypes, IdleUi
<1>5. StoreTypes
  <2>1. state \in [ball : Part, paddles : Part] /\ drawn \in [ball : Part, paddles : Part]
    BY <1>1, TokenFacts
  <2>2. frames \in [Token -> Nat]
    BY <1>1
  <2>3. \A l \in 1 .. Len(listeners) : listeners[l].steps # <<>> => listeners[l].got \in State
    BY <1>1, <1>2
  <2> QED BY <1>1, <1>2, <2>1, <2>2, <2>3 DEF StoreTypes
<1>6. Written /\ Unsocketed /\ FirstWritten /\ Read
  <2>1. match.token = None
    BY <1>1
  <2> QED BY <1>1, <1>4, <2>1 DEF Written, Unsocketed, FirstWritten, Read, Moving
<1> QED BY <1>1, <1>3, <1>4, <1>5, <1>6 DEF MatchInv, Types

\* Nothing changes in a stutter.
LEMMA MatchInvStutter ==
  ASSUME MatchInv, UNCHANGED vars
  PROVE  MatchInv'
<1>1. /\ impl' = impl /\ window' = window /\ token' = token /\ address' = address
      /\ offered' = offered /\ unsought' = unsought /\ stream' = stream /\ match' = match
      /\ frames' = frames /\ listeners' = listeners /\ state' = state
      /\ last_frame' = last_frame /\ last_processed' = last_processed
      /\ drawn' = drawn /\ joins' = joins /\ ui' = ui
  BY DEF vars, fields, coordinatorVars, serverVars, storeVars, drawVars, processVars
<1>2. MatchTypes' /\ UiTypes'
  BY <1>1 DEF MatchInv, Types, MatchTypes, UiTypes, Moving, Drawing
<1>3. StoreTypes'
  BY <1>1 DEF MatchInv, Types, StoreTypes, Listener
<1>4. Written' /\ Unsocketed' /\ FirstWritten' /\ Read'
  BY <1>1 DEF MatchInv, Written, Joined, Unsocketed, FirstWritten, Read, Moving
<1> QED BY <1>1, <1>2, <1>3, <1>4 DEF MatchInv, Types

\* A step keeps MatchInv.
LEMMA MatchInvStep ==
  ASSUME MatchInv, Next
  PROVE  MatchInv'
<1>1. Types /\ impl' = impl
  BY MainKeeps, ReadKeeps, MatchKeeps, StoreKeeps, UiKeeps, EnvironmentKeeps, StepOf DEF MatchInv, StoreSteps
<1>2. Types'
  BY <1>1, MatchTypesStep, UiTypesStep, StoreTypesStep DEF Types
<1> QED BY <1>2, WrittenStep, UnsocketedStep, FirstWrittenStep, ReadStep DEF MatchInv

\* MatchInv is an invariant.
LEMMA MatchInvariant == Spec => []MatchInv
BY MatchInvInit, MatchInvStep, MatchInvStutter, PTL DEF Spec

-----------------------------------------------------------------------------
(* Where Movements and Joins go. *)

\* MisaddressedOnlyByOverlap: a Movement sent while no Match is handled goes
\* to the server that gave out its token.
THEOREM MovementsReachTheirServer == Spec => []MisaddressedOnlyByOverlap
<1>1. MatchInv => MisaddressedOnlyByOverlap
  <2> SUFFICES ASSUME MatchInv, At(ui, "movement"), ~ui.overlap
               PROVE  Movement.to = Movement.token
    BY DEF MisaddressedOnlyByOverlap
  <2>1. Types /\ Written /\ Read
    BY DEF MatchInv
  <2>2. Moving /\ "movement" = Head(ui.steps)
    BY <2>1, MovingOrDrawing DEF MoveSteps
  <2>3. Len(ui.steps) = 1 /\ 1 <= ReadLeft[impl]
    BY <2>1, <2>2, MovingAt, LeftFacts DEF Types
  <2>4. match.steps = <<>> /\ ui.token = token
    BY <2>1, <2>2, <2>3 DEF Read
  <2>5. address = token
    BY <2>1, <2>4, IdleFields
  <2> QED BY <2>4, <2>5 DEF Movement
<1> QED BY <1>1, MatchInvariant, PTL

\* NeverTokenless: the Java and the Python client send no Movement without a
\* token, and none to nobody.
THEOREM MovementsHaveTokens == Spec => []NeverTokenless
<1>1. MatchInv => NeverTokenless
  <2> SUFFICES ASSUME MatchInv, At(ui, "movement"), impl # "cpp"
               PROVE  Movement.token # None /\ Movement.to # None
    BY DEF NeverTokenless
  <2>1. Types /\ FirstWritten /\ Read
    BY DEF MatchInv
  <2>2. Moving /\ "movement" = Head(ui.steps)
    BY <2>1, MovingOrDrawing DEF MoveSteps
  <2>3. Len(ui.steps) = 1 /\ impl \in {"java", "python"}
    BY <2>1, <2>2, MovingAt DEF Types
  <2>4. ui.token # None /\ address # None
    BY <2>1, <2>2, <2>3 DEF Read, FirstWritten
  <2> QED BY <2>4 DEF Movement
<1> QED BY <1>1, MatchInvariant, PTL

\* MatchIsJoined: a Match that has been handled is joined at its server, but
\* for one that a C++ client was sent before it searched.
THEOREM MatchesAreJoined == Spec => []MatchIsJoined
<1>1. MatchInv => MatchIsJoined
  BY IdleFields DEF MatchInv, MatchIsJoined, Idle, Joined
<1> QED BY <1>1, MatchInvariant, PTL

-----------------------------------------------------------------------------
(* Games: the States there are were sent by a server that was joined.      *)

OfJoined(d, js) == d = NoState \/ [token |-> d.token, to |-> d.token] \in js

Games ==
  /\ IsFiniteSet(joins)
  /\ \A t \in Token : frames[t] # 0 => [token |-> t, to |-> t] \in joins
  /\ \A l \in 1 .. Len(listeners) : OfJoined(listeners[l].got, joins)
  /\ OfJoined(state.ball, joins)

\* One listener and one game, at most.
One == Len(listeners) <= 1 /\ \A a, b \in joins : a = b

\* OneGame says so by the number of Joins.
LEMMA OneGameIsOne ==
  ASSUME Games, OneGame
  PROVE  One
<1>1. IsFiniteSet(joins) /\ Cardinality(joins) \in Nat /\ Cardinality(joins) <= 1
  BY FS_CardinalityType DEF Games, OneGame
<1>2. ASSUME NEW a \in joins, NEW b \in joins, a # b
      PROVE  FALSE
  <2>1. {a, b} \subseteq joins /\ IsFiniteSet({a, b})
    BY <1>1, FS_Subset
  <2>2. Cardinality({a, b}) = 2
    <3>1. IsFiniteSet({a}) /\ Cardinality({a}) = 1
      BY FS_Singleton
    <3>2. {a, b} = {a} \cup {b} /\ b \notin {a}
      BY <1>2
    <3> QED BY <3>1, <3>2, FS_AddElement
  <2>3. Cardinality({a, b}) <= Cardinality(joins)
    BY <1>1, <2>1, FS_Subset
  <2> QED BY <1>1, <2>2, <2>3
<1> QED BY <1>2 DEF One, OneGame

\* Listeners and Joins only become more.
LEMMA OneBefore ==
  ASSUME Types, Next
  PROVE  joins \subseteq joins' /\ (One' => One)
<1>0. listeners \in Seq(Listener) /\ Len(listeners) \in Nat
  BY LenProperties DEF Types, StoreTypes
<1>1. joins \subseteq joins'
  BY MainKeeps, ReadKeeps, MatchKeeps, StoreKeeps, UiKeeps, EnvironmentKeeps, StepOf DEF StoreSteps
<1>2. Len(listeners') >= Len(listeners)
  <2>1. CASE listeners' = listeners
    BY <1>0, <2>1
  <2>2. CASE listeners' = Append(listeners, [steps |-> <<>>, got |-> NoState])
    <3>1. Len(listeners') = Len(listeners) + 1
      BY <1>0, <2>2
    <3> QED BY <1>0, <3>1
  <2>3. CASE StoreSteps
    <3>1. PICK l \in 1 .. Len(listeners) : ListenServer(l)
      BY <2>3 DEF StoreSteps
    <3>2. Len(listeners') = Len(listeners)
      BY <3>1, ListenerTyped, ListenerAfter
    <3> QED BY <1>0, <3>2
  <2> QED BY <2>1, <2>2, <2>3, MainKeeps, ReadKeeps, MatchKeeps, UiKeeps, EnvironmentKeeps, StepOf
<1>3. Len(listeners') \in Nat
  BY LenProperties, StoreTypesStep DEF StoreTypes
<1> QED BY <1>0, <1>1, <1>2, <1>3 DEF One

\* In one game a State is known by its frame.
LEMMA SameGame ==
  ASSUME One, NEW d \in State, NEW e \in Part, e # NoState, OfJoined(d, joins), OfJoined(e, joins)
  PROVE  d.token = e.token /\ (d.frame = e.frame => d = e)
<1>1. d # NoState /\ e \in State
  BY TokenFacts DEF Part
<1>2. [token |-> d.token, to |-> d.token] = [token |-> e.token, to |-> e.token]
  BY <1>1 DEF One, OfJoined
<1>3. [token |-> d.token, to |-> d.token].token = [token |-> e.token, to |-> e.token].token
  BY <1>2
<1> QED BY <1>1, <1>3 DEF State

\* Games is kept.
LEMMA GamesStep ==
  ASSUME Types, Games, Next
  PROVE  Games'
<1>0. /\ joins \subseteq joins' /\ listeners \in Seq(Listener) /\ frames \in [Token -> Nat]
      /\ Types /\ Games
  BY OneBefore DEF Types, StoreTypes
<1>1. IsFiniteSet(joins')
  <2>1. IsFiniteSet(joins)
    BY DEF Games
  <2>2. joins' = joins \/ joins' = joins \cup {[token |-> token, to |-> address]}
    BY MainKeeps, ReadKeeps, MatchKeeps, StoreKeeps, UiKeeps, EnvironmentKeeps, StepOf DEF StoreSteps
  <2> QED BY <2>1, <2>2, FS_AddElement
<1>2. ASSUME NEW t \in Token, frames'[t] # 0
      PROVE  [token |-> t, to |-> t] \in joins'
  <2>1. CASE frames' = frames
    BY <1>0, <1>2, <2>1 DEF Games
  <2>2. ASSUME NEW s \in Token, [token |-> s, to |-> s] \in joins, frames' = [frames EXCEPT ![s] = @ + 1]
        PROVE  [token |-> t, to |-> t] \in joins'
    <3>1. CASE t = s
      BY <1>0, <2>2, <3>1
    <3>2. CASE t # s
      <4>1. frames'[t] = frames[t]
        BY <1>0, <2>2, <3>2
      <4> QED BY <1>0, <1>2, <4>1 DEF Games
    <3> QED BY <3>1, <3>2
  <2> QED BY <2>1, <2>2, MainKeeps, ReadKeeps, MatchKeeps, StoreKeeps, UiKeeps, EnvironmentKeeps, StepOf DEF StoreSteps
<1>3. ASSUME NEW d, OfJoined(d, joins)
      PROVE  OfJoined(d, joins')
  BY <1>0, <1>3 DEF OfJoined
<1>4. (\A l \in 1 .. Len(listeners') : OfJoined(listeners'[l].got, joins')) /\ OfJoined(state'.ball, joins')
  <2>1. CASE listeners' = listeners /\ state' = state
    BY <1>0, <1>3, <2>1 DEF Games
  <2>2. CASE listeners' = Append(listeners, [steps |-> <<>>, got |-> NoState]) /\ state' = state
    <3>1. /\ Len(listeners') = Len(listeners) + 1 /\ Len(listeners) \in Nat
          /\ \A l \in 1 .. Len(listeners) : listeners'[l] = listeners[l]
          /\ listeners'[Len(listeners) + 1].got = NoState
      BY <1>0, <2>2, LenProperties
    <3>2. ASSUME NEW l \in 1 .. Len(listeners')
          PROVE  OfJoined(listeners'[l].got, joins')
      <4>1. CASE l \in 1 .. Len(listeners)
        <5>1. listeners'[l].got = listeners[l].got
          BY <3>1, <4>1
        <5> QED BY <1>0, <1>3, <4>1, <5>1 DEF Games
      <4>2. CASE l = Len(listeners) + 1
        BY <3>1, <4>2 DEF OfJoined
      <4> QED BY <3>1, <4>1, <4>2
    <3> QED BY <1>0, <1>3, <2>2, <3>2 DEF Games
  <2>3. ASSUME NEW l \in 1 .. Len(listeners), ListenServer(l)
        PROVE  (\A k \in 1 .. Len(listeners') : OfJoined(listeners'[k].got, joins')) /\ OfJoined(state'.ball, joins')
    <3>1. PICK x \in Listener : listeners' = [listeners EXCEPT ![l] = x]
      BY <1>0, <2>3, ListenerTyped
    <3>2. /\ Len(listeners') = Len(listeners) /\ listeners'[l] = x
          /\ \A k \in 1 .. Len(listeners) : k # l => listeners'[k] = listeners[k]
      BY <1>0, <3>1, ListenerAfter
    <3>3. OfJoined(listeners[l].got, joins)
      BY <1>0 DEF Games
    <3>4. OfJoined(x.got, joins')
      <4>1. ASSUME NEW d \in State, listeners' = [listeners EXCEPT ![l] = [steps |-> Store[impl], got |-> d]],
                   Receive(l, d)
            PROVE  OfJoined(x.got, joins')
        <5>1. x.got = d
          <6>1. listeners'[l] = [steps |-> Store[impl], got |-> d]
            BY <1>0, <4>1, LenProperties
          <6> QED BY <3>2, <6>1
        <5>2. d.token \in Token /\ frames[d.token] # 0
          BY <1>0, <4>1 DEF Receive, State
        <5> QED BY <1>0, <5>1, <5>2 DEF OfJoined, Games
      <4>2. CASE listeners' = [listeners EXCEPT ![l] = [steps |-> <<>>, got |-> listeners[l].got]]
        <5>1. listeners'[l] = [steps |-> <<>>, got |-> listeners[l].got]
          BY <1>0, <4>2, LenProperties
        <5>2. x.got = listeners[l].got
          BY <3>2, <5>1
        <5> QED BY <1>3, <3>3, <5>2
      <4>3. CASE listeners' = [listeners EXCEPT ![l] = Past(listeners[l])] /\ \E step : At(listeners[l], step)
        <5>1. listeners'[l] = [steps |-> Tail(listeners[l].steps), got |-> listeners[l].got]
          BY <1>0, <4>3, LenProperties, StoreAt
        <5>2. x.got = listeners[l].got
          BY <3>2, <5>1
        <5> QED BY <1>3, <3>3, <5>2
      <4>4. StoreState(l) => \E step : At(listeners[l], step)
        BY DEF StoreState
      <4> QED BY <1>0, <2>3, <4>1, <4>2, <4>3, <4>4, StoreOf
    <3>5. OfJoined(state'.ball, joins')
      <4>1. state \in [ball : Part, paddles : Part]
        BY <1>0 DEF Types, StoreTypes
      <4>2. CASE state' = state
        BY <1>0, <1>3, <4>2 DEF Games
      <4>3. CASE StoreState(l)
        <5>1. state'.ball \in {NoState, listeners[l].got, state.ball}
          BY <4>1, <4>3 DEF StoreState
        <5>2. OfJoined(NoState, joins) /\ OfJoined(state.ball, joins)
          BY <1>0 DEF Games, OfJoined
        <5> QED BY <1>3, <3>3, <5>1, <5>2
      <4> QED BY <1>0, <2>3, <4>2, <4>3, StoreOf
    <3>6. ASSUME NEW k \in 1 .. Len(listeners')
          PROVE  OfJoined(listeners'[k].got, joins')
      <4>1. CASE k = l
        BY <3>2, <3>4, <4>1
      <4>2. CASE k # l
        <5>1. listeners'[k] = listeners[k] /\ k \in 1 .. Len(listeners)
          BY <3>2, <4>2
        <5> QED BY <1>0, <1>3, <5>1 DEF Games
      <4> QED BY <4>1, <4>2
    <3> QED BY <3>5, <3>6
  <2> QED BY <2>1, <2>2, <2>3, MainKeeps, ReadKeeps, MatchKeeps, UiKeeps, EnvironmentKeeps, StepOf DEF StoreSteps
<1> QED BY <1>1, <1>2, <1>4 DEF Games, OfJoined

-----------------------------------------------------------------------------
(* The drawing. *)

SameDraw == drawn' = drawn /\ last_processed' = last_processed /\ raced' = raced /\ frozen' = frozen

\* What the window's thread does, by what its drawing has left.
LEMMA DrawOf ==
  ASSUME Types, UiSteps
  PROVE  \/ ~Drawing /\ ~Drawing' /\ SameDraw
         \/ ~Drawing /\ ~frozen /\ SameDraw /\ (impl = "python" => Len(ui'.steps) = 4)
            /\ (impl # "python" => Len(ui'.steps) = 2) /\ Drawing'
         \/ Drawing /\ impl = "python" /\ Len(ui.steps) = 4 /\ SameDraw /\ ~Drawing' /\ ~(last_frame > last_processed)
         \/ Drawing /\ impl = "python" /\ Len(ui.steps) = 4 /\ SameDraw /\ Len(ui'.steps) = 3
            /\ last_frame > last_processed
         \/ Drawing /\ impl = "python" /\ Len(ui.steps) = 3 /\ Len(ui'.steps) = 2 /\ Drawing'
            /\ last_processed' = last_frame /\ raced' = WithinStore /\ drawn' = drawn /\ frozen' = frozen
         \/ Drawing /\ impl = "python" /\ Len(ui.steps) \in {1, 2} /\ ~Drawing'
            /\ frozen' = TRUE /\ drawn' = drawn /\ last_processed' = last_processed /\ raced' = raced
            /\ (state.ball = NoState \/ state.paddles = NoState)
         \/ Drawing /\ Len(ui.steps) = 2 /\ Len(ui'.steps) = 1 /\ drawn' = [drawn EXCEPT !.ball = state.ball]
            /\ Drawing'
            /\ last_processed' = last_processed /\ raced' = raced /\ frozen' = frozen
            /\ (impl = "python" => state.ball # NoState)
         \/ Drawing /\ Len(ui.steps) = 1 /\ ~Drawing' /\ drawn' = [drawn EXCEPT !.paddles = state.paddles]
            /\ last_processed' = last_processed /\ raced' = raced /\ frozen' = frozen
            /\ (impl = "python" => state.paddles # NoState)
<1>0. /\ impl' = impl /\ impl \in {"cpp", "java", "python"} /\ Types
      /\ ui \in [steps : Seq(Step), token : Token \cup {None, Torn}, overlap : BOOLEAN]
  BY UiKeeps DEF Types, UiTypes
<1>1. ui'.steps = <<>> => ~Drawing'
  BY DEF Drawing
<1>2. CASE Key \/ MoveStep \/ SendMovement
  <2>1. ~Drawing
    <3>1. CASE Key
      BY <3>1 DEF Key, Idle, Drawing
    <3>2. CASE MoveStep \/ SendMovement
      <4>1. PICK step \in MoveSteps : At(ui, step)
        BY <3>2 DEF MoveStep, SendMovement, MoveSteps
      <4> QED BY <1>0, <4>1, MovingOrDrawing
    <3> QED BY <1>2, <3>1, <3>2
  <2>2. ui'.steps = <<>> \/ Rest(ui'.steps, SendMove[impl])
    <3>1. CASE Key
      <4>1. ui'.steps = SendMove[impl]
        BY <3>1 DEF Key
      <4> QED BY <1>0, <4>1, Programs, MovePrograms, WholeAndEmpty
    <3>2. CASE SendMovement
      BY <3>2 DEF SendMovement, IdleUi
    <3>3. CASE MoveStep
      <4>1. CASE ui' = IdleUi
        BY <4>1 DEF IdleUi
      <4>2. PICK step \in MoveSteps : At(ui, step) /\ (ui' = IdleUi \/ ui' = Past(ui) \/ ui' = [Past(ui) EXCEPT !.token = token])
        BY <3>3 DEF MoveStep, MoveSteps
      <4>3. Moving /\ step = Head(ui.steps)
        BY <1>0, <4>2, MovingOrDrawing
      <4>4. Past(ui) = After /\ Rest(Tail(ui.steps), SendMove[impl])
        BY <1>0, <4>3, MovingAt
      <4>5. After.steps = Tail(ui.steps) /\ [After EXCEPT !.token = token].steps = Tail(ui.steps)
        BY DEF After
      <4> QED BY <4>1, <4>2, <4>4, <4>5
    <3> QED BY <1>2, <3>1, <3>2, <3>3
  <2>3. ~Drawing'
    BY <1>0, <1>1, <2>2, NotBoth DEF Drawing
  <2>4. SameDraw
    BY <1>2 DEF Key, MoveStep, SendMovement, drawVars, SameDraw
  <2> QED BY <2>1, <2>3, <2>4
<1>3. CASE BeginDraw
  <2>1. ~Drawing /\ ~frozen /\ impl # "java" /\ ui'.steps = Draw[impl] /\ SameDraw
    BY <1>3 DEF BeginDraw, Idle, Drawing, SameDraw, drawVars
  <2>2. /\ impl = "python" => Len(Draw[impl]) = 4
        /\ impl # "python" => Len(Draw[impl]) = 2
        /\ Rest(Draw[impl], Draw[impl]) /\ Draw[impl] # <<>>
    <3>1. CASE impl = "python"
      <4>1. Draw[impl] \in Seq(Step) /\ Len(Draw[impl]) = 4
        BY <3>1, Programs, DrawPrograms
      <4> QED BY <3>1, <4>1, WholeAndEmpty, EmptySeq
    <3>2. CASE impl = "cpp"
      <4>1. Draw[impl] \in Seq(Step) /\ Len(Draw[impl]) = 2
        BY <3>2, Programs, DrawPrograms
      <4> QED BY <3>2, <4>1, WholeAndEmpty, EmptySeq
    <3> QED BY <1>0, <2>1, <3>1, <3>2
  <2>3. Drawing'
    BY <1>0, <2>1, <2>2 DEF Drawing
  <2> QED BY <2>1, <2>2, <2>3
<1>4. ASSUME NEW step \in DrawSteps, At(ui, step)
      PROVE  /\ Drawing /\ Past(ui).steps = Tail(ui.steps) /\ Len(Tail(ui.steps)) = Len(ui.steps) - 1
             /\ Rest(Tail(ui.steps), Draw[impl]) /\ impl \in {"cpp", "python"}
             /\ Len(ui.steps) = 1 => Tail(ui.steps) = <<>>
             /\ Len(Tail(ui.steps)) # 0 /\ ui'.steps = Tail(ui.steps) => Drawing'
             /\ step \in {"fresh", "processed"} => impl = "python"
             /\ step = "fresh" => Len(ui.steps) = 4
             /\ step = "processed" => Len(ui.steps) = 3
             /\ step = "draw_ball" => Len(ui.steps) = 2
             /\ step = "draw_paddles" => Len(ui.steps) = 1
  <2>1. Drawing /\ step = Head(ui.steps)
    BY <1>0, <1>4, MovingOrDrawing
  <2>2. /\ Past(ui) = After /\ Len(Tail(ui.steps)) = Len(ui.steps) - 1 /\ Tail(ui.steps) \in Seq(Step)
        /\ Rest(Tail(ui.steps), Draw[impl]) /\ impl \in {"cpp", "python"}
    BY <1>0, <2>1, DrawingAt
  <2>3. After.steps = Tail(ui.steps)
    BY DEF After
  <2>4. ASSUME Len(ui.steps) = 1
        PROVE  Tail(ui.steps) = <<>>
    <3>1. Len(Tail(ui.steps)) = 0
      BY <2>2, <2>4
    <3>2. \A seq \in Seq(Step) : seq # <<>> => Len(seq) \in Nat \ {0}
      BY EmptySeq
    <3> QED BY <2>2, <3>1, <3>2
  <2>5. /\ step \in {"fresh", "processed"} => impl = "python"
        /\ step = "fresh" => Len(ui.steps) = 4
        /\ step = "processed" => Len(ui.steps) = 3
        /\ step = "draw_ball" => Len(ui.steps) = 2
        /\ step = "draw_paddles" => Len(ui.steps) = 1
    <3>1. CASE impl = "cpp"
      BY <1>0, <2>1, <3>1, DrawingAt
    <3>2. CASE impl = "python"
      BY <1>0, <2>1, <3>2, DrawingAt
    <3> QED BY <2>2, <3>1, <3>2
  <2>6. Len(Tail(ui.steps)) # 0 /\ ui'.steps = Tail(ui.steps) => Drawing'
    <3>1. Len(<<>>) = 0
      BY EmptySeq
    <3>2. Len(Tail(ui.steps)) # 0 => Tail(ui.steps) # <<>>
      BY <3>1
    <3> QED BY <1>0, <2>2, <3>2 DEF Drawing
  <2> QED BY <2>1, <2>2, <2>3, <2>4, <2>5, <2>6
<1>5. CASE TestFresh
  <2>1. At(ui, "fresh") /\ SameDraw
        /\ ui' = IF last_frame > last_processed THEN Past(ui) ELSE [ui EXCEPT !.steps = <<>>]
    BY <1>5 DEF TestFresh, SameDraw, drawVars
  <2>2. /\ Drawing /\ impl = "python" /\ Len(ui.steps) = 4
        /\ Past(ui).steps = Tail(ui.steps) /\ Len(Tail(ui.steps)) = 3
    BY <1>4, <2>1 DEF DrawSteps
  <2>3. CASE last_frame > last_processed
    BY <2>1, <2>2, <2>3
  <2>4. CASE ~(last_frame > last_processed)
    <3>1. ui'.steps = <<>>
      BY <1>0, <2>1, <2>4
    <3> QED BY <1>1, <2>1, <2>2, <2>4, <3>1
  <2> QED BY <2>3, <2>4
<1>6. CASE NoteProcessed
  <2>1. At(ui, "processed") /\ last_processed' = last_frame /\ raced' = WithinStore /\ drawn' = drawn
        /\ frozen' = frozen /\ ui' = Past(ui)
    BY <1>6 DEF NoteProcessed
  <2>2. /\ Drawing /\ impl = "python" /\ Len(ui.steps) = 3
        /\ Past(ui).steps = Tail(ui.steps) /\ Len(Tail(ui.steps)) = 2
    BY <1>4, <2>1 DEF DrawSteps
  <2>3. Len(ui'.steps) = 2 /\ Drawing'
    <3>1. ui'.steps = Tail(ui.steps)
      BY <2>1, <2>2
    <3>2. Drawing'
      BY <1>4, <2>1, <2>2, <3>1 DEF DrawSteps
    <3> QED BY <2>2, <3>1, <3>2
  <2> QED BY <2>1, <2>2, <2>3
<1>7. CASE DrawPart
  <2>1. last_processed' = last_processed /\ raced' = raced
    BY <1>7 DEF DrawPart
  <2>2. PICK part \in {"ball", "paddles"} :
       /\ At(ui, IF part = "ball" THEN "draw_ball" ELSE "draw_paddles")
       /\ IF impl = "python" /\ state[part] = NoState
          THEN frozen' = TRUE /\ ui' = [ui EXCEPT !.steps = <<>>] /\ drawn' = drawn
          ELSE drawn' = [drawn EXCEPT ![part] = state[part]] /\ ui' = Past(ui) /\ frozen' = frozen
    BY <1>7 DEF DrawPart
  <2>3. CASE part = "ball"
    <3>1. /\ Drawing /\ Len(ui.steps) = 2
          /\ Past(ui).steps = Tail(ui.steps) /\ Len(Tail(ui.steps)) = 1
      BY <1>4, <2>2, <2>3 DEF DrawSteps
    <3>2. CASE impl = "python" /\ state.ball = NoState
      <4>1. ui'.steps = <<>>
        BY <1>0, <2>2, <2>3, <3>2
      <4> QED BY <1>1, <2>1, <2>2, <2>3, <3>1, <3>2, <4>1
    <3>3. CASE ~(impl = "python" /\ state.ball = NoState)
      <4>1. drawn' = [drawn EXCEPT !.ball = state.ball] /\ ui' = Past(ui) /\ frozen' = frozen
        BY <2>2, <2>3, <3>3
      <4>2. Len(ui'.steps) = 1 /\ Drawing'
        <5>1. ui'.steps = Tail(ui.steps)
          BY <3>1, <4>1
        <5>2. Drawing'
          BY <1>4, <2>2, <2>3, <3>1, <5>1 DEF DrawSteps
        <5> QED BY <3>1, <5>1, <5>2
      <4> QED BY <2>1, <3>1, <3>3, <4>1, <4>2
    <3> QED BY <3>2, <3>3
  <2>4. CASE part = "paddles"
    <3>1. /\ Drawing /\ Len(ui.steps) = 1
          /\ Past(ui).steps = Tail(ui.steps) /\ Tail(ui.steps) = <<>>
      BY <1>4, <2>2, <2>4 DEF DrawSteps
    <3>2. CASE impl = "python" /\ state.paddles = NoState
      <4>1. ui'.steps = <<>>
        BY <1>0, <2>2, <2>4, <3>2
      <4> QED BY <1>1, <2>1, <2>2, <2>4, <3>1, <3>2, <4>1
    <3>3. CASE ~(impl = "python" /\ state.paddles = NoState)
      <4>1. drawn' = [drawn EXCEPT !.paddles = state.paddles] /\ ui' = Past(ui) /\ frozen' = frozen
        BY <2>2, <2>4, <3>3
      <4>2. ui'.steps = <<>>
        BY <3>1, <4>1
      <4> QED BY <1>1, <2>1, <3>1, <3>3, <4>1, <4>2
    <3> QED BY <3>2, <3>3
  <2> QED BY <2>3, <2>4
<1> QED BY <1>2, <1>3, <1>5, <1>6, <1>7 DEF UiSteps, UiStep

\* Other threads leave the drawing alone.
LEMMA DrawKept ==
  ASSUME Types, Main \/ ReadSteps \/ MatchSteps \/ StoreSteps \/ Environment
  PROVE  /\ ui'.steps = ui.steps /\ (Drawing' <=> Drawing)
         /\ last_processed' = last_processed /\ raced' = raced /\ frozen' = frozen /\ impl' = impl
<1>1. ui \in [steps : Seq(Step), token : Token \cup {None, Torn}, overlap : BOOLEAN]
  BY DEF Types, UiTypes
<1>2. ui' = ui \/ ui' = [ui EXCEPT !.overlap = ~Idle(ui)]
  BY MainKeeps, ReadKeeps, MatchKeeps, StoreKeeps, EnvironmentKeeps DEF StoreSteps
<1>3. ui'.steps = ui.steps
  BY <1>1, <1>2
<1>4. last_processed' = last_processed /\ raced' = raced /\ frozen' = frozen /\ impl' = impl
  BY MainKeeps, ReadKeeps, MatchKeeps, StoreKeeps, EnvironmentKeeps DEF StoreSteps
<1> QED BY <1>3, <1>4 DEF Drawing

-----------------------------------------------------------------------------
(* The Python client's listeners, by what their store has left. *)

\* A listener is about to store its State when it has one step left.
LEMMA StateLeft ==
  ASSUME impl = "python", NEW x \in Listener
  PROVE  /\ Len(x.steps) \in Nat
         /\ At(x, "state") => Len(x.steps) = 1
         /\ Len(x.steps) = 1 => At(x, "state")
<1>1. x.steps \in Seq(Step) /\ Rest(x.steps, Store["python"])
  BY DEF Listener
<1>2. Len(x.steps) \in Nat /\ (Len(x.steps) = 1 => x.steps # <<>>)
  <2>1. Len(<<>>) = 0
    BY EmptySeq
  <2>2. Len(x.steps) \in Nat
    BY <1>1, LenProperties
  <2>3. ASSUME x.steps = <<>>
        PROVE  Len(x.steps) = 0
    BY <2>1, <2>3
  <2> QED BY <2>2, <2>3
<1>3. ASSUME x.steps # <<>>
      PROVE  /\ Head(x.steps) = "state" => Len(x.steps) = 1
             /\ Len(x.steps) = 1 => Head(x.steps) = "state"
  <2> DEFINE step == Head(x.steps)
  <2>1. /\ step = "own" => Len(x.steps) = 4
        /\ step = "newer" => Len(x.steps) = 3
        /\ step = "last_frame" => Len(x.steps) = 2
        /\ step = "state" => Len(x.steps) = 1
        /\ step \in {"own", "newer", "last_frame", "state"}
    BY <1>1, <1>3, StoreTable
  <2> HIDE DEF step
  <2>2. /\ step = "state" => Len(x.steps) = 1
        /\ Len(x.steps) = 1 => step = "state"
    BY <2>1
  <2> QED BY <2>2 DEF step
<1> QED BY <1>2, <1>3 DEF At

\* What a listener of the Python client does.
LEMMA PythonStoreOf ==
  ASSUME Types, impl = "python", NEW l \in 1 .. Len(listeners), ListenServer(l)
  PROVE  /\ drawn' = drawn /\ Len(listeners') = Len(listeners) /\ Len(listeners) \in Nat
         /\ listeners[l] \in Listener /\ listeners'[l] \in Listener /\ listeners[l].got \in Part
         /\ \A k \in 1 .. Len(listeners) : k # l => listeners'[k] = listeners[k]
         /\ \/ state' = state /\ last_frame' = last_frame /\ Len(listeners[l].steps) # 1
               /\ Len(listeners'[l].steps) \in {0, 3, 4}
            \/ state' = state /\ last_frame' = last_frame /\ listeners'[l].got = listeners[l].got
               /\ listeners[l].got \in State
               /\ Len(listeners[l].steps) = 3 /\ Len(listeners'[l].steps) = 2
               /\ listeners[l].got.frame >= last_frame
            \/ state' = state /\ last_frame' = listeners[l].got.frame /\ listeners'[l].got = listeners[l].got
               /\ listeners[l].got \in State
               /\ Len(listeners[l].steps) = 2 /\ Len(listeners'[l].steps) = 1
            \/ state' = [ball |-> listeners[l].got, paddles |-> listeners[l].got] /\ last_frame' = last_frame
               /\ listeners[l].got \in State
               /\ Len(listeners[l].steps) = 1 /\ Len(listeners'[l].steps) = 0
<1> DEFINE t == listeners[l]
           u == listeners'[l]
<1>0. t \in Listener /\ t.got \in Part /\ listeners \in Seq(Listener) /\ l \in DOMAIN listeners
      /\ <<>> \in Seq(Step) /\ Len(<<>>) = 0 /\ Len(listeners) \in Nat
  BY ElementOfSeq, EmptySeq, LenProperties DEF Types, StoreTypes, Listener
<1>1. /\ Len(listeners') = Len(listeners) /\ u \in Listener
      /\ \A k \in 1 .. Len(listeners) : k # l => listeners'[k] = listeners[k]
  <2>1. PICK x \in Listener : listeners' = [listeners EXCEPT ![l] = x]
    BY ListenerTyped
  <2> QED BY <2>1, ListenerAfter
<1>2. ASSUME NEW x, listeners' = [listeners EXCEPT ![l] = x]
      PROVE  u = x
  BY <1>0, <1>2
<1>3. ASSUME NEW step, At(t, step)
      PROVE  /\ t.got \in State /\ Past(t) = [steps |-> Tail(t.steps), got |-> t.got]
             /\ Len(t.steps) \in Nat /\ Len(Tail(t.steps)) = Len(t.steps) - 1
             /\ step = "own" => Len(t.steps) = 4
             /\ step = "newer" => Len(t.steps) = 3
             /\ step = "last_frame" => Len(t.steps) = 2
             /\ step = "state" => Len(t.steps) = 1
             /\ step \in {"own", "newer", "last_frame", "state"}
  BY <1>3, StoreAt
<1>4. ASSUME NEW step, At(t, step), listeners' = [listeners EXCEPT ![l] = Past(t)]
      PROVE  u.got = t.got /\ Len(u.steps) = Len(t.steps) - 1
  <2>1. u = [steps |-> Tail(t.steps), got |-> t.got] /\ Len(Tail(t.steps)) = Len(t.steps) - 1
    BY <1>2, <1>3, <1>4
  <2>2. u.steps = Tail(t.steps) /\ u.got = t.got
    BY <2>1
  <2> QED BY <2>1, <2>2
<1>5. CASE \E d \in State :
              /\ Idle(t)
              /\ listeners' = [listeners EXCEPT ![l] = [steps |-> Store[impl], got |-> d]]
              /\ state' = state /\ last_frame' = last_frame /\ drawn' = drawn
  <2>1. PICK d \in State : /\ Idle(t)
              /\ listeners' = [listeners EXCEPT ![l] = [steps |-> Store[impl], got |-> d]]
              /\ state' = state /\ last_frame' = last_frame /\ drawn' = drawn
    BY <1>5
  <2>2. u = [steps |-> Store[impl], got |-> d] /\ Len(t.steps) = 0
    BY <1>0, <1>2, <2>1 DEF Idle
  <2>3. Len(u.steps) = 4
    <3>1. u.steps = Store[impl]
      BY <2>2
    <3> QED BY <3>1, Programs, StorePrograms
  <2> QED BY <1>0, <1>1, <2>1, <2>2, <2>3
<1>6. CASE /\ listeners' = [listeners EXCEPT ![l] = [steps |-> <<>>, got |-> t.got]]
           /\ state' = state /\ last_frame' = last_frame /\ drawn' = drawn
           /\ At(t, "own") \/ At(t, "newer")
  <2>1. u = [steps |-> <<>>, got |-> t.got] /\ Len(t.steps) # 1
    <3>1. u = [steps |-> <<>>, got |-> t.got]
      BY <1>2, <1>6
    <3>2. Len(t.steps) = 4 \/ Len(t.steps) = 3
      BY <1>3, <1>6
    <3> QED BY <3>1, <3>2
  <2>2. Len(u.steps) = 0
    <3>1. u.steps = <<>>
      BY <2>1
    <3> QED BY <1>0, <3>1
  <2> QED BY <1>0, <1>1, <1>6, <2>1, <2>2
<1>7. CASE /\ listeners' = [listeners EXCEPT ![l] = Past(t)] /\ At(t, "own")
           /\ state' = state /\ last_frame' = last_frame /\ drawn' = drawn
  <2>1. Len(t.steps) = 4 /\ Len(u.steps) = Len(t.steps) - 1
    BY <1>3, <1>4, <1>7
  <2>2. Len(t.steps) # 1 /\ Len(u.steps) = 3
    BY <2>1
  <2> QED BY <1>0, <1>1, <1>7, <2>2
<1>8. CASE /\ listeners' = [listeners EXCEPT ![l] = Past(t)] /\ At(t, "newer") /\ t.got.frame >= last_frame
           /\ state' = state /\ last_frame' = last_frame /\ drawn' = drawn
  <2>1. Len(t.steps) = 3 /\ Len(u.steps) = Len(t.steps) - 1 /\ u.got = t.got /\ t.got \in State
    BY <1>3, <1>4, <1>8
  <2>2. Len(u.steps) = 2
    BY <2>1
  <2> QED BY <1>0, <1>1, <1>8, <2>1, <2>2
<1>9. CASE /\ listeners' = [listeners EXCEPT ![l] = Past(t)] /\ At(t, "last_frame") /\ last_frame' = t.got.frame
           /\ state' = state /\ drawn' = drawn
  <2>1. Len(t.steps) = 2 /\ Len(u.steps) = Len(t.steps) - 1 /\ u.got = t.got /\ t.got \in State
    BY <1>3, <1>4, <1>9
  <2>2. Len(u.steps) = 1
    BY <2>1
  <2> QED BY <1>0, <1>1, <1>9, <2>1, <2>2
<1>10. CASE listeners' = [listeners EXCEPT ![l] = Past(t)] /\ StoreState(l) /\ last_frame' = last_frame /\ drawn' = drawn
  <2>1. At(t, "state") /\ state' = [ball |-> t.got, paddles |-> t.got]
    BY <1>3, <1>10 DEF StoreState
  <2>2. Len(t.steps) = 1 /\ Len(u.steps) = Len(t.steps) - 1 /\ u.got = t.got /\ t.got \in State
    BY <1>3, <1>4, <1>10, <2>1
  <2>3. Len(u.steps) = 0
    BY <2>2
  <2> QED BY <1>0, <1>1, <1>10, <2>1, <2>2, <2>3
<1>11. ~At(t, "screen")
  BY <1>3
<1> QED BY <1>5, <1>6, <1>7, <1>8, <1>9, <1>10, <1>11, StoreOf

-----------------------------------------------------------------------------
(* The Python window: what last_frame announces is there, or is about to be. *)

Announced ==
  impl = "python" =>
    /\ state.paddles = state.ball
    /\ state.ball = NoState /\ last_frame # 0 => WithinStore
    /\ drawn.ball # NoState => state.ball # NoState
    /\ Drawing /\ Len(ui.steps) <= 3 => last_frame # 0
    /\ Drawing /\ Len(ui.steps) <= 2 /\ state.ball = NoState => raced

Frozen == frozen => impl = "python" /\ raced /\ drawn.ball = NoState /\ ~Drawing

\* A store that has begun goes on while others act.
LEMMA WithinKept ==
  ASSUME Types, WithinStore,
         \/ listeners' = listeners
         \/ listeners' = Append(listeners, [steps |-> <<>>, got |-> NoState])
  PROVE  WithinStore'
<1>1. PICK l \in 1 .. Len(listeners) : At(listeners[l], "state")
  BY DEF WithinStore
<1>2. l \in 1 .. Len(listeners') /\ listeners'[l] = listeners[l]
  <2>1. listeners \in Seq(Listener) /\ Len(listeners) \in Nat
    BY LenProperties DEF Types, StoreTypes
  <2>2. CASE listeners' = Append(listeners, [steps |-> <<>>, got |-> NoState])
    <3>1. Len(listeners') = Len(listeners) + 1 /\ listeners'[l] = listeners[l]
      BY <2>1, <2>2
    <3> QED BY <2>1, <3>1
  <2> QED BY <2>2
<1> QED BY <1>1, <1>2 DEF WithinStore, At

\* What others than listeners and the window's thread leave.
LEMMA OthersKeep ==
  ASSUME Types, Main \/ ReadSteps \/ MatchSteps \/ Environment
  PROVE  /\ state' = state /\ last_frame' = last_frame /\ drawn' = drawn /\ reordered' = reordered
         /\ \/ listeners' = listeners
            \/ listeners' = Append(listeners, [steps |-> <<>>, got |-> NoState])
BY MainKeeps, ReadKeeps, MatchKeeps, EnvironmentKeeps

\* Announced is kept.
LEMMA AnnouncedStep ==
  ASSUME Types, Announced, Next
  PROVE  Announced'
<1>0. impl' = impl /\ Types
  BY MainKeeps, ReadKeeps, MatchKeeps, StoreKeeps, UiKeeps, EnvironmentKeeps, StepOf DEF StoreSteps
<1> SUFFICES ASSUME impl = "python"
             PROVE  Announced'
  BY <1>0 DEF Announced
<1>1. /\ state.paddles = state.ball
      /\ state.ball = NoState /\ last_frame # 0 => WithinStore
      /\ drawn.ball # NoState => state.ball # NoState
      /\ Drawing /\ Len(ui.steps) <= 3 => last_frame # 0
      /\ Drawing /\ Len(ui.steps) <= 2 /\ state.ball = NoState => raced
  BY DEF Announced
<1>2. CASE Main \/ ReadSteps \/ MatchSteps \/ Environment
  <2>1. state' = state /\ last_frame' = last_frame /\ drawn' = drawn /\ (WithinStore => WithinStore')
    BY <1>0, <1>2, OthersKeep, WithinKept
  <2>2. ui'.steps = ui.steps /\ (Drawing' <=> Drawing) /\ raced' = raced
    BY <1>2, DrawKept
  <2> QED BY <1>0, <1>1, <2>1, <2>2 DEF Announced
<1>3. CASE UiSteps
  <2>1. state' = state /\ last_frame' = last_frame /\ listeners' = listeners
    BY <1>3, UiKeeps
  <2>2. WithinStore' <=> WithinStore
    BY <2>1 DEF WithinStore, At
  <2>3. drawn \in [ball : Part, paddles : Part] /\ last_frame \in Nat /\ last_processed \in Nat
    BY DEF Types, StoreTypes
  <2> DEFINE n == Len(ui.steps)
             m == Len(ui'.steps)
  <2>4. \/ ~Drawing' /\ drawn' = drawn
        \/ m = 4 /\ drawn' = drawn
        \/ m = 3 /\ drawn' = drawn /\ last_frame > last_processed
        \/ m = 2 /\ drawn' = drawn /\ Drawing /\ n = 3 /\ raced' = WithinStore
        \/ m = 1 /\ drawn' = [drawn EXCEPT !.ball = state.ball] /\ state.ball # NoState /\ Drawing /\ n = 2
        \/ ~Drawing' /\ drawn' = [drawn EXCEPT !.paddles = state.paddles]
    BY <1>3, DrawOf DEF SameDraw
  <2>5. /\ [drawn EXCEPT !.ball = state.ball].ball = state.ball
        /\ [drawn EXCEPT !.paddles = state.paddles].ball = drawn.ball
    BY <2>3
  <2> HIDE DEF n, m
  <2>6. drawn'.ball # NoState => state.ball # NoState
    BY <1>1, <2>4, <2>5
  <2>7. Drawing' /\ m <= 3 => last_frame # 0
    <3>0. n \in Nat /\ (Drawing /\ n <= 3 => last_frame # 0)
      BY <1>1, LenProperties DEF Types, UiTypes, n
    <3>1. Drawing /\ (n = 2 \/ n = 3) => last_frame # 0
      BY <3>0
    <3>2. last_frame > last_processed => last_frame # 0
      BY <2>3
    <3>3. Drawing' /\ m <= 3 => last_frame > last_processed \/ (Drawing /\ (n = 2 \/ n = 3))
      <4>1. \/ ~Drawing'
            \/ m = 4
            \/ last_frame > last_processed
            \/ Drawing /\ n = 3
            \/ Drawing /\ n = 2
        BY <2>4, Zenon
      <4>2. m = 4 => ~(m <= 3)
        OBVIOUS
      <4> QED BY <4>1, <4>2
    <3> QED BY <3>1, <3>2, <3>3
  <2>8. Drawing' /\ m <= 2 /\ state.ball = NoState => raced'
    <3>1. Drawing /\ n = 3 => last_frame # 0
      BY <1>1 DEF n
    <3> QED BY <1>1, <2>4, <3>1
  <2> QED BY <1>0, <1>1, <2>1, <2>2, <2>6, <2>7, <2>8 DEF Announced, m
<1>4. ASSUME NEW l \in 1 .. Len(listeners), ListenServer(l)
      PROVE  Announced'
  <2>0. StoreSteps
    BY <1>4 DEF StoreSteps
  <2>1. ui'.steps = ui.steps /\ (Drawing' <=> Drawing) /\ raced' = raced
    BY <2>0, DrawKept
  <2>2. /\ drawn' = drawn /\ Len(listeners') = Len(listeners) /\ Len(listeners) \in Nat
        /\ listeners[l] \in Listener /\ listeners'[l] \in Listener
        /\ \A k \in 1 .. Len(listeners) : k # l => listeners'[k] = listeners[k]
    BY <1>4, PythonStoreOf
  <2>3. /\ Len(listeners[l].steps) # 1 => ~At(listeners[l], "state")
        /\ Len(listeners'[l].steps) = 1 => At(listeners'[l], "state")
    BY <2>2, StateLeft
  <2>4. CASE last_frame' = last_frame /\ state' = state /\ Len(listeners[l].steps) # 1
    <3>1. WithinStore => WithinStore'
      BY <2>2, <2>3, <2>4 DEF WithinStore, At
    <3> QED BY <1>0, <1>1, <2>1, <2>2, <2>4, <3>1 DEF Announced
  <2>5. CASE last_frame' = listeners[l].got.frame /\ state' = state /\ listeners[l].got \in State
             /\ Len(listeners'[l].steps) = 1
    <3>1. last_frame' # 0
      BY <2>5, TokenFacts
    <3>2. WithinStore'
      BY <2>2, <2>3, <2>5 DEF WithinStore, At
    <3> QED BY <1>0, <1>1, <2>1, <2>2, <2>5, <3>1, <3>2 DEF Announced
  <2>6. CASE last_frame' = last_frame /\ listeners[l].got \in State
             /\ state' = [ball |-> listeners[l].got, paddles |-> listeners[l].got]
    <3>1. state'.ball = listeners[l].got /\ state'.paddles = listeners[l].got /\ listeners[l].got # NoState
      BY <2>6, TokenFacts
    <3> QED BY <1>0, <1>1, <2>1, <2>2, <2>6, <3>1 DEF Announced
  <2>7. \/ last_frame' = last_frame /\ state' = state /\ Len(listeners[l].steps) # 1
        \/ last_frame' = listeners[l].got.frame /\ state' = state /\ listeners[l].got \in State
           /\ Len(listeners'[l].steps) = 1
        \/ last_frame' = last_frame /\ listeners[l].got \in State
           /\ state' = [ball |-> listeners[l].got, paddles |-> listeners[l].got]
    <3>1. Len(listeners[l].steps) = 3 => Len(listeners[l].steps) # 1
      OBVIOUS
    <3> QED BY <1>4, <3>1, PythonStoreOf
  <2> QED BY <2>4, <2>5, <2>6, <2>7
<1> QED BY <1>2, <1>3, <1>4, StepOf DEF StoreSteps

\* Frozen is kept.
LEMMA FrozenStep ==
  ASSUME Types, Announced, Frozen, Next
  PROVE  Frozen'
<1>0. impl' = impl /\ Types
  BY MainKeeps, ReadKeeps, MatchKeeps, StoreKeeps, UiKeeps, EnvironmentKeeps, StepOf DEF StoreSteps
<1>1. CASE Main \/ ReadSteps \/ MatchSteps \/ Environment
  BY <1>0, <1>1, OthersKeep, DrawKept DEF Frozen
<1>2. ASSUME NEW l \in 1 .. Len(listeners), ListenServer(l)
      PROVE  Frozen'
  <2>1. StoreSteps
    BY <1>2 DEF StoreSteps
  <2>2. impl = "python" => drawn' = drawn
    BY <1>2, PythonStoreOf
  <2> QED BY <1>0, <2>1, <2>2, DrawKept DEF Frozen
<1>3. CASE UiSteps
  <2>1. \/ ~Drawing /\ drawn' = drawn /\ raced' = raced /\ frozen' = frozen /\ ~Drawing'
        \/ ~frozen /\ frozen' = frozen
        \/ Drawing /\ frozen' = frozen
        \/ impl = "python" /\ Drawing /\ Len(ui.steps) \in {1, 2} /\ ~Drawing' /\ drawn' = drawn /\ raced' = raced
           /\ (state.ball = NoState \/ state.paddles = NoState)
    BY <1>3, DrawOf DEF SameDraw
  <2>2. CASE ~Drawing /\ drawn' = drawn /\ raced' = raced /\ frozen' = frozen /\ ~Drawing'
    BY <1>0, <2>2 DEF Frozen
  <2>3. CASE (~frozen \/ Drawing) /\ frozen' = frozen
    BY <1>0, <2>3 DEF Frozen
  <2>4. CASE impl = "python" /\ Drawing /\ Len(ui.steps) \in {1, 2} /\ ~Drawing' /\ drawn' = drawn /\ raced' = raced
             /\ (state.ball = NoState \/ state.paddles = NoState)
    <3> DEFINE n == Len(ui.steps)
    <3>0. n \in {1, 2}
      BY <2>4
    <3> HIDE DEF n
    <3>4. n <= 2
      BY <3>0
    <3>1. Len(ui.steps) <= 2
      BY <3>4 DEF n
    <3>2. state.ball = NoState
      BY <2>4 DEF Announced
    <3>3. raced /\ drawn.ball = NoState
      BY <2>4, <3>1, <3>2 DEF Announced
    <3> QED BY <1>0, <2>4, <3>3 DEF Frozen
  <2> QED BY <2>1, <2>2, <2>3, <2>4
<1> QED BY <1>1, <1>2, <1>3, StepOf DEF StoreSteps


\* The client's invariant, with what the Python window relies on.
PythonInv == MatchInv /\ Announced /\ Frozen

\* It holds at first.
LEMMA PythonInvInit ==
  ASSUME Init
  PROVE  PythonInv
<1>1. /\ state = [ball |-> NoState, paddles |-> NoState] /\ drawn = [ball |-> NoState, paddles |-> NoState]
      /\ last_frame = 0 /\ ui.steps = <<>> /\ frozen = FALSE
  BY DEF Init, IdleUi
<1>2. state.paddles = NoState /\ state.ball = NoState /\ drawn.ball = NoState /\ ~Drawing
  BY <1>1 DEF Drawing
<1> QED BY <1>1, <1>2, MatchInvInit DEF PythonInv, Announced, Frozen

\* Nothing changes in a stutter.
LEMMA PythonInvStutter ==
  ASSUME PythonInv, UNCHANGED vars
  PROVE  PythonInv'
<1>1. /\ impl' = impl /\ listeners' = listeners /\ state' = state /\ last_frame' = last_frame
      /\ drawn' = drawn /\ raced' = raced /\ frozen' = frozen /\ ui' = ui
  BY DEF vars, storeVars, drawVars, processVars
<1>2. Announced' /\ Frozen'
  BY <1>1 DEF PythonInv, Announced, Frozen, Drawing, WithinStore, At
<1> QED BY <1>2, MatchInvStutter DEF PythonInv

-----------------------------------------------------------------------------
(* The Python window in one game: it shows what it was last sent. *)

\* What the listener stores, and how far it is.
Stored ==
  impl = "python" /\ One =>
    /\ \A l \in 1 .. Len(listeners) :
         /\ Len(listeners[l].steps) = 1 => listeners[l].got.frame = last_frame
         /\ Len(listeners[l].steps) = 2 => listeners[l].got.frame >= last_frame
         /\ Len(listeners[l].steps) # 1 => state.ball.frame = last_frame
    /\ Len(listeners) = 0 => state.ball.frame = last_frame
    /\ state.ball.frame <= last_frame

\* What the window shows of it.
Shown ==
  impl = "python" /\ One =>
    /\ drawn.ball.frame <= state.ball.frame
    /\ last_processed <= last_frame
    /\ last_processed = last_frame /\ ~raced =>
         /\ state.ball.frame = last_frame
         /\ ~frozen /\ ~(Drawing /\ Len(ui.steps) = 2) => drawn.ball = state.ball
         /\ ~frozen /\ ~(Drawing /\ Len(ui.steps) \in {1, 2}) => drawn.paddles = state.ball

\* Frames are numbers.
LEMMA FramesAreNumbers ==
  ASSUME NEW d \in Part
  PROVE  d.frame \in Nat
BY TokenFacts DEF Part

\* Stored is kept.
LEMMA StoredStep ==
  ASSUME Types, Stored, Next
  PROVE  Stored'
<1>0. impl' = impl /\ Types /\ (One' => One)
  BY OneBefore, MainKeeps, ReadKeeps, MatchKeeps, StoreKeeps, UiKeeps, EnvironmentKeeps, StepOf DEF StoreSteps
<1> SUFFICES ASSUME impl = "python", One, One'
             PROVE  Stored'
  BY <1>0 DEF Stored
<1>1. /\ \A l \in 1 .. Len(listeners) :
           /\ Len(listeners[l].steps) = 1 => listeners[l].got.frame = last_frame
           /\ Len(listeners[l].steps) = 2 => listeners[l].got.frame >= last_frame
           /\ Len(listeners[l].steps) # 1 => state.ball.frame = last_frame
      /\ Len(listeners) = 0 => state.ball.frame = last_frame
      /\ state.ball.frame <= last_frame
  BY DEF Stored
<1>2. CASE listeners' = listeners /\ state' = state /\ last_frame' = last_frame
  BY <1>1, <1>2 DEF Stored
<1>3. CASE listeners' = Append(listeners, [steps |-> <<>>, got |-> NoState]) /\ state' = state /\ last_frame' = last_frame
  <2>1. listeners \in Seq(Listener) /\ Len(listeners) \in Nat
    BY LenProperties DEF Types, StoreTypes
  <2>2. Len(listeners') = Len(listeners) + 1
    BY <1>3, <2>1
  <2>3. Len(listeners) = 0 /\ Len(listeners') = 1
    BY <2>1, <2>2 DEF One
  <2>4. listeners'[1] = [steps |-> <<>>, got |-> NoState]
    BY <1>3, <2>1, <2>3
  <2>5. Len(listeners'[1].steps) = 0
    <3>1. listeners'[1].steps = <<>>
      BY <2>4
    <3> QED BY <3>1, EmptySeq
  <2> QED BY <1>1, <1>3, <2>3, <2>5 DEF Stored
<1>4. ASSUME NEW l \in 1 .. Len(listeners), ListenServer(l)
      PROVE  Stored'
  <2> DEFINE n == Len(listeners[l].steps)
             m == Len(listeners'[l].steps)
             d == listeners[l].got
             e == listeners'[l].got
  <2>1. Len(listeners') = Len(listeners) /\ Len(listeners) \in Nat /\ Len(listeners) = 1 /\ l = 1
    <3>1. Len(listeners') = Len(listeners) /\ Len(listeners) \in Nat
      BY <1>4, PythonStoreOf
    <3>2. Len(listeners) <= 1
      BY DEF One
    <3> QED BY <3>1, <3>2
  <2>2. d \in Part /\ state.ball \in Part /\ state.ball.frame \in Nat /\ last_frame \in Nat /\ d.frame \in Nat
    BY <1>4, PythonStoreOf, FramesAreNumbers DEF Types, StoreTypes
  <2>3. /\ n = 1 => d.frame = last_frame
        /\ n = 2 => d.frame >= last_frame
        /\ n # 1 => state.ball.frame = last_frame
        /\ state.ball.frame <= last_frame
    BY <1>1
  <2>4. \/ state' = state /\ last_frame' = last_frame /\ n # 1 /\ m \in {0, 3, 4}
        \/ state' = state /\ last_frame' = last_frame /\ e = d /\ n = 3 /\ m = 2 /\ d.frame >= last_frame
        \/ state' = state /\ last_frame' = d.frame /\ e = d /\ n = 2 /\ m = 1
        \/ state' = [ball |-> d, paddles |-> d] /\ last_frame' = last_frame /\ n = 1 /\ m = 0
    BY <1>4, PythonStoreOf
  <2>5. SUFFICES /\ m = 1 => e.frame = last_frame'
                 /\ m = 2 => e.frame >= last_frame'
                 /\ m # 1 => state'.ball.frame = last_frame'
                 /\ state'.ball.frame <= last_frame'
    BY <2>1 DEF Stored
  <2>6. state' = [ball |-> d, paddles |-> d] => state'.ball = d
    OBVIOUS
  <2> HIDE DEF n, m, d, e
  <2>7. CASE state' = state /\ last_frame' = last_frame /\ n # 1 /\ m \in {0, 3, 4}
    BY <2>3, <2>7
  <2>8. CASE state' = state /\ last_frame' = last_frame /\ e = d /\ n = 3 /\ m = 2 /\ d.frame >= last_frame
    BY <2>3, <2>8
  <2>9. CASE state' = state /\ last_frame' = d.frame /\ e = d /\ n = 2 /\ m = 1
    BY <2>2, <2>3, <2>9
  <2>10. CASE state' = [ball |-> d, paddles |-> d] /\ last_frame' = last_frame /\ n = 1 /\ m = 0
    BY <2>2, <2>3, <2>6, <2>10
  <2> QED BY <2>4, <2>7, <2>8, <2>9, <2>10
<1> QED BY <1>2, <1>3, <1>4, OthersKeep, UiKeeps, StepOf DEF StoreSteps

\* Shown is kept.
LEMMA ShownStep ==
  ASSUME Types, Games, Announced, Stored, Shown, Next
  PROVE  Shown'
<1>0. impl' = impl /\ Types /\ (One' => One)
  BY OneBefore, MainKeeps, ReadKeeps, MatchKeeps, StoreKeeps, UiKeeps, EnvironmentKeeps, StepOf DEF StoreSteps
<1> SUFFICES ASSUME impl = "python", One
             PROVE  Shown'
  BY <1>0 DEF Shown
<1>1. /\ drawn.ball.frame <= state.ball.frame
      /\ last_processed <= last_frame
      /\ last_processed = last_frame /\ ~raced => state.ball.frame = last_frame
      /\ last_processed = last_frame /\ ~raced /\ ~frozen /\ ~(Drawing /\ Len(ui.steps) = 2) => drawn.ball = state.ball
      /\ last_processed = last_frame /\ ~raced /\ ~frozen /\ ~(Drawing /\ Len(ui.steps) \in {1, 2}) => drawn.paddles = state.ball
  BY DEF Shown
<1>2. /\ state \in [ball : Part, paddles : Part] /\ drawn \in [ball : Part, paddles : Part]
      /\ last_frame \in Nat /\ last_processed \in Nat /\ state.paddles = state.ball
      /\ state.ball \in Part /\ drawn.ball \in Part /\ state.ball.frame \in Nat /\ drawn.ball.frame \in Nat
  BY FramesAreNumbers DEF Types, StoreTypes, Announced
<1>3. ASSUME ui'.steps = ui.steps, Drawing' <=> Drawing, last_processed' = last_processed, raced' = raced,
             frozen' = frozen, drawn' = drawn, state'.ball = state.ball, last_frame' = last_frame
      PROVE  Shown'
  BY <1>1, <1>3 DEF Shown
<1>4. CASE Main \/ ReadSteps \/ MatchSteps \/ Environment
  BY <1>3, <1>4, OthersKeep, DrawKept
<1>5. ASSUME NEW l \in 1 .. Len(listeners), ListenServer(l)
      PROVE  Shown'
  <2> DEFINE n == Len(listeners[l].steps)
             d == listeners[l].got
  <2>1. ui'.steps = ui.steps /\ (Drawing' <=> Drawing) /\ last_processed' = last_processed /\ raced' = raced
        /\ frozen' = frozen
    BY <1>5, DrawKept DEF StoreSteps
  <2>2. /\ n = 1 => d.frame = last_frame
        /\ n = 2 => d.frame >= last_frame
        /\ n # 1 => state.ball.frame = last_frame
        /\ OfJoined(d, joins) /\ OfJoined(state.ball, joins)
    BY DEF Stored, Games
  <2>3. /\ drawn' = drawn
        /\ \/ state' = state /\ last_frame' = last_frame
           \/ state' = state /\ last_frame' = d.frame /\ d \in State /\ n = 2
           \/ state' = [ball |-> d, paddles |-> d] /\ last_frame' = last_frame /\ d \in State /\ n = 1
    BY <1>5, PythonStoreOf
  <2>4. d \in State => d.frame \in Nat /\ d.frame # 0
    BY TokenFacts
  <2>5. NoState.frame = 0
    BY TokenFacts
  <2> HIDE DEF n, d
  <2>6. CASE state' = state /\ last_frame' = last_frame
    BY <1>3, <2>1, <2>3, <2>6
  <2>7. CASE state' = state /\ last_frame' = d.frame /\ d \in State /\ n = 2
    <3>1. last_frame' >= last_frame /\ last_frame' \in Nat
      BY <2>2, <2>4, <2>7
    <3>2. CASE last_frame' = last_frame
      BY <1>3, <2>1, <2>3, <2>7, <3>2
    <3>3. CASE last_frame' # last_frame
      <4>1. last_processed' <= last_frame' /\ last_processed' # last_frame'
        BY <1>1, <1>2, <2>1, <3>1, <3>3
      <4> QED BY <1>1, <2>3, <2>7, <4>1 DEF Shown
    <3> QED BY <3>2, <3>3
  <2>8. CASE state' = [ball |-> d, paddles |-> d] /\ last_frame' = last_frame /\ d \in State /\ n = 1
    <3>1. state'.ball = d /\ d.frame = last_frame /\ d.frame # 0
      BY <2>2, <2>4, <2>8
    <3>2. CASE last_processed = last_frame /\ ~raced
      <4>1. state.ball.frame = d.frame /\ state.ball # NoState
        BY <1>1, <2>5, <3>1, <3>2
      <4>2. d = state.ball
        BY <1>2, <2>2, <2>8, <4>1, SameGame
      <4> QED BY <1>3, <2>1, <2>3, <2>8, <3>1, <4>2
    <3>3. CASE ~(last_processed = last_frame /\ ~raced)
      <4>1. drawn'.ball.frame <= state'.ball.frame
        <5>1. state.ball.frame <= last_frame
          BY DEF Stored
        <5> QED BY <1>1, <1>2, <2>3, <3>1, <5>1
      <4> QED BY <1>1, <2>1, <2>8, <3>3, <4>1 DEF Shown
    <3> QED BY <3>2, <3>3
  <2> QED BY <2>3, <2>6, <2>7, <2>8
<1>6. CASE UiSteps
  <2> DEFINE n == Len(ui.steps)
             m == Len(ui'.steps)
  <2>1. state' = state /\ last_frame' = last_frame
    BY <1>6, UiKeeps
  <2>2. \/ ~(Drawing' /\ m \in {1, 2}) /\ ~(Drawing /\ n \in {1, 2}) /\ SameDraw
        \/ m = 3 /\ SameDraw /\ last_frame > last_processed
        \/ m = 2 /\ Drawing' /\ last_processed' = last_frame /\ raced' = WithinStore /\ drawn' = drawn
        \/ frozen' = TRUE /\ drawn' = drawn /\ last_processed' = last_processed /\ raced' = raced
        \/ m = 1 /\ Drawing' /\ drawn' = [drawn EXCEPT !.ball = state.ball]
           /\ last_processed' = last_processed /\ raced' = raced /\ frozen' = frozen
        \/ n = 1 /\ ~Drawing' /\ drawn' = [drawn EXCEPT !.paddles = state.paddles]
           /\ last_processed' = last_processed /\ raced' = raced /\ frozen' = frozen
    <3>1. /\ Len(ui.steps) = 4 => Len(ui.steps) \notin {1, 2}
          /\ Len(ui'.steps) = 4 => Len(ui'.steps) \notin {1, 2}
      OBVIOUS
    <3> QED BY <1>6, <3>1, DrawOf
  <2>3. /\ [drawn EXCEPT !.ball = state.ball].ball = state.ball
        /\ [drawn EXCEPT !.ball = state.ball].paddles = drawn.paddles
        /\ [drawn EXCEPT !.paddles = state.paddles].ball = drawn.ball
        /\ [drawn EXCEPT !.paddles = state.paddles].paddles = state.ball
    BY <1>2
  <2> SUFFICES
        /\ drawn'.ball.frame <= state.ball.frame
        /\ last_processed' <= last_frame
        /\ last_processed' = last_frame /\ ~raced' => state.ball.frame = last_frame
        /\ last_processed' = last_frame /\ ~raced' /\ ~frozen' /\ ~(Drawing' /\ m = 2) => drawn'.ball = state.ball
        /\ last_processed' = last_frame /\ ~raced' /\ ~frozen' /\ ~(Drawing' /\ m \in {1, 2}) => drawn'.paddles = state.ball
    BY <2>1 DEF Shown
  <2>4. /\ last_processed = last_frame /\ ~raced /\ ~frozen /\ ~(Drawing /\ n = 2) => drawn.ball = state.ball
        /\ last_processed = last_frame /\ ~raced /\ ~frozen /\ ~(Drawing /\ n \in {1, 2}) => drawn.paddles = state.ball
    BY <1>1
  <2>5. ~WithinStore => state.ball.frame = last_frame
    <3>1. SUFFICES ASSUME ~WithinStore
                   PROVE  state.ball.frame = last_frame
      OBVIOUS
    <3>2. listeners \in Seq(Listener) /\ Len(listeners) \in Nat
      BY LenProperties DEF Types, StoreTypes
    <3>3. CASE Len(listeners) = 0
      BY <3>3 DEF Stored
    <3>4. CASE Len(listeners) # 0
      <4>1. 1 \in 1 .. Len(listeners) /\ listeners[1] \in Listener
        BY <3>2, <3>4, ElementOfSeq
      <4>2. Len(listeners[1].steps) # 1
        BY <3>1, <4>1, StateLeft DEF WithinStore
      <4> QED BY <4>1, <4>2 DEF Stored
    <3> QED BY <3>3, <3>4
  <2> HIDE DEF n, m
  <2>6. CASE ~(Drawing' /\ m \in {1, 2}) /\ ~(Drawing /\ n \in {1, 2}) /\ SameDraw
    BY <1>1, <2>4, <2>6 DEF SameDraw
  <2>7. CASE m = 3 /\ SameDraw /\ last_frame > last_processed
    BY <1>1, <1>2, <2>7 DEF SameDraw
  <2>8. CASE m = 2 /\ Drawing' /\ last_processed' = last_frame /\ raced' = WithinStore /\ drawn' = drawn
    BY <1>1, <1>2, <2>5, <2>8
  <2>9. CASE frozen' = TRUE /\ drawn' = drawn /\ last_processed' = last_processed /\ raced' = raced
    BY <1>1, <2>9
  <2>10. CASE m = 1 /\ Drawing' /\ drawn' = [drawn EXCEPT !.ball = state.ball]
           /\ last_processed' = last_processed /\ raced' = raced /\ frozen' = frozen
    BY <1>1, <1>2, <2>3, <2>10
  <2>11. CASE n = 1 /\ ~Drawing' /\ drawn' = [drawn EXCEPT !.paddles = state.paddles]
           /\ last_processed' = last_processed /\ raced' = raced /\ frozen' = frozen
    BY <1>1, <2>3, <2>4, <2>11
  <2> QED BY <2>2, <2>6, <2>7, <2>8, <2>9, <2>10, <2>11
<1> QED BY <1>4, <1>5, <1>6, StepOf DEF StoreSteps

-----------------------------------------------------------------------------
(* The C++ and the Java client in one game, if no State was overtaken. *)

Forward ==
  impl # "python" /\ One /\ ~reordered =>
    /\ \A l \in 1 .. Len(listeners) :
         /\ drawn.ball.frame <= listeners[l].got.frame
         /\ state.ball.frame <= listeners[l].got.frame
    /\ Len(listeners) = 0 => drawn.ball.frame = 0 /\ state.ball.frame = 0
    /\ state.ball = NoState \/ drawn.ball.frame <= state.ball.frame

\* What a listener of the C++ or the Java client does.
LEMMA OtherStoreOf ==
  ASSUME Types, NEW l \in 1 .. Len(listeners), ListenServer(l), impl # "python"
  PROVE  /\ Len(listeners') = Len(listeners) /\ Len(listeners) \in Nat
         /\ listeners[l].got \in Part /\ listeners'[l].got \in Part
         /\ \/ /\ listeners'[l].got \in State /\ state' = state /\ drawn' = drawn
               /\ listeners'[l].got.frame <= frames[listeners'[l].got.token]
               /\ reordered' = (reordered \/ (/\ listeners'[l].got.token = listeners[l].got.token
                                              /\ listeners'[l].got.frame < listeners[l].got.frame))
            \/ /\ listeners'[l].got = listeners[l].got /\ reordered' = reordered /\ drawn' = drawn
               /\ state'.ball = state.ball \/ state'.ball = NoState \/ state'.ball = listeners[l].got
            \/ /\ listeners'[l].got = listeners[l].got /\ reordered' = reordered /\ state' = state
               /\ impl = "java" /\ drawn'.ball = state.ball
<1> DEFINE t == listeners[l]
           u == listeners'[l]
<1>0. t.got \in Part /\ listeners \in Seq(Listener) /\ l \in DOMAIN listeners /\ Len(listeners) \in Nat
      /\ state \in [ball : Part, paddles : Part] /\ impl \in {"cpp", "java"}
  BY ElementOfSeq, LenProperties DEF Types, StoreTypes, MatchTypes, Listener
<1>1. Len(listeners') = Len(listeners) /\ u.got \in Part
  <2>1. PICK x \in Listener : listeners' = [listeners EXCEPT ![l] = x]
    BY ListenerTyped
  <2>2. Len(listeners') = Len(listeners) /\ u = x
    BY <2>1, ListenerAfter
  <2> QED BY <2>2 DEF Listener
<1>2. ASSUME NEW x, listeners' = [listeners EXCEPT ![l] = x]
      PROVE  u = x
  BY <1>0, <1>2
<1>3. CASE \E d \in State :
              /\ d.frame <= frames[d.token]
              /\ listeners' = [listeners EXCEPT ![l] = [steps |-> Store[impl], got |-> d]]
              /\ state' = state /\ drawn' = drawn
              /\ reordered' = (reordered \/ (d.token = t.got.token /\ d.frame < t.got.frame))
  <2>1. PICK d \in State :
              /\ d.frame <= frames[d.token]
              /\ listeners' = [listeners EXCEPT ![l] = [steps |-> Store[impl], got |-> d]]
              /\ state' = state /\ drawn' = drawn
              /\ reordered' = (reordered \/ (d.token = t.got.token /\ d.frame < t.got.frame))
    BY <1>3
  <2>2. u = [steps |-> Store[impl], got |-> d]
    BY <1>2, <2>1
  <2>3. u.got = d
    BY <2>2
  <2> QED BY <1>0, <1>1, <2>1, <2>3
<1>4. CASE listeners' = [listeners EXCEPT ![l] = [steps |-> <<>>, got |-> t.got]]
           /\ reordered' = reordered /\ state' = state /\ drawn' = drawn
  <2>1. u = [steps |-> <<>>, got |-> t.got]
    BY <1>2, <1>4
  <2>2. u.got = t.got
    BY <2>1
  <2> QED BY <1>0, <1>1, <1>4, <2>2
<1>5. ASSUME listeners' = [listeners EXCEPT ![l] = Past(t)], \E step : At(t, step)
      PROVE  u.got = t.got
  <2>1. u = Past(t)
    BY <1>2, <1>5
  <2>2. u = [steps |-> Tail(t.steps), got |-> t.got]
    BY <1>5, <2>1, StoreAt
  <2> QED BY <2>2
<1>6. CASE listeners' = [listeners EXCEPT ![l] = Past(t)] /\ reordered' = reordered
           /\ (At(t, "own") \/ At(t, "newer") \/ At(t, "last_frame")) /\ state' = state /\ drawn' = drawn
  BY <1>0, <1>1, <1>5, <1>6
<1>7. CASE listeners' = [listeners EXCEPT ![l] = Past(t)] /\ reordered' = reordered
           /\ StoreState(l) /\ drawn' = drawn
  <2>1. u.got = t.got
    BY <1>5, <1>7 DEF StoreState
  <2>2. state'.ball = state.ball \/ state'.ball = NoState \/ state'.ball = t.got
    BY <1>0, <1>7 DEF StoreState
  <2> QED BY <1>0, <1>1, <1>7, <2>1, <2>2
<1>8. CASE listeners' = [listeners EXCEPT ![l] = Past(t)] /\ reordered' = reordered
           /\ At(t, "screen") /\ state' = state /\ drawn' = state
  <2>1. u.got = t.got
    BY <1>5, <1>8
  <2>2. impl = "java"
    <3>1. CASE impl = "cpp"
      <4>1. "screen" \in {"clear", "ball", "paddles"}
        BY <1>8, <3>1, StoreAt
      <4> QED BY <4>1
    <3> QED BY <1>0, <3>1
  <2>3. drawn'.ball = state.ball
    BY <1>8
  <2> QED BY <1>0, <1>1, <1>8, <2>1, <2>2, <2>3
<1>9. \/ \E d \in State :
              /\ d.frame <= frames[d.token]
              /\ listeners' = [listeners EXCEPT ![l] = [steps |-> Store[impl], got |-> d]]
              /\ state' = state /\ drawn' = drawn
              /\ reordered' = (reordered \/ (d.token = t.got.token /\ d.frame < t.got.frame))
      \/ /\ reordered' = reordered
         /\ \/ listeners' = [listeners EXCEPT ![l] = [steps |-> <<>>, got |-> t.got]] /\ state' = state /\ drawn' = drawn
            \/ /\ listeners' = [listeners EXCEPT ![l] = Past(t)]
               /\ \/ At(t, "own") /\ state' = state /\ drawn' = drawn
                  \/ At(t, "newer") /\ state' = state /\ drawn' = drawn
                  \/ StoreState(l) /\ drawn' = drawn
                  \/ At(t, "last_frame") /\ state' = state /\ drawn' = drawn
                  \/ At(t, "screen") /\ state' = state /\ drawn' = state
  BY StoreOf
<1> QED BY <1>3, <1>4, <1>6, <1>7, <1>8, <1>9

\* Forward is kept.
LEMMA ForwardStep ==
  ASSUME Types, Games, Forward, Next
  PROVE  Forward'
<1>0. impl' = impl /\ Types /\ (One' => One)
  BY OneBefore, MainKeeps, ReadKeeps, MatchKeeps, StoreKeeps, UiKeeps, EnvironmentKeeps, StepOf DEF StoreSteps
<1> SUFFICES ASSUME impl # "python", One, One', ~reordered'
             PROVE  Forward'
  BY <1>0 DEF Forward
<1>1. state.ball \in Part /\ drawn.ball \in Part /\ state.ball.frame \in Nat /\ drawn.ball.frame \in Nat
      /\ state \in [ball : Part, paddles : Part] /\ drawn \in [ball : Part, paddles : Part]
      /\ listeners \in Seq(Listener) /\ Len(listeners) \in Nat
  BY FramesAreNumbers, LenProperties DEF Types, StoreTypes
<1>2. CASE listeners' = listeners /\ state' = state /\ reordered' = reordered /\ drawn'.ball = drawn.ball
  BY <1>0, <1>2 DEF Forward
<1>3. CASE listeners' = Append(listeners, [steps |-> <<>>, got |-> NoState]) /\ state' = state
           /\ reordered' = reordered /\ drawn' = drawn
  <2>1. Len(listeners') = Len(listeners) + 1
    BY <1>1, <1>3
  <2>2. Len(listeners) = 0 /\ Len(listeners') = 1
    BY <1>1, <2>1 DEF One
  <2>3. listeners'[1] = [steps |-> <<>>, got |-> NoState]
    BY <1>1, <1>3, <2>2
  <2>4. listeners'[1].got = NoState
    BY <2>3
  <2>5. drawn.ball.frame = 0 /\ state.ball.frame = 0 /\ NoState.frame = 0
        /\ (state.ball = NoState \/ drawn.ball.frame <= state.ball.frame)
    BY <1>3, <2>2, TokenFacts DEF Forward
  <2> QED BY <1>0, <1>3, <2>2, <2>4, <2>5 DEF Forward
<1>4. ASSUME NEW l \in 1 .. Len(listeners), ListenServer(l)
      PROVE  Forward'
  <2> DEFINE d == listeners[l].got
             e == listeners'[l].got
  <2>1. Len(listeners') = 1 /\ l = 1
    <3>1. Len(listeners') = Len(listeners) /\ Len(listeners) <= 1
      BY <1>4, OtherStoreOf DEF One
    <3> QED BY <1>1, <3>1
  <2>2. \/ /\ e \in State /\ state' = state /\ drawn' = drawn
           /\ reordered' = (reordered \/ (e.token = d.token /\ e.frame < d.frame))
        \/ /\ e = d /\ reordered' = reordered /\ drawn' = drawn
           /\ state'.ball = state.ball \/ state'.ball = NoState \/ state'.ball = d
        \/ e = d /\ reordered' = reordered /\ state' = state /\ impl = "java" /\ drawn'.ball = state.ball
    BY <1>4, OtherStoreOf
  <2>3. ~reordered
    BY <2>2
  <2>4. drawn.ball.frame <= d.frame /\ state.ball.frame <= d.frame
        /\ (state.ball = NoState \/ drawn.ball.frame <= state.ball.frame)
    BY <2>3 DEF Forward
  <2>5. d \in Part /\ e \in Part /\ d.frame \in Nat /\ e.frame \in Nat
    BY <1>4, OtherStoreOf, FramesAreNumbers
  <2>6. OfJoined(d, joins') /\ OfJoined(e, joins')
    <3>1. Games' /\ joins' = joins
      BY <1>4, GamesStep, StoreKeeps DEF StoreSteps
    <3>2. OfJoined(e, joins')
      BY <2>1, <3>1 DEF Games
    <3>3. OfJoined(d, joins)
      BY DEF Games
    <3> QED BY <3>1, <3>2, <3>3
  <2>7. joins' = joins
    BY <1>4, StoreKeeps DEF StoreSteps
  <2>8. NoState.frame = 0 /\ impl # "python"
    BY TokenFacts
  <2> SUFFICES /\ drawn'.ball.frame <= e.frame /\ state'.ball.frame <= e.frame
               /\ state'.ball = NoState \/ drawn'.ball.frame <= state'.ball.frame
    BY <1>0, <2>1 DEF Forward
  <2> HIDE DEF d, e
  <2>9. CASE /\ e \in State /\ state' = state /\ drawn' = drawn
             /\ reordered' = (reordered \/ (e.token = d.token /\ e.frame < d.frame))
    <3>1. d.frame <= e.frame
      <4>1. CASE d = NoState
        BY <2>5, <2>8, <4>1
      <4>2. CASE d # NoState
        <5>1. e.token = d.token
          BY <2>5, <2>6, <2>7, <2>9, <4>2, SameGame
        <5>2. ~(e.token = d.token /\ e.frame < d.frame)
          BY <2>9
        <5> QED BY <2>5, <5>1, <5>2
      <4> QED BY <4>1, <4>2
    <3> QED BY <1>1, <2>4, <2>5, <2>9, <3>1
  <2>10. CASE /\ e = d /\ drawn' = drawn
              /\ state'.ball = state.ball \/ state'.ball = NoState \/ state'.ball = d
    BY <1>1, <2>4, <2>5, <2>8, <2>10
  <2>11. CASE e = d /\ state' = state /\ impl = "java" /\ drawn'.ball = state.ball
    BY <1>1, <2>4, <2>5, <2>11
  <2> QED BY <2>2, <2>9, <2>10, <2>11
<1>5. CASE UiSteps
  <2>1. state' = state /\ listeners' = listeners /\ reordered' = reordered
    BY <1>5, UiKeeps
  <2>2. drawn' = drawn \/ drawn' = [drawn EXCEPT !.paddles = state.paddles]
        \/ (Drawing /\ drawn' = [drawn EXCEPT !.ball = state.ball])
    BY <1>5, DrawOf DEF SameDraw
  <2>3. CASE drawn' = drawn \/ drawn' = [drawn EXCEPT !.paddles = state.paddles]
    <3>1. drawn'.ball = drawn.ball
      BY <1>1, <2>3
    <3> QED BY <1>2, <2>1, <3>1
  <2>4. CASE drawn' = [drawn EXCEPT !.ball = state.ball]
    <3>1. drawn'.ball = state.ball
      BY <1>1, <2>4
    <3> QED BY <1>0, <1>1, <2>1, <3>1 DEF Forward
  <2> QED BY <2>2, <2>3, <2>4
<1> QED BY <1>2, <1>3, <1>4, <1>5, OthersKeep, StepOf DEF StoreSteps

-----------------------------------------------------------------------------
(* What the screen shows of one game. *)

\* The client's whole invariant.
ClientInv == PythonInv /\ Games /\ Stored /\ Shown /\ Forward

\* It holds at first.
LEMMA ClientInvInit ==
  ASSUME Init
  PROVE  ClientInv
<1>1. /\ state = [ball |-> NoState, paddles |-> NoState] /\ drawn = [ball |-> NoState, paddles |-> NoState]
      /\ last_frame = 0 /\ last_processed = 0 /\ listeners = <<>> /\ joins = {} /\ frames = [t \in Token |-> 0]
      /\ ui.steps = <<>>
  BY DEF Init, IdleUi
<1>2. state.ball = NoState /\ drawn.ball = NoState /\ drawn.paddles = NoState /\ NoState.frame = 0
      /\ Len(listeners) = 0 /\ ~Drawing
  BY <1>1, TokenFacts, EmptySeq DEF Drawing
<1>3. Games
  BY <1>1, <1>2, FS_EmptySet DEF Games, OfJoined
<1>4. Stored /\ Shown /\ Forward
  BY <1>1, <1>2 DEF Stored, Shown, Forward
<1> QED BY <1>3, <1>4, PythonInvInit DEF ClientInv

\* Nothing changes in a stutter.
LEMMA ClientInvStutter ==
  ASSUME ClientInv, UNCHANGED vars
  PROVE  ClientInv'
<1>1. /\ impl' = impl /\ listeners' = listeners /\ state' = state /\ last_frame' = last_frame
      /\ drawn' = drawn /\ raced' = raced /\ frozen' = frozen /\ ui' = ui /\ last_processed' = last_processed
      /\ joins' = joins /\ frames' = frames /\ reordered' = reordered
  BY DEF vars, storeVars, drawVars, processVars, serverVars
<1>2. Games'
  BY <1>1 DEF ClientInv, Games, OfJoined
<1>3. Stored' /\ Forward'
  BY <1>1 DEF ClientInv, Stored, Forward, One
<1>4. Shown'
  BY <1>1 DEF ClientInv, Shown, One, Drawing
<1> QED BY <1>2, <1>3, <1>4, PythonInvStutter DEF ClientInv

\* A step keeps it.
LEMMA ClientInvStep ==
  ASSUME ClientInv, Next
  PROVE  ClientInv'
<1>1. Types /\ MatchInv /\ Announced /\ Frozen /\ Games /\ Stored /\ Shown /\ Forward
  BY DEF ClientInv, PythonInv, MatchInv
<1>2. MatchInv' /\ Announced' /\ Frozen'
  BY <1>1, MatchInvStep, AnnouncedStep, FrozenStep
<1>3. Games' /\ Stored' /\ Shown' /\ Forward'
  BY <1>1, GamesStep, StoredStep, ShownStep, ForwardStep
<1> QED BY <1>2, <1>3 DEF ClientInv, PythonInv

\* ClientInv is an invariant.
LEMMA ClientInvariant == Spec => []ClientInv
BY ClientInvInit, ClientInvStep, ClientInvStutter, PTL DEF Spec

\* FrozenOnlyAtFirstFrame: an exception ends update_loop only when last_frame
\* was read within the store of the first State, and nothing was drawn before.
THEOREM WindowFreezesOnlyAtFirstFrame == Spec => []FrozenOnlyAtFirstFrame
<1>1. ClientInv => FrozenOnlyAtFirstFrame
  BY DEF ClientInv, PythonInv, Frozen, FrozenOnlyAtFirstFrame
<1> QED BY <1>1, ClientInvariant, PTL

\* StaleOnlyByRace: a Python window that has nothing left to draw shows the
\* last State that was stored, unless its drawing began within the store.
THEOREM WindowShowsTheLastState == Spec => []StaleOnlyByRace
<1>1. ClientInv => StaleOnlyByRace
  <2> SUFFICES ASSUME ClientInv, impl = "python", OneGame, Idle(ui), last_processed = last_frame, ~frozen, ~raced
               PROVE  drawn = state
    BY DEF StaleOnlyByRace
  <2>1. One /\ ~Drawing
    BY OneGameIsOne DEF ClientInv, Idle, Drawing
  <2>2. drawn.ball = state.ball /\ drawn.paddles = state.ball /\ state.paddles = state.ball
    BY <2>1 DEF ClientInv, PythonInv, Shown, Announced
  <2>3. drawn \in [ball : Part, paddles : Part] /\ state \in [ball : Part, paddles : Part]
    BY DEF ClientInv, PythonInv, MatchInv, Types, StoreTypes
  <2> QED BY <2>2, <2>3
<1> QED BY <1>1, ClientInvariant, PTL

\* ScreenNeverGoesBack: within a game the ball that is shown is never followed
\* by that of an older frame: in Python by the test of last_frame, in C++ and
\* Java as long as the network does not let a frame overtake another.
THEOREM ScreenShowsNewerFrames == Spec => ScreenNeverGoesBack
<1>1. ASSUME ClientInv, [Next]_vars, ~(UNCHANGED drawn), drawn'.ball.token = drawn.ball.token, OneGame,
             impl = "python" \/ ~reordered
      PROVE  drawn'.ball.frame >= drawn.ball.frame
  <2>1. Types /\ Announced /\ Shown /\ Forward /\ One
    BY <1>1, OneGameIsOne DEF ClientInv, PythonInv, MatchInv
  <2>2. Next
    BY <1>1 DEF vars, drawVars
  <2>3. /\ state.ball \in Part /\ drawn.ball \in Part /\ state.ball.frame \in Nat /\ drawn.ball.frame \in Nat
        /\ state \in [ball : Part, paddles : Part] /\ drawn \in [ball : Part, paddles : Part]
    BY <2>1, FramesAreNumbers DEF Types, StoreTypes
  <2>4. CASE Main \/ ReadSteps \/ MatchSteps \/ Environment
    BY <1>1, <2>1, <2>4, OthersKeep
  <2>5. ASSUME impl # "python", drawn'.ball = state.ball
        PROVE  drawn'.ball.frame >= drawn.ball.frame
    <3>1. state.ball = NoState \/ drawn.ball.frame <= state.ball.frame
      BY <1>1, <2>1, <2>5 DEF Forward
    <3>2. CASE state.ball = NoState
      <4>1. drawn.ball.token \notin Token
        BY <1>1, <2>5, <3>2, TokenFacts
      <4>2. drawn.ball = NoState
        BY <2>3, <4>1, TokenFacts DEF Part
      <4> QED BY <2>3, <2>5, <3>2, <4>2
    <3> QED BY <2>3, <2>5, <3>1, <3>2
  <2>6. ASSUME NEW l \in 1 .. Len(listeners), ListenServer(l)
        PROVE  drawn'.ball.frame >= drawn.ball.frame
    <3>1. impl # "python"
      BY <1>1, <2>1, <2>6, PythonStoreOf
    <3>2. drawn'.ball = state.ball
      BY <1>1, <2>1, <2>6, <3>1, OtherStoreOf
    <3> QED BY <2>5, <3>1, <3>2
  <2>7. CASE UiSteps
    <3>1. \/ drawn' = [drawn EXCEPT !.paddles = state.paddles]
          \/ drawn' = [drawn EXCEPT !.ball = state.ball]
      BY <1>1, <2>1, <2>7, DrawOf DEF SameDraw
    <3>2. CASE drawn' = [drawn EXCEPT !.paddles = state.paddles]
      <4>1. drawn'.ball = drawn.ball
        BY <2>3, <3>2
      <4> QED BY <2>3, <4>1
    <3>3. CASE drawn' = [drawn EXCEPT !.ball = state.ball]
      <4>1. drawn'.ball = state.ball
        BY <2>3, <3>3
      <4>2. CASE impl = "python"
        <5>1. Drawing
          BY <1>1, <2>1, <2>7, <3>3, <4>1, DrawOf DEF SameDraw
        <5> QED BY <2>1, <2>3, <4>1, <4>2 DEF Shown
      <4> QED BY <2>5, <4>1, <4>2
    <3> QED BY <3>1, <3>2, <3>3
  <2> QED BY <2>2, <2>4, <2>6, <2>7, StepOf DEF StoreSteps
<1>2. ClientInv /\ [Next]_vars =>
        [/\ drawn'.ball.token = drawn.ball.token
         /\ OneGame
         /\ impl = "python" \/ ~reordered
         => drawn'.ball.frame >= drawn.ball.frame]_drawn
  BY <1>1
<1> QED BY <1>2, ClientInvariant, PTL DEF Spec, ScreenNeverGoesBack

-----------------------------------------------------------------------------
(* The types of everything. *)

\* What Types leaves out, and the bounds of the frames.
Kinds ==
  /\ impl \in Implementation /\ window \in {"connected", "socket", "open"}
  /\ coordinator \in {"up", "gone"}
  /\ unsought \subseteq offered
  /\ \A m \in joins : {m.token, m.to} \subseteq Token \cup {None, Torn}
  /\ frames \in [Token -> 0 .. MaxFrame]
  /\ last_frame \in 0 .. MaxFrame /\ last_processed \in 0 .. MaxFrame
  /\ {reordered, raced, frozen, ended} \subseteq BOOLEAN

\* The environment keeps to the bound on frames.
LEMMA EnvironmentKinds ==
  ASSUME Kinds, Environment
  PROVE  Kinds'
<1>1. CASE CoordinatorEnds
  BY <1>1 DEF Kinds, CoordinatorEnds, fields, serverVars, storeVars, drawVars, processVars
<1>2. ASSUME NEW t \in Token, OfferMatch(t)
      PROVE  Kinds'
  <2>1. unsought' \subseteq offered'
    BY <1>2 DEF Kinds, OfferMatch
  <2>2. /\ impl' = impl /\ window' = window /\ coordinator' = coordinator /\ joins' = joins
        /\ frames' = frames /\ last_frame' = last_frame /\ last_processed' = last_processed
        /\ reordered' = reordered /\ raced' = raced /\ frozen' = frozen /\ ended' = ended
    BY <1>2 DEF OfferMatch, fields, serverVars, storeVars, drawVars, processVars
  <2> QED BY <2>1, <2>2 DEF Kinds
<1>3. ASSUME NEW t \in Token, ServerSends(t)
      PROVE  Kinds'
  <2>1. frames' = [frames EXCEPT ![t] = @ + 1] /\ frames[t] < MaxFrame
    BY <1>3 DEF ServerSends
  <2>2. frames' \in [Token -> 0 .. MaxFrame]
    BY <2>1, ClientAssumption DEF Kinds
  <2>3. /\ impl' = impl /\ window' = window /\ coordinator' = coordinator /\ joins' = joins
        /\ unsought' = unsought /\ offered' = offered
        /\ last_frame' = last_frame /\ last_processed' = last_processed
        /\ reordered' = reordered /\ raced' = raced /\ frozen' = frozen /\ ended' = ended
    BY <1>3 DEF ServerSends, fields, coordinatorVars, storeVars, drawVars, processVars
  <2> QED BY <2>2, <2>3 DEF Kinds
<1> QED BY <1>1, <1>2, <1>3 DEF Environment

\* What the threads that touch no frame leave alone.
LEMMA HandlersKeep ==
  ASSUME ReadSteps \/ MatchSteps \/ StoreSteps \/ UiSteps
  PROVE  /\ window' = window /\ coordinator' = coordinator /\ ended' = ended
         /\ unsought' = unsought /\ offered' = offered /\ impl' = impl /\ frames' = frames
<1>1. coordinator' = coordinator /\ ended' = ended
  <2>1. CASE ReadSteps
    BY <2>1 DEF ReadSteps, ReadMatch, processVars
  <2>2. CASE MatchSteps
    BY <2>2 DEF MatchSteps, WriteToken, WriteAddress, SendJoin, StartListener, coordinatorVars, processVars
  <2>3. ASSUME NEW l, ListenServer(l)
        PROVE  coordinator' = coordinator /\ ended' = ended
    <3>1. CASE \E d \in State : Receive(l, d)
      BY <3>1 DEF Receive, coordinatorVars, processVars
    <3>2. CASE StoreStep(l)
      BY <3>2 DEF StoreStep, Test, StoreState, StoreFrame, UpdateScreen, coordinatorVars, processVars
    <3> QED BY <2>3, <3>1, <3>2 DEF ListenServer
  <2>4. CASE UiSteps
    BY <2>4 DEF UiSteps, Key, BeginDraw, UiStep, MoveStep, SendMovement, TestFresh, NoteProcessed, DrawPart,
       coordinatorVars, processVars
  <2> QED BY <2>1, <2>2, <2>3, <2>4 DEF StoreSteps
<1>2. /\ window' = window /\ impl' = impl /\ frames' = frames
      /\ unsought' = unsought /\ offered' = offered
  BY ReadKeeps, MatchKeeps, StoreKeeps, UiKeeps DEF StoreSteps
<1> QED BY <1>1, <1>2

\* The last frame a listener stores is one that was sent.
LEMMA StoreKinds ==
  ASSUME Types, Kinds, NEW l \in 1 .. Len(listeners), ListenServer(l)
  PROVE  last_frame' \in 0 .. MaxFrame /\ reordered' \in BOOLEAN
<1>1. MaxFrame \in Nat /\ last_frame \in 0 .. MaxFrame /\ reordered \in BOOLEAN
  BY ClientAssumption DEF Kinds
<1>2. listeners[l].got \in State => listeners[l].got.frame \in 0 .. MaxFrame
  BY <1>1 DEF State
<1>3. last_frame' = last_frame \/ (listeners[l].got \in State /\ last_frame' = listeners[l].got.frame)
  BY StoreOf
<1>4. reordered' \in BOOLEAN
  BY <1>1, StoreOf
<1> QED BY <1>1, <1>2, <1>3, <1>4

\* The window's thread notes a frame that was stored.
LEMMA UiKinds ==
  ASSUME Kinds, UiSteps
  PROVE  last_processed' \in {last_processed, last_frame} /\ {raced', frozen'} \subseteq BOOLEAN
<1>1. raced \in BOOLEAN /\ frozen \in BOOLEAN /\ WithinStore \in BOOLEAN
  BY DEF Kinds, WithinStore
<1>2. CASE Key \/ BeginDraw \/ MoveStep \/ SendMovement \/ TestFresh
  BY <1>1, <1>2 DEF Key, BeginDraw, MoveStep, SendMovement, TestFresh, drawVars
<1>3. CASE NoteProcessed
  BY <1>1, <1>3 DEF NoteProcessed
<1>4. CASE DrawPart
  <2>1. last_processed' = last_processed /\ raced' = raced
    BY <1>4 DEF DrawPart
  <2>2. frozen' = frozen \/ frozen' = TRUE
    BY <1>4 DEF DrawPart
  <2> QED BY <1>1, <2>1, <2>2
<1> QED BY <1>2, <1>3, <1>4 DEF UiSteps, UiStep

\* A step keeps Kinds.
LEMMA KindsStep ==
  ASSUME Types, Kinds, Next
  PROVE  Kinds'
<1>0. Kinds /\ Types
  OBVIOUS
<1>1. CASE Environment
  BY <1>1, EnvironmentKinds
<1>2. CASE Main
  BY <1>0, <1>2 DEF Kinds, Main, CreateSocket, SearchAndOpen, Cleanup, coordinatorVars, serverVars, storeVars, drawVars
<1>3. ASSUME ReadSteps \/ MatchSteps \/ StoreSteps \/ UiSteps,
             \A m \in joins' : {m.token, m.to} \subseteq Token \cup {None, Torn},
             last_frame' \in 0 .. MaxFrame, last_processed' \in 0 .. MaxFrame,
             {reordered', raced', frozen'} \subseteq BOOLEAN
      PROVE  Kinds'
  BY <1>3, HandlersKeep DEF Kinds
<1>4. CASE ReadSteps
  <2>1. joins' = joins /\ last_frame' = last_frame /\ last_processed' = last_processed
        /\ reordered' = reordered /\ raced' = raced /\ frozen' = frozen
    BY <1>4, ReadKeeps
  <2> QED BY <1>3, <1>4, <2>1 DEF Kinds
<1>5. CASE MatchSteps
  <2>1. /\ last_frame' = last_frame /\ last_processed' = last_processed
        /\ reordered' = reordered /\ raced' = raced /\ frozen' = frozen
        /\ joins' = joins \/ joins' = joins \cup {[token |-> token, to |-> address]}
    BY <1>5, MatchKeeps
  <2>2. \A m \in joins' : {m.token, m.to} \subseteq Token \cup {None, Torn}
    BY <2>1 DEF Kinds, Types, MatchTypes
  <2> QED BY <1>3, <1>5, <2>1, <2>2 DEF Kinds
<1>6. ASSUME NEW l \in 1 .. Len(listeners), ListenServer(l)
      PROVE  Kinds'
  <2>1. joins' = joins /\ last_processed' = last_processed /\ raced' = raced /\ frozen' = frozen
    BY <1>6, StoreKeeps
  <2>2. last_frame' \in 0 .. MaxFrame /\ reordered' \in BOOLEAN
    BY <1>6, StoreKinds
  <2> QED BY <1>3, <1>6, <2>1, <2>2 DEF Kinds, StoreSteps
<1>7. CASE UiSteps
  <2>1. joins' = joins /\ last_frame' = last_frame /\ reordered' = reordered
    BY <1>7, UiKeeps
  <2> QED BY <1>3, <1>7, <2>1, UiKinds DEF Kinds
<1> QED BY <1>1, <1>2, <1>4, <1>5, <1>6, <1>7, StepOf DEF StoreSteps

\* TypeOK of the client: besides the types, a Match was offered before it is
\* handled, and no frame is noted that no server sent.
THEOREM ClientTypeCorrect == Spec => []TypeOK
<1>1. Init => Kinds
  <2> SUFFICES ASSUME Init
               PROVE  Kinds
    OBVIOUS
  <2>1. /\ impl \in Implementation /\ window \in {"connected", "socket", "open"} /\ coordinator = "up"
        /\ offered = {} /\ unsought = {} /\ joins = {} /\ frames = [t \in Token |-> 0]
        /\ last_frame = 0 /\ last_processed = 0
        /\ reordered = FALSE /\ raced = FALSE /\ frozen = FALSE /\ ended = FALSE
    BY DEF Init
  <2>2. 0 \in 0 .. MaxFrame
    BY ClientAssumption
  <2> QED BY <2>1, <2>2 DEF Kinds
<1>2. ASSUME Kinds, UNCHANGED vars
      PROVE  Kinds'
  BY <1>2 DEF Kinds, vars, coordinatorVars, serverVars, storeVars, drawVars, processVars
<1>3. MatchInv /\ Kinds /\ [Next]_vars => Kinds'
  BY <1>2, KindsStep DEF MatchInv
<1>4. MatchInv /\ Kinds => TypeOK
  <2> SUFFICES ASSUME MatchInv, Kinds
               PROVE  TypeOK
    OBVIOUS
  <2>1. MatchTypes /\ UiTypes /\ StoreTypes
    BY DEF MatchInv, Types
  <2>2. stream \in Seq(Token)
    BY <2>1, SeqMonotonic DEF MatchTypes
  <2>3. \A l \in 1 .. Len(listeners) : listeners[l].got \in Part
    BY <2>1, ElementOfSeq DEF StoreTypes, Listener
  <2>4. \A m \in joins \cup {Movement} : {m.token, m.to} \subseteq Token \cup {None, Torn}
    <3>1. Movement.token \in Token \cup {None, Torn} /\ Movement.to \in Token \cup {None, Torn}
      BY <2>1 DEF Movement, UiTypes, MatchTypes
    <3> QED BY <3>1 DEF Kinds
  <2>5. ui.overlap \in BOOLEAN
    BY <2>1 DEF UiTypes
  <2>6. match.token \in offered \cup {None} /\ offered \subseteq Token
        /\ token \in Token \cup {None, Torn} /\ address \in Token \cup {None, Torn}
    BY <2>1 DEF MatchTypes
  <2>7. state \in [ball : Part, paddles : Part] /\ drawn \in [ball : Part, paddles : Part]
    BY <2>1 DEF StoreTypes
  <2> QED BY <2>2, <2>3, <2>4, <2>5, <2>6, <2>7 DEF Kinds, TypeOK
<1> QED BY <1>1, <1>3, <1>4, MatchInvariant, PTL DEF Spec

=============================================================================
