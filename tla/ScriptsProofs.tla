--------------------------- MODULE ScriptsProofs ---------------------------
(***************************************************************************)
(* Theorems about Scripts, for any databases and bounds.                   *)
(***************************************************************************)
EXTENDS Scripts, TLAPS

-----------------------------------------------------------------------------
(* Frames.                                                                 *)

LEMMA FrontFrames ==
  ASSUME NEW fs \in Seq(Frame), fs # <<>>
  PROVE  /\ Front(fs) \in Seq(Frame)
         /\ Len(Front(fs)) = Len(fs) - 1
         /\ \A i \in 1 .. Len(fs) - 1 : Front(fs)[i] = fs[i]
         /\ Last(fs) = fs[Len(fs)] /\ Last(fs) \in Frame
<1> DEFINE n == Len(fs)
<1>1. n \in Nat \ {0} /\ n \in 1 .. n /\ \A i \in 1 .. n : fs[i] \in Frame
  OBVIOUS
<1>2. Front(fs) = [i \in 1 .. n - 1 |-> fs[i]]
  BY <1>1 DEF Front
<1>3. Front(fs) \in [1 .. n - 1 -> Frame] /\ n - 1 \in Nat
  BY <1>1, <1>2
<1>4. Front(fs) \in Seq(Frame) /\ Len(Front(fs)) = n - 1
  BY <1>3
<1> QED
  BY <1>1, <1>2, <1>4 DEF Last

\* The caller is told, and nothing else changes.
LEMMA ToldFrames ==
  ASSUME NEW fs \in Seq(Frame),
         NEW what \in {"unloaded", "returned", "failed"}
  PROVE  /\ Told(fs, what) \in Seq(Frame)
         /\ Len(Told(fs, what)) = Len(fs)
         /\ \A i \in 1 .. Len(fs) : Told(fs, what)[i].saved = fs[i].saved
         /\ fs # <<>> => Last(Told(fs, what)).nested = what
<1>1. CASE fs = <<>>
  BY <1>1 DEF Told
<1>2. CASE fs # <<>>
  <2> DEFINE n == Len(fs)
  <2>1. n \in 1 .. n /\ fs \in [1 .. n -> Frame] /\ n \in Nat
    BY <1>2
  <2>2. Told(fs, what) = [fs EXCEPT ![n] = [fs[n] EXCEPT !.nested = what]]
    BY <1>2 DEF Told
  <2>3. [fs[n] EXCEPT !.nested = what] \in Frame
    BY <2>1 DEF Frame
  <2>4. Told(fs, what) \in [1 .. n -> Frame]
    BY <2>1, <2>2, <2>3
  <2>5. Told(fs, what) \in Seq(Frame) /\ Len(Told(fs, what)) = n
    BY <2>1, <2>4
  <2>6. Told(fs, what)[n].nested = what /\ fs[n] \in Frame
    BY <2>1, <2>2 DEF Frame
  <2>7. \A i \in 1 .. n : Told(fs, what)[i].saved = fs[i].saved
    BY <2>1, <2>2 DEF Frame
  <2> QED
    BY <2>5, <2>6, <2>7 DEF Last
<1> QED
  BY <1>1, <1>2

LEMMA BegunFrames ==
  ASSUME NEW fs \in Seq(Frame), NEW f \in Frame
  PROVE  /\ Append(fs, f) \in Seq(Frame)
         /\ Len(Append(fs, f)) = Len(fs) + 1
         /\ \A i \in 1 .. Len(fs) : Append(fs, f)[i] = fs[i]
         /\ Last(Append(fs, f)) = f /\ Append(fs, f)[Len(fs) + 1] = f
BY DEF Last

-----------------------------------------------------------------------------
(* The invariant.                                                          *)

\* The innermost script as ScriptsHaveTheirOwn says; a handler that is set is that
\* of a script at least as deep.
FramesInv ==
    /\ ScriptsHaveTheirOwn
    /\ frames # <<>> => args >= Depth /\ (handler = 0 \/ handler >= Depth)

\* The outermost script has what is needed to put the database back.
SelectionInv ==
    /\ SelectionIsKept
    /\ frames # <<>> /\ ~history.failed => frames[1].saved = history.chosen

\* What lies on the stack is nobody's, or has been left there.
StackInv ==
    /\ AnswersAreOwn
    /\ \A i \in 1 .. Len(stack) :
          stack[i].of # "self" /\ (stack[i].of = "leftover" => history.littered)

ScriptsInv == TypeOK /\ FramesInv /\ SelectionInv /\ StackInv

LEMMA ScriptsInit == Init => ScriptsInv
<1> SUFFICES ASSUME Init PROVE ScriptsInv
  OBVIOUS
<1>1. stack \in Seq(Value) /\ Len(stack) = 1 /\ stack[1] = [of |-> "slot", status |-> FALSE]
  BY DEF Init, Value
<1>2. TypeOK
  <2>1. frames \in Seq(Frame) /\ Depth = 0
    BY DEF Init, Depth
  <2>2. Len(stack) <= MaxStack /\ handler \in 0 .. MaxDepth /\ args \in 0 .. MaxDepth + 1
        /\ Depth <= MaxDepth
    BY <1>1, <2>1, BoundsAssumption DEF Init
  <2> QED
    BY <1>1, <2>1, <2>2, FirstDbAssumption DEF Init, TypeOK
<1>3. FramesInv /\ SelectionInv
  BY DEF Init, FramesInv, SelectionInv, ScriptsHaveTheirOwn, SelectionIsKept
<1>4. StackInv
  BY <1>1 DEF Init, StackInv, AnswersAreOwn
<1> QED
  BY <1>2, <1>3, <1>4 DEF ScriptsInv

\* The steps that leave the scripts as they are.
LEMMA CommandStep ==
  ASSUME ScriptsInv,
         (\E d \in Dbs : Select(d)) \/ Script \/ UndefinedCall \/ NoScript \/ UndefinedReply
           \/ UNCHANGED vars
  PROVE  ScriptsInv'
<1>1. UNCHANGED ofScripts /\ UNCHANGED stack
  BY DEF Select, Script, UndefinedCall, NoScript, UndefinedReply, vars
<1>2. UNCHANGED <<frames, handler, args>>
  BY <1>1 DEF ofScripts
<1>3. CASE \E d \in Dbs : Select(d)
  <2>1. PICK d \in Dbs : Select(d)
    BY <1>3
  <2>2. selected' = d /\ UNCHANGED <<loaded, answer, crashed>>
    BY <2>1 DEF Select
  <2>3. history' \in [chosen : Dbs, failed : BOOLEAN, littered : BOOLEAN]
        /\ history'.littered = history.littered
        /\ IF frames = <<>> THEN history'.chosen = d ELSE history' = history
    BY <2>1 DEF Select, ScriptsInv, TypeOK
  <2>4. TypeOK'
    BY <1>1, <1>2, <2>2, <2>3 DEF ScriptsInv, TypeOK, Depth
  <2>5. FramesInv'
    BY <1>2 DEF ScriptsInv, FramesInv, ScriptsHaveTheirOwn, Depth
  <2>6. SelectionInv'
    BY <1>2, <2>2, <2>3 DEF ScriptsInv, SelectionInv, SelectionIsKept
  <2>7. StackInv'
    BY <1>1, <2>2, <2>3 DEF ScriptsInv, StackInv, AnswersAreOwn
  <2> QED
    BY <2>4, <2>5, <2>6, <2>7 DEF ScriptsInv
<1>4. CASE Script \/ UndefinedCall \/ NoScript \/ UndefinedReply \/ UNCHANGED vars
  <2>1. /\ UNCHANGED <<selected, history>>
        /\ loaded' \subseteq Dbs /\ crashed' \in BOOLEAN
        /\ answer' = answer \/ answer' = [of |-> "error", returned |-> FALSE]
    BY <1>4 DEF Script, UndefinedCall, NoScript, UndefinedReply, vars, ScriptsInv, TypeOK
  <2>2. TypeOK'
    <3>1. answer' \in [of : {"none", "error", "slot", "self", "leftover"}, returned : BOOLEAN]
      <4>1. [of |-> "error", returned |-> FALSE]
              \in [of : {"none", "error", "slot", "self", "leftover"}, returned : BOOLEAN]
        OBVIOUS
      <4>2. answer \in [of : {"none", "error", "slot", "self", "leftover"}, returned : BOOLEAN]
        BY DEF ScriptsInv, TypeOK
      <4> QED
        BY <2>1, <4>1, <4>2
    <3>2. selected' = selected /\ history' = history /\ Depth' = Depth
      BY <1>2, <2>1 DEF Depth
    <3> QED
      BY <1>1, <1>2, <2>1, <3>1, <3>2 DEF ScriptsInv, TypeOK
  <2>3. FramesInv'
    BY <1>2 DEF ScriptsInv, FramesInv, ScriptsHaveTheirOwn, Depth
  <2>4. SelectionInv'
    BY <1>2, <2>1 DEF ScriptsInv, SelectionInv, SelectionIsKept
  <2>5. StackInv'
    BY <1>1, <2>1 DEF ScriptsInv, StackInv, AnswersAreOwn
  <2> QED
    BY <2>2, <2>3, <2>4, <2>5 DEF ScriptsInv
<1> QED
  BY <1>3, <1>4

\* What a script that fails leaves behind.
LEMMA FailedStack ==
  ASSUME ScriptsInv, NEW status \in BOOLEAN, Failed(status)
  PROVE  /\ stack' \in Seq(Value) /\ Len(stack') <= MaxStack
         /\ answer' \in [of : {"none", "error", "slot", "self", "leftover"}, returned : BOOLEAN]
         /\ history' \in [chosen : Dbs, failed : BOOLEAN, littered : BOOLEAN]
         /\ history'.chosen = history.chosen
         /\ IF Depth <= 1 THEN history'.failed ELSE history' = history
         /\ StackInv'
<1>1. CASE Depth <= 1
  <2> DEFINE left == [of |-> "leftover", status |-> status]
  <2>1. left \in Value /\ Len(stack) < MaxStack /\ stack' = Append(stack, left)
    BY <1>1 DEF Failed, Value
  <2>2. stack \in Seq(Value) /\ Len(stack) \in Nat /\ MaxStack \in Nat
    BY BoundsAssumption DEF ScriptsInv, TypeOK
  <2> HIDE DEF left
  <2>3. /\ stack' \in Seq(Value) /\ Len(stack') = Len(stack) + 1
        /\ \A i \in 1 .. Len(stack) : stack'[i] = stack[i]
        /\ stack'[Len(stack) + 1] = left
    BY <2>1, <2>2
  <2>4. answer' = [of |-> "error", returned |-> FALSE]
        /\ history' = [history EXCEPT !.failed = TRUE, !.littered = TRUE]
    BY <1>1 DEF Failed
  <2>5. history' \in [chosen : Dbs, failed : BOOLEAN, littered : BOOLEAN]
        /\ history'.chosen = history.chosen /\ history'.failed /\ history'.littered
    BY <2>4 DEF ScriptsInv, TypeOK
  <2>6. left.of = "leftover"
    BY DEF left
  <2>7. \A i \in 1 .. Len(stack') : stack'[i].of # "self"
    BY <2>2, <2>3, <2>6 DEF ScriptsInv, StackInv
  <2>8. StackInv'
    BY <2>4, <2>5, <2>7 DEF StackInv, AnswersAreOwn
  <2> QED
    BY <1>1, <2>1, <2>2, <2>3, <2>4, <2>5, <2>8
<1>2. CASE ~(Depth <= 1)
  <2>1. UNCHANGED <<stack, answer, history>>
    BY <1>2 DEF Failed
  <2> QED
    BY <1>2, <2>1 DEF ScriptsInv, TypeOK, StackInv, AnswersAreOwn
<1> QED
  BY <1>1, <1>2

LEMMA UnloadedStep ==
  ASSUME ScriptsInv, Unloaded
  PROVE  ScriptsInv'
<1>1. /\ args' = Depth + 1 /\ frames' = Told(frames, "unloaded")
      /\ UNCHANGED <<selected, loaded, handler, crashed>>
      /\ CanExecute
  BY DEF Unloaded
<1>2. /\ frames' \in Seq(Frame) /\ Len(frames') = Len(frames) /\ Len(frames) \in Nat
      /\ frames # <<>> => frames' # <<>> /\ frames'[1].saved = frames[1].saved
                          /\ Last(frames').nested = "unloaded"
      /\ frames = <<>> => frames' = <<>>
  <2>1. frames \in Seq(Frame)
    BY DEF ScriptsInv, TypeOK
  <2> QED
    BY <1>1, <2>1, ToldFrames
<1>3. /\ stack' \in Seq(Value) /\ Len(stack') <= MaxStack
      /\ answer' \in [of : {"none", "error", "slot", "self", "leftover"}, returned : BOOLEAN]
      /\ history' \in [chosen : Dbs, failed : BOOLEAN, littered : BOOLEAN]
      /\ history'.chosen = history.chosen
      /\ IF frames = <<>> THEN history'.failed ELSE history' = history
      /\ StackInv'
  <2>1. CASE frames = <<>>
    <3>1. Failed(FALSE)
      BY <2>1, Zenon DEF Unloaded
    <3>2. Depth <= 1
      BY <2>1 DEF Depth
    <3> QED
      BY <2>1, <3>1, <3>2, FailedStack
  <2>2. CASE frames # <<>>
    BY <2>2 DEF Unloaded, ScriptsInv, TypeOK, StackInv, AnswersAreOwn
  <2> QED
    BY <2>1, <2>2
<1>4. TypeOK'
  <2>1. args' \in 0 .. MaxDepth + 1 /\ Depth' <= MaxDepth
    BY <1>1, <1>2, BoundsAssumption DEF ScriptsInv, TypeOK, Depth
  <2> QED
    BY <1>1, <1>2, <1>3, <2>1 DEF ScriptsInv, TypeOK
<1>5. FramesInv'
  BY <1>1, <1>2 DEF ScriptsInv, FramesInv, ScriptsHaveTheirOwn, Depth, CanExecute, TypeOK
<1>6. SelectionInv'
  BY <1>1, <1>2, <1>3 DEF ScriptsInv, SelectionInv, SelectionIsKept
<1> QED
  BY <1>3, <1>4, <1>5, <1>6 DEF ScriptsInv

LEMMA BeginStep ==
  ASSUME ScriptsInv, Begin
  PROVE  ScriptsInv'
<1> DEFINE f == [saved |-> selected, nested |-> "none"]
<1>1. /\ frames' = Append(frames, f) /\ handler' = Depth + 1 /\ args' = Depth + 1
      /\ Depth < MaxDepth
      /\ UNCHANGED <<selected, loaded, stack, answer, crashed, history>>
  BY DEF Begin
<1>2. f \in Frame /\ frames \in Seq(Frame) /\ Len(frames) \in Nat /\ MaxDepth \in Nat
  BY BoundsAssumption DEF ScriptsInv, TypeOK, Frame
<1>3. f.saved = selected /\ f.nested = "none"
  OBVIOUS
<1> HIDE DEF f
<1>4. /\ frames' \in Seq(Frame) /\ Len(frames') = Len(frames) + 1 /\ frames' # <<>>
      /\ Last(frames') = f
      /\ IF frames = <<>> THEN frames'[1] = f ELSE frames'[1] = frames[1]
  BY <1>1, <1>2, BegunFrames
<1>5. TypeOK'
  BY <1>1, <1>2, <1>4 DEF ScriptsInv, TypeOK, Depth
<1>6. FramesInv'
  BY <1>1, <1>2, <1>3, <1>4 DEF FramesInv, ScriptsHaveTheirOwn, Depth
<1>7. SelectionInv'
  BY <1>1, <1>3, <1>4 DEF ScriptsInv, SelectionInv, SelectionIsKept
<1>8. StackInv'
  BY <1>1 DEF ScriptsInv, StackInv, AnswersAreOwn
<1> QED
  BY <1>5, <1>6, <1>7, <1>8 DEF ScriptsInv

\* The frames once the innermost script has ended.
LEMMA EndedFrames ==
  ASSUME ScriptsInv, frames # <<>>, NEW what \in {"returned", "failed"},
         frames' = Told(Front(frames), what)
  PROVE  /\ frames' \in Seq(Frame) /\ Len(frames') = Len(frames) - 1
         /\ Len(frames) \in Nat \ {0}
         /\ frames' = <<>> <=> Len(frames) = 1
         /\ frames' # <<>> => frames'[1].saved = frames[1].saved /\ Last(frames').nested = what
<1>1. frames \in Seq(Frame) /\ Len(frames) \in Nat \ {0}
  BY DEF ScriptsInv, TypeOK
<1>2. /\ Front(frames) \in Seq(Frame) /\ Len(Front(frames)) = Len(frames) - 1
      /\ \A i \in 1 .. Len(frames) - 1 : Front(frames)[i] = frames[i]
  BY <1>1, FrontFrames
<1>3. /\ frames' \in Seq(Frame) /\ Len(frames') = Len(frames) - 1
      /\ \A i \in 1 .. Len(frames) - 1 : frames'[i].saved = Front(frames)[i].saved
      /\ Front(frames) # <<>> => Last(frames').nested = what
  <2> DEFINE front == Front(frames)
             told == Told(front, what)
  <2>1. front \in Seq(Frame) /\ Len(front) = Len(frames) - 1 /\ frames' = told
    BY <1>2
  <2> HIDE DEF front
  <2>2. /\ told \in Seq(Frame)
        /\ Len(told) = Len(front)
        /\ \A i \in 1 .. Len(front) : told[i].saved = front[i].saved
        /\ front # <<>> => Last(told).nested = what
    <3>1. what \in {"unloaded", "returned", "failed"}
      OBVIOUS
    <3> QED
      BY <2>1, <3>1, ToldFrames, Zenon
  <2> HIDE DEF told
  <2>3. \A i \in 1 .. Len(frames) - 1 : frames'[i].saved = front[i].saved
    BY <2>1, <2>2, Zenon
  <2>4. /\ frames' \in Seq(Frame) /\ Len(frames') = Len(frames) - 1
        /\ front # <<>> => Last(frames').nested = what
    BY <2>1, <2>2, Zenon
  <2> QED
    BY <2>3, <2>4, Zenon DEF front
<1>4. frames' = <<>> <=> Len(frames) = 1
  BY <1>1, <1>3
<1>5. ASSUME frames' # <<>>
      PROVE  frames'[1].saved = frames[1].saved /\ Last(frames').nested = what
  <2>1. Len(frames') # 0
    BY <1>3, <1>5
  <2>2. Front(frames) # <<>> /\ 1 \in 1 .. Len(frames) - 1
    BY <1>1, <1>2, <1>3, <2>1
  <2>3. frames'[1].saved = Front(frames)[1].saved
    BY <1>3, <2>2
  <2>4. Front(frames)[1] = frames[1]
    BY <1>2, <2>2
  <2> QED
    BY <1>3, <2>2, <2>3, <2>4
<1> QED
  BY <1>1, <1>3, <1>4, <1>5

LEMMA FailStep ==
  ASSUME ScriptsInv, NEW status \in BOOLEAN, Fail(status)
  PROVE  ScriptsInv'
<1>1. /\ frames # <<>> /\ frames' = Told(Front(frames), "failed") /\ Failed(status)
      /\ UNCHANGED <<selected, loaded, handler, args, crashed>>
  BY DEF Fail
<1>2. /\ frames' \in Seq(Frame) /\ Len(frames') = Len(frames) - 1
      /\ Len(frames) \in Nat \ {0}
      /\ frames' = <<>> <=> Len(frames) = 1
      /\ frames' # <<>> => frames'[1].saved = frames[1].saved /\ Last(frames').nested = "failed"
  BY <1>1, EndedFrames
<1>3. /\ stack' \in Seq(Value) /\ Len(stack') <= MaxStack
      /\ answer' \in [of : {"none", "error", "slot", "self", "leftover"}, returned : BOOLEAN]
      /\ history' \in [chosen : Dbs, failed : BOOLEAN, littered : BOOLEAN]
      /\ history'.chosen = history.chosen
      /\ IF Depth <= 1 THEN history'.failed ELSE history' = history
      /\ StackInv'
  BY <1>1, FailedStack
<1>4. TypeOK'
  BY <1>1, <1>2, <1>3, BoundsAssumption DEF ScriptsInv, TypeOK, Depth
<1>5. FramesInv'
  BY <1>1, <1>2 DEF ScriptsInv, FramesInv, ScriptsHaveTheirOwn, Depth, TypeOK
<1>6. SelectionInv'
  BY <1>1, <1>2, <1>3 DEF ScriptsInv, SelectionInv, SelectionIsKept, Depth
<1> QED
  BY <1>3, <1>4, <1>5, <1>6 DEF ScriptsInv

-----------------------------------------------------------------------------
(* The end of a script that returns.                                       *)

\* The stack of a client's script that has returned is one of values, and so is
\* what is left of it, none of which is the script's own any more.
LEMMA LeftValues ==
  ASSUME NEW vs \in Seq(Value), vs # <<>>, Pops(vs) <= Len(vs)
  PROVE  /\ Left(vs) \in Seq(Value)
         /\ Len(Left(vs)) = Len(vs) - Pops(vs)
         /\ \A i \in 1 .. Len(Left(vs)) :
               /\ i \in 1 .. Len(vs) - 1
               /\ Left(vs)[i].of = IF vs[i].of = "self" THEN "leftover" ELSE vs[i].of
<1> DEFINE n == Len(vs) - Pops(vs)
           left(i) == IF vs[i].of = "self" THEN [vs[i] EXCEPT !.of = "leftover"] ELSE vs[i]
<1>1. Len(vs) \in Nat \ {0} /\ \A i \in 1 .. Len(vs) : vs[i] \in Value
  OBVIOUS
<1>2. Pops(vs) \in {1, 2}
  BY DEF Pops
<1>3. n \in Nat /\ \A i \in 1 .. n : i \in 1 .. Len(vs) /\ i \in 1 .. Len(vs) - 1
  BY <1>1, <1>2
<1>4. ASSUME NEW i \in 1 .. n
      PROVE  left(i) \in Value
             /\ left(i).of = IF vs[i].of = "self" THEN "leftover" ELSE vs[i].of
  <2>1. vs[i] \in Value
    BY <1>1, <1>3
  <2> QED
    BY <2>1 DEF Value
<1>5. Left(vs) = [i \in 1 .. n |-> left(i)]
  BY DEF Left
<1> HIDE DEF left
<1>6. Left(vs) \in [1 .. n -> Value] /\ \A i \in 1 .. n : Left(vs)[i] = left(i)
  BY <1>4, <1>5
<1>7. Left(vs) \in Seq(Value) /\ Len(Left(vs)) = n
  BY <1>3, <1>6
<1> QED
  BY <1>3, <1>4, <1>6, <1>7

LEMMA ReplyStack ==
  ASSUME ScriptsInv, NEW results \in Results, Reply(results)
  PROVE  /\ stack' \in Seq(Value) /\ Len(stack') <= MaxStack
         /\ answer' \in [of : {"none", "error", "slot", "self", "leftover"}, returned : BOOLEAN]
         /\ crashed' \in BOOLEAN
         /\ history' \in [chosen : Dbs, failed : BOOLEAN, littered : BOOLEAN]
         /\ history'.chosen = history.chosen /\ history'.failed = history.failed
         /\ StackInv'
<1> DEFINE own == [i \in DOMAIN results |-> [of |-> "self", status |-> results[i]]]
           values == stack \o own
<1>1. PICK n \in 0 .. MaxResults : results \in [1 .. n -> BOOLEAN]
  BY DEF Results
<1>2. n \in Nat /\ MaxResults \in Nat
  BY <1>1, BoundsAssumption
<1>3. /\ own \in Seq(Value) /\ Len(own) = n
      /\ \A i \in 1 .. n : own[i].of = "self"
  <2>1. own \in [1 .. n -> Value] /\ \A i \in 1 .. n : own[i].of = "self"
    BY <1>1, Zenon DEF Value
  <2> QED
    BY <1>2, <2>1
<1>4. stack \in Seq(Value) /\ Len(stack) \in Nat /\ (results # <<>> <=> n # 0) /\ Len(results) = n
  BY <1>1, <1>2 DEF ScriptsInv, TypeOK
<1> HIDE DEF own
<1>5. /\ values \in Seq(Value) /\ Len(values) = Len(stack) + n
      /\ \A i \in 1 .. Len(stack) : values[i] = stack[i]
      /\ \A i \in 1 .. n : values[Len(stack) + i] = own[i]
  BY <1>2, <1>3, <1>4
<1>6. \A i \in 1 .. Len(stack) :
         stack[i].of # "self" /\ (stack[i].of = "leftover" => history.littered)
  BY DEF ScriptsInv, StackInv
<1> HIDE DEF values
<1>7. CASE values = <<>> \/ Len(values) < Pops(values)
  <2>1. crashed' = TRUE /\ UNCHANGED <<stack, answer, history>>
    BY <1>7 DEF Reply, values, own
  <2> QED
    BY <2>1 DEF ScriptsInv, TypeOK, StackInv, AnswersAreOwn
<1>8. CASE ~(values = <<>> \/ Len(values) < Pops(values))
  <2>1. /\ Len(Left(values)) <= MaxStack
        /\ stack' = Left(values)
        /\ answer' = [of |-> Last(values).of, returned |-> results # <<>>]
        /\ history' = [history EXCEPT !.littered = @ \/ Len(results) > 1]
        /\ UNCHANGED crashed
    BY <1>8 DEF Reply, values, own
  <2>2. values # <<>> /\ Pops(values) \in {1, 2} /\ Pops(values) <= Len(values)
        /\ Len(values) \in Nat \ {0}
    BY <1>2, <1>4, <1>5, <1>8 DEF Pops
  <2>3. /\ Left(values) \in Seq(Value)
        /\ \A i \in 1 .. Len(Left(values)) :
              /\ i \in 1 .. Len(values) - 1
              /\ Left(values)[i].of = IF values[i].of = "self" THEN "leftover" ELSE values[i].of
    BY <1>5, <2>2, LeftValues
  <2>4. /\ history'.chosen = history.chosen /\ history'.failed = history.failed
        /\ history'.littered = (history.littered \/ n > 1)
        /\ history' \in [chosen : Dbs, failed : BOOLEAN, littered : BOOLEAN]
    <3>1. history \in [chosen : Dbs, failed : BOOLEAN, littered : BOOLEAN]
      BY DEF ScriptsInv, TypeOK
    <3>2. history' = [history EXCEPT !.littered = history.littered \/ n > 1]
      BY <1>4, <2>1
    <3> HIDE DEF values
    <3>3. (history.littered \/ n > 1) \in BOOLEAN
      OBVIOUS
    <3> QED
      BY <3>1, <3>2, <3>3, Zenon
  \* The answer is the last value.
  <2>5. /\ Last(values) \in Value
        /\ n # 0 => Last(values).of = "self"
        /\ n = 0 => Last(values).of # "self"
                    /\ (Last(values).of = "leftover" => history.littered)
    <3>1. Last(values) = values[Len(values)] /\ Len(values) \in 1 .. Len(values)
      BY <2>2 DEF Last
    <3>2. Last(values) \in Value
      BY <1>5, <3>1
    <3>3. CASE n # 0
      BY <1>2, <1>3, <1>5, <3>1, <3>2, <3>3
    <3>4. CASE n = 0
      BY <1>4, <1>5, <1>6, <3>1, <3>2, <3>4
    <3> QED
      BY <3>2, <3>3, <3>4
  <2>6. answer' \in [of : {"none", "error", "slot", "self", "leftover"}, returned : BOOLEAN]
    <3>1. Last(values).of \in {"none", "error", "slot", "self", "leftover"}
      BY <2>5 DEF Value
    <3>2. (results # <<>>) \in BOOLEAN
      OBVIOUS
    <3> QED
      BY <2>1, <3>1, <3>2, Zenon
  <2>7. AnswersAreOwn'
    <3>1. answer'.returned = (results # <<>>) /\ answer'.of = Last(values).of
      BY <2>1
    <3> QED
      BY <1>4, <2>4, <2>5, <3>1 DEF AnswersAreOwn
  <2>8. ASSUME NEW i \in 1 .. Len(stack')
        PROVE  stack'[i].of # "self" /\ (stack'[i].of = "leftover" => history'.littered)
    <3>1. /\ i \in 1 .. Len(stack) + n - 1
          /\ stack'[i].of = IF values[i].of = "self" THEN "leftover" ELSE values[i].of
      BY <1>5, <2>1, <2>3
    <3>2. CASE i \in 1 .. Len(stack)
      BY <1>5, <1>6, <2>4, <3>1, <3>2
    <3>3. CASE i \notin 1 .. Len(stack)
      <4>1. n > 1
        BY <1>2, <1>4, <3>1, <3>3
      <4> QED
        BY <2>4, <3>1, <4>1
    <3> QED
      BY <3>2, <3>3
  <2>9. StackInv'
    BY <2>7, <2>8 DEF StackInv
  <2> QED
    BY <2>1, <2>3, <2>4, <2>6, <2>9 DEF ScriptsInv, TypeOK
<1> QED
  BY <1>7, <1>8

LEMMA ReturnStep ==
  ASSUME ScriptsInv, NEW results \in Results, Return(results)
  PROVE  ScriptsInv'
<1>1. /\ frames # <<>> /\ frames' = Told(Front(frames), "returned") /\ handler' = 0
      /\ selected' = Last(frames).saved
      /\ UNCHANGED <<loaded, args>>
  BY DEF Return, Restored
<1>2. /\ frames' \in Seq(Frame) /\ Len(frames') = Len(frames) - 1
      /\ Len(frames) \in Nat \ {0}
      /\ frames' = <<>> <=> Len(frames) = 1
      /\ frames' # <<>> => frames'[1].saved = frames[1].saved /\ Last(frames').nested = "returned"
  BY <1>1, EndedFrames
<1>3. Last(frames) = frames[Len(frames)] /\ Last(frames).saved \in Dbs
  <2>1. frames \in Seq(Frame)
    BY DEF ScriptsInv, TypeOK
  <2> QED
    BY <1>1, <2>1, FrontFrames DEF Frame
<1>4. /\ stack' \in Seq(Value) /\ Len(stack') <= MaxStack
      /\ answer' \in [of : {"none", "error", "slot", "self", "leftover"}, returned : BOOLEAN]
      /\ crashed' \in BOOLEAN
      /\ history' \in [chosen : Dbs, failed : BOOLEAN, littered : BOOLEAN]
      /\ history'.chosen = history.chosen /\ history'.failed = history.failed
      /\ StackInv'
  <2>1. CASE Depth = 1
    <3>1. Reply(results)
      BY <2>1, Zenon DEF Return
    <3> QED
      BY <3>1, ReplyStack
  <2>2. CASE Depth # 1
    BY <2>2 DEF Return, ScriptsInv, TypeOK, StackInv, AnswersAreOwn
  <2> QED
    BY <2>1, <2>2
<1>5. TypeOK'
  BY <1>1, <1>2, <1>3, <1>4, BoundsAssumption DEF ScriptsInv, TypeOK, Depth
<1>6. FramesInv'
  BY <1>1, <1>2 DEF ScriptsInv, FramesInv, ScriptsHaveTheirOwn, Depth, TypeOK
<1>7. SelectionInv'
  BY <1>1, <1>2, <1>3, <1>4 DEF ScriptsInv, SelectionInv, SelectionIsKept
<1> QED
  BY <1>4, <1>5, <1>6, <1>7 DEF ScriptsInv

-----------------------------------------------------------------------------
(* The theorems.                                                           *)

LEMMA ScriptsStep == ScriptsInv /\ [Next]_vars => ScriptsInv'
<1> SUFFICES ASSUME ScriptsInv, [Next]_vars PROVE ScriptsInv'
  OBVIOUS
<1>1. CASE (\E d \in Dbs : Select(d)) \/ Script \/ UndefinedCall \/ NoScript
             \/ UndefinedReply \/ UNCHANGED vars
  BY <1>1, CommandStep
<1>2. CASE Unloaded
  BY <1>2, UnloadedStep
<1>3. CASE Begin
  BY <1>3, BeginStep
<1>4. ASSUME NEW status \in BOOLEAN, Fail(status)
      PROVE  ScriptsInv'
  BY <1>4, FailStep
<1>5. ASSUME NEW results \in Results, Return(results)
      PROVE  ScriptsInv'
  BY <1>5, ReturnStep
<1> QED
  BY <1>1, <1>2, <1>3, <1>4, <1>5 DEF Next

LEMMA ScriptsAlways == Spec => []ScriptsInv
BY ScriptsInit, ScriptsStep, PTL DEF Spec

\* runScript and Handler keep the types of the interpreter's and the session's state.
THEOREM ScriptsTypes == Spec => []TypeOK
<1>1. ScriptsInv => TypeOK
  BY DEF ScriptsInv
<1> QED
  BY <1>1, ScriptsAlways, PTL

\* However deep scripts nest and however they fail, one that has called no other has
\* its own arguments and handler: the pointer that a failure leaves behind
\* (LuaInterpreter.cpp:345) is overwritten before it is used.
THEOREM HandlersAreOwn == Spec => []ScriptsHaveTheirOwn
<1>1. ScriptsInv => ScriptsHaveTheirOwn
  BY DEF ScriptsInv, FramesInv
<1> QED
  BY <1>1, ScriptsAlways, PTL

\* However many scripts select databases within each other, the client's database
\* is put back, unless the script that the client sent fails (ScriptCmds.cpp:82).
THEOREM SelectionSurvives == Spec => []SelectionIsKept
<1>1. ScriptsInv => SelectionIsKept
  BY DEF ScriptsInv, SelectionInv
<1> QED
  BY <1>1, ScriptsAlways, PTL

\* For a stack of any size and any number of results, a client is never answered
\* with another script's value instead of its own, nor with any unless a script
\* has left one behind.
THEOREM AnswersBelong == Spec => []AnswersAreOwn
<1>1. ScriptsInv => AnswersAreOwn
  BY DEF ScriptsInv, StackInv
<1> QED
  BY <1>1, ScriptsAlways, PTL
=============================================================================
