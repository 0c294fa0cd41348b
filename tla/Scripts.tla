------------------------------ MODULE Scripts ------------------------------
(***************************************************************************)
(* Scripts of one session (ScriptCmds.cpp, ScriptMap.cpp,                  *)
(* LuaInterpreter.cpp).  All scripts run in one interpreter, in the        *)
(* worker's thread.  redis.call executes a command through Handler and     *)
(* executeEndToEnd before it returns, and the command may be EVAL again.   *)
(*                                                                         *)
(* What a script does is a choice: which commands it calls, and whether it *)
(* fails or returns.  Of the values on the interpreter's stack the model   *)
(* keeps whose they are and whether they are tables with a field "ok" or   *)
(* "err", of which luaReplyToCommandResult pops one value too many.        *)
(***************************************************************************)
EXTENDS Naturals, SequencesExt

CONSTANTS
    Dbs,          \* the databases
    FirstDb,      \* the one that a session begins with
    MaxDepth,     \* bound: the scripts that run within each other
    MaxStack,     \* bound: the values on the stack between two scripts
    MaxResults    \* bound: the values that a script returns

ASSUME FirstDbAssumption == FirstDb \in Dbs
ASSUME BoundsAssumption == MaxDepth \in Nat /\ MaxStack \in Nat \ {0} /\ MaxResults \in Nat

VARIABLES
    selected,   \* the session's database
    loaded,     \* the databases whose ScriptMap has the script of EVALSHA
    frames,     \* the scripts that run, the innermost last
    handler,    \* spHandler: the depth of the script whose it is, 0 for nullptr
    args,       \* the depth of the script that KEYS and ARGV were last set for
    stack,      \* the interpreter's stack outside of any script
    answer,     \* whose value the client's last script was answered with
    crashed,    \* something undefined was done, after which nothing is known
    history     \* the database the client selected last, whether a script of its
                \* has failed since, and whether any has ever left values behind

ofScripts == <<frames, handler, args>>
vars == <<selected, loaded, ofScripts, stack, answer, crashed, history>>

\* nested: what has become of the last script that this one has called.
Frame == [saved : Dbs, nested : {"none", "unloaded", "returned", "failed"}]

\* The slot is the nil that stands for the function below the stack's base.
Value == [of : {"slot", "self", "leftover"}, status : BOOLEAN]

Depth == Len(frames)

TypeOK ==
    /\ selected \in Dbs
    /\ loaded \subseteq Dbs
    /\ frames \in Seq(Frame) /\ Depth <= MaxDepth
    /\ handler \in 0 .. MaxDepth
    /\ args \in 0 .. MaxDepth + 1
    /\ stack \in Seq(Value) /\ Len(stack) <= MaxStack
    /\ answer \in [of : {"none", "error", "slot", "self", "leftover"}, returned : BOOLEAN]
    /\ crashed \in BOOLEAN
    /\ history \in [chosen : Dbs, failed : BOOLEAN, littered : BOOLEAN]

Init ==
    /\ selected = FirstDb
    /\ loaded = {}
    /\ frames = <<>>
    /\ handler = 0
    /\ args = 0
    /\ stack = <<[of |-> "slot", status |-> FALSE]>>
    /\ answer = [of |-> "none", returned |-> FALSE]
    /\ crashed = FALSE
    /\ history = [chosen |-> FirstDb, failed |-> FALSE, littered |-> FALSE]

-----------------------------------------------------------------------------
(* Commands, of the client or of the innermost script.  redisCallImpl       *)
(* returns at once when there is no handler, and the call is lost.          *)

CanExecute == frames = <<>> \/ handler # 0

Select(d) ==
    /\ CanExecute
    /\ selected' = d
    /\ history' = IF frames = <<>> THEN [history EXCEPT !.chosen = d, !.failed = FALSE]
                                   ELSE history
    /\ UNCHANGED <<loaded, ofScripts, stack, answer, crashed>>

\* SCRIPT LOAD and SCRIPT FLUSH.
Script ==
    /\ CanExecute
    /\ loaded' \in {loaded \cup {selected}, loaded \ {selected}}
    /\ UNCHANGED <<selected, ofScripts, stack, answer, crashed, history>>

\* Of a call the first of the results is taken, which a blocking command that
\* waits has not given; and the handler of a script that has failed is gone.
UndefinedCall ==
    /\ frames # <<>>
    /\ handler # 0
    /\ crashed' = TRUE
    /\ UNCHANGED <<selected, loaded, ofScripts, stack, answer, history>>

-----------------------------------------------------------------------------
(* EVAL, and EVALSHA of a script that the database has: runScript.          *)

\* The frames once the innermost script is told what became of its call.
Told(fs, what) == IF fs = <<>> THEN fs ELSE [fs EXCEPT ![Len(fs)].nested = what]

\* A failure leaves its message, or the table that the script has thrown, on the
\* stack; a nested one leaves it on that of the call, which is given up.
Failed(status) ==
    IF Depth <= 1
       THEN /\ Len(stack) < MaxStack
            /\ stack' = Append(stack, [of |-> "leftover", status |-> status])
            /\ answer' = [of |-> "error", returned |-> FALSE]
            /\ history' = [history EXCEPT !.failed = TRUE, !.littered = TRUE]
       ELSE UNCHANGED <<stack, answer, history>>

\* EVALSHA of a script that another database may have.
NoScript ==
    /\ CanExecute
    /\ selected \notin loaded
    /\ answer' = IF frames = <<>> THEN [of |-> "error", returned |-> FALSE] ELSE answer
    /\ UNCHANGED <<selected, loaded, ofScripts, stack, crashed, history>>

\* Mutant of Unloaded: the handler is set before the script is loaded.
UnloadedLate ==
    /\ CanExecute
    /\ args' = Depth + 1
    /\ handler' = Depth + 1
    /\ frames' = Told(frames, "unloaded")
    /\ IF frames = <<>> THEN Failed(FALSE) ELSE UNCHANGED <<stack, answer, history>>
    /\ UNCHANGED <<selected, loaded, crashed>>

\* The arguments are set when luaL_loadstring refuses the script.
Unloaded ==
    /\ CanExecute
    /\ args' = Depth + 1
    /\ frames' = Told(frames, "unloaded")
    /\ IF frames = <<>> THEN Failed(FALSE) ELSE UNCHANGED <<stack, answer, history>>
    /\ UNCHANGED <<selected, loaded, handler, crashed>>

\* Mutant of Begin: a handler that is set is kept.
BeginOnce ==
    /\ CanExecute
    /\ Depth < MaxDepth
    /\ frames' = Append(frames, [saved |-> selected, nested |-> "none"])
    /\ handler' = IF handler = 0 THEN Depth + 1 ELSE handler
    /\ args' = Depth + 1
    /\ UNCHANGED <<selected, loaded, stack, answer, crashed, history>>

Begin ==
    /\ CanExecute
    /\ Depth < MaxDepth
    /\ frames' = Append(frames, [saved |-> selected, nested |-> "none"])
    /\ handler' = Depth + 1
    /\ args' = Depth + 1
    /\ UNCHANGED <<selected, loaded, stack, answer, crashed, history>>

\* EScriptFailed: neither the handler nor the database is put back.
Fail(status) ==
    /\ frames # <<>>
    /\ frames' = Told(Front(frames), "failed")
    /\ Failed(status)
    /\ UNCHANGED <<selected, loaded, handler, args, crashed>>

Pops(values) == IF Last(values).status THEN 2 ELSE 1

\* Mutant of Left: the result stays.
LeftAll(values) == [i \in DOMAIN values |-> [of |-> "leftover", status |-> values[i].status]]

\* What is left on the stack once the last of its values was the answer.
Left(values) ==
    [i \in 1 .. Len(values) - Pops(values) |->
        IF values[i].of = "self" THEN [values[i] EXCEPT !.of = "leftover"] ELSE values[i]]

\* luaReplyToCommandResult with the results of the client's script on the stack,
\* if there are any.  It may need more values than the array has.
Reply(results) ==
    LET values == stack \o [i \in DOMAIN results |-> [of |-> "self", status |-> results[i]]]
    IN  IF values = <<>> \/ Len(values) < Pops(values)
           THEN crashed' = TRUE /\ UNCHANGED <<stack, answer, history>>
           ELSE /\ Len(Left(values)) <= MaxStack
                /\ stack' = Left(values)
                /\ answer' = [of |-> Last(values).of, returned |-> results # <<>>]
                /\ history' = [history EXCEPT !.littered = @ \/ Len(results) > 1]
                /\ UNCHANGED crashed

\* An array that holds such a table has been popped itself by the time its next
\* element is asked for: lua_gettable indexes what lies below, unprotected.
UndefinedReply ==
    /\ frames # <<>>
    /\ crashed' = TRUE
    /\ UNCHANGED <<selected, loaded, ofScripts, stack, answer, history>>

\* Mutant of Restored: the database is not put back.
Kept(frame) == selected

Restored(frame) == frame.saved

\* A nested script's result is taken from the stack of the call that it is in.
Return(results) ==
    /\ frames # <<>>
    /\ frames' = Told(Front(frames), "returned")
    /\ handler' = 0
    /\ selected' = Restored(Last(frames))
    /\ IF Depth = 1 THEN Reply(results) ELSE UNCHANGED <<stack, answer, crashed, history>>
    /\ UNCHANGED <<loaded, args>>

-----------------------------------------------------------------------------

Results == UNION {[1 .. n -> BOOLEAN] : n \in 0 .. MaxResults}

Next ==
    /\ ~crashed
    /\ \/ \E d \in Dbs : Select(d)
       \/ Script
       \/ UndefinedCall
       \/ NoScript
       \/ Unloaded
       \/ Begin
       \/ \E status \in BOOLEAN : Fail(status)
       \/ \E results \in Results : Return(results)
       \/ UndefinedReply

Spec == Init /\ [][Next]_vars

-----------------------------------------------------------------------------
(* Properties.                                                             *)

\* A script that has called no other has its own arguments and its own handler,
\* so that each of its calls is executed, whatever scripts failed before it.  One
\* that has called another loses its arguments, and its handler if the other has
\* run.
ScriptsHaveTheirOwn ==
    frames # <<>> =>
        LET nested == Last(frames).nested
        IN  /\ nested = "none" => args = Depth /\ handler = Depth
            /\ nested = "unloaded" => args = Depth + 1 /\ handler >= Depth
            /\ nested = "returned" => args > Depth /\ handler = 0

\* Between two scripts the session works on the database that its client selected
\* last, whatever scripts selected within each other and how the inner ones ended,
\* unless one that the client sent has failed since.
SelectionIsKept == frames = <<>> /\ ~history.failed => selected = history.chosen

\* A client is answered with a value of its own script if that returns one, and
\* with what another has left only after one of the client's scripts has failed or
\* returned several values: nested ones leave nothing.
AnswersAreOwn ==
    /\ answer.returned => answer.of = "self"
    /\ answer.of = "leftover" => history.littered
=============================================================================
