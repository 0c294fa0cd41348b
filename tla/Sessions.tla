------------------------------ MODULE Sessions ------------------------------
(***************************************************************************)
(* Several sessions and the worker: transactions with watched keys, and    *)
(* lists with clients that block on them (TransactionCmds.cpp, the list    *)
(* commands of ListCmds.cpp, Command::executeEndToEnd).                    *)
(*                                                                         *)
(* The worker executes one request at a time; EXEC executes its queue one  *)
(* command a step, between which clients may disconnect.  The requests of  *)
(* clients reach the worker in any order (RequestPipeline has their        *)
(* queue), those that a notification puts back in the order they were put. *)
(* That the session is looked up and then used is one step here: what may  *)
(* happen in between is RequestPipeline's.                                 *)
(***************************************************************************)
EXTENDS SessionContext

CONSTANTS
    Nobody,     \* whose EXEC the worker executes when it executes none
    Allowed,    \* the commands that clients send: their ops
    Garbage,    \* the values of a flag that nobody has initialised
    MaxQueue    \* bound: commands in a transaction

ASSUME NobodyAssumption == Nobody \notin Clients
ASSUME AllowedAssumption == Allowed \subseteq Ops
ASSUME GarbageAssumption == Garbage \subseteq BOOLEAN
ASSUME MaxQueueAssumption == MaxQueue \in Nat

VARIABLES
    server,    \* the contexts and what they share
    running,   \* whose EXEC the worker is in
    turn,      \* flips with each command of EXEC: one that is queued again is a step
    blocked    \* how many blocking commands each client has sent

vars == <<server, running, turn, blocked>>

ctx == server.ctx

TypeOK ==
    /\ server \in Server
    /\ running \in Clients \cup {Nobody}
    /\ turn \in BOOLEAN
    /\ blocked \in [Clients -> 0 .. MaxBlocking]

Init ==
    /\ server = EmptyServer
    /\ running = Nobody
    /\ turn = FALSE
    /\ blocked = [c \in Clients |-> 0]

-----------------------------------------------------------------------------
(* Lists.                                                                  *)

Has(s, c, k) == k \in s.lists[s.ctx[c].db]

\* The list has changed, and with it what those who watch it rely on.
Hit(x, k) == [x EXCEPT !.changed = @ \/ (k \in x.watched /\ ~x.multi)]

Changed(s, k) == [s EXCEPT !.ctx = [c \in Clients |-> Hit(s.ctx[c], k)]]

Push(s, c, k) == [Changed(s, k) EXCEPT !.lists[s.ctx[c].db] = @ \cup {k}]

\* The pop may have taken the last element.
Pop(s, c, k) ==
    {Changed(s, k), [Changed(s, k) EXCEPT !.lists[s.ctx[c].db] = @ \ {k}]}

\* The events of a push: list_new for the first element, then lpush.
PushAndFire(s, c, k) ==
    LET pushed == {Push(s, c, k)}
    IN  FireOn(IF Has(s, c, k) THEN pushed ELSE FireOn(pushed, k), k)

\* The events of a pop: del for the last element, then lpop or rpop.
PopAndFire(s, c, k) ==
    UNION {FireOn(IF Has(p, c, k) THEN {p} ELSE Fire(p, k), k) : p \in Pop(s, c, k)}

LPush(s, c, cmd) == PushAndFire(s, c, cmd.args[1])

LPop(s, c, cmd) ==
    IF Has(s, c, cmd.args[1]) THEN PopAndFire(s, c, cmd.args[1]) ELSE {s}

\* The destination's new element is announced as the source's.
RPopLPush(s, c, cmd) ==
    LET source == cmd.args[1]
    IN  IF Has(s, c, source)
           THEN UNION {Fire(Push(p, c, cmd.args[2]), source) : p \in PopAndFire(s, c, source)}
           ELSE {s}

\* A command with a timeout answers at once when the server is older than that.
TooLate(s, c, cmd) == IF cmd.timed THEN {Result(s, c, cmd)} ELSE {}

\* The first list that has elements is popped, without an event.
BLPop(s, c, cmd) ==
    LET full == {i \in DOMAIN cmd.args : Has(s, c, cmd.args[i])}
        first == CHOOSE i \in full : \A j \in full : i <= j
    IN  TooLate(s, c, cmd) \cup
        IF full = {}
           THEN {SetPending(s, c, cmd)}
           ELSE {Result(p, c, cmd) : p \in Pop(s, c, cmd.args[first])}

BRPopLPush(s, c, cmd) ==
    LET source == cmd.args[1]
    IN  TooLate(s, c, cmd) \cup
        IF Has(s, c, source)
           THEN {Result(p, c, cmd) :
                    p \in UNION {PushAndFire(q, c, cmd.args[2]) : q \in PopAndFire(s, c, source)}}
           ELSE {SetPending(s, c, cmd)}

-----------------------------------------------------------------------------
(* executeEndToEnd.                                                        *)

\* The execute of each command but EXEC.
Executed(s, c, cmd) ==
    CASE cmd.op = "LPUSH" -> LPush(s, c, cmd)
      [] cmd.op = "LPOP" -> LPop(s, c, cmd)
      [] cmd.op = "RPOPLPUSH" -> RPopLPush(s, c, cmd)
      [] cmd.op = "BLPOP" -> BLPop(s, c, cmd)
      [] cmd.op = "BRPOPLPUSH" -> BRPopLPush(s, c, cmd)
      [] cmd.op = "WATCH" -> {WatchKeys(s, c, ToSet(cmd.args))}
      [] cmd.op = "UNWATCH" -> {ClearWatchedKeys(s, c)}
      [] cmd.op = "MULTI" -> {[s EXCEPT !.ctx[c].multi = TRUE]}
      [] cmd.op = "DISCARD" -> {FinishTransaction(s, c)}
      [] cmd.op = "SELECT" -> {[s EXCEPT !.ctx[c].db = cmd.args[1]]}

\* EXEC and DISCARD are executed in a transaction, all others are queued.
Bypass == {"EXEC", "DISCARD"}

Queued(s, c, cmd) == s.ctx[c].multi /\ cmd.op \notin Bypass

EndToEnd(s, c, cmd) ==
    IF Queued(s, c, cmd)
       THEN {[s EXCEPT !.ctx[c].queue = Append(@, cmd)]}
       ELSE UNION {Executed(t, c, cmd) : t \in CheckPending(s, c)}

-----------------------------------------------------------------------------
(* Actions.                                                                *)

Up == server.process = "running"
Idle == Up /\ running = Nobody

\* A connection is accepted.
Connect(c) ==
    /\ Up
    /\ ctx[c].life = "new"
    /\ \E a, b \in Garbage : server' = [server EXCEPT !.ctx[c] = NewContext("open", a, b)]
    /\ UNCHANGED <<running, turn, blocked>>

\* The session leaves the map and is destroyed; its destructor unsubscribes,
\* which races with the worker's use of the subscribers.  When the worker runs
\* the session's own EXEC, the list that it iterates is destroyed too.
Disconnect(c) ==
    /\ Up
    /\ ctx[c].life = "open"
    /\ \/ server' = [server EXCEPT
             !.ctx[c] = [NewContext("gone", FALSE, FALSE) EXCEPT !.results = ctx[c].results],
             !.subscribers = IF ctx[c].subscribed THEN @ \ {c} ELSE @]
       \/ /\ ctx[c].subscribed \/ running = c
          /\ server' = [server EXCEPT !.process = "down"]
    /\ UNCHANGED <<running, turn, blocked>>

\* The arguments of each kind of command.
Args(op) ==
    CASE op \in {"LPUSH", "LPOP", "WATCH"} -> {<<k>> : k \in Keys}
      [] op = "BLPOP" -> {<<k>> : k \in Keys} \cup {p \in Keys \X Keys : p[1] # p[2]}
      [] op \in {"RPOPLPUSH", "BRPOPLPUSH"} -> Keys \X Keys
      [] op = "SELECT" -> {<<d>> : d \in Dbs}
      [] OTHER -> {<<>>}

\* The worker executes a request that a client has sent, other than EXEC.
Request(c, op) ==
    /\ Idle
    /\ ctx[c].life = "open"
    /\ op \in BlockingOps => blocked[c] < MaxBlocking
    /\ \E args \in Args(op), timed \in (IF op \in BlockingOps THEN BOOLEAN ELSE {FALSE}) :
          LET n == IF op \in BlockingOps THEN blocked[c] + 1 ELSE 0
              cmd == [op |-> op, args |-> args, n |-> n, timed |-> timed]
          IN  /\ Queued(server, c, cmd) => Len(ctx[c].queue) < MaxQueue
              /\ server' \in EndToEnd(server, c, cmd)
    /\ blocked' = IF op \in BlockingOps THEN [blocked EXCEPT ![c] = @ + 1] ELSE blocked
    /\ UNCHANGED <<running, turn>>

\* The worker takes a woken request.
TakeWoken ==
    /\ Idle
    /\ server.que # <<>>
    /\ LET r == Head(server.que)
           rest == [server EXCEPT !.que = Tail(@)]
       IN  IF ctx[r.client].life = "open"
              THEN server' \in EndToEnd(rest, r.client, r.cmd)
              ELSE server' = [rest EXCEPT !.process = "stalled"]
    /\ UNCHANGED <<running, turn, blocked>>

\* EXEC fails outside a transaction and in one that is aborted.
ExecRefused(c) ==
    /\ Idle
    /\ ctx[c].life = "open"
    /\ ~ctx[c].multi \/ ctx[c].aborted
    /\ \E s \in CheckPending(server, c) : server' = FinishTransaction(s, c)
    /\ UNCHANGED <<running, turn, blocked>>

ExecBegin(c) ==
    /\ Idle
    /\ ctx[c].life = "open"
    /\ ctx[c].multi /\ ~ctx[c].aborted
    /\ \E s \in CheckPending(server, c) : server' = [s EXCEPT !.ctx[c].multi = FALSE]
    /\ running' = c
    /\ UNCHANGED <<turn, blocked>>

\* The next command of the queue is executed end to end.  One that is queued
\* because a MULTI came before it goes to the end of the list being iterated.
ExecStep(c) ==
    /\ Up
    /\ running = c
    /\ ctx[c].life = "open"
    /\ ctx[c].queue # <<>>
    /\ server' \in EndToEnd([server EXCEPT !.ctx[c].queue = Tail(@)], c, Head(ctx[c].queue))
    /\ turn' = ~turn
    /\ UNCHANGED <<running, blocked>>

\* All have been executed, or the session has disappeared in between.
ExecEnd(c) ==
    /\ Up
    /\ running = c
    /\ ctx[c].queue = <<>> \/ ctx[c].life = "gone"
    /\ server' = FinishTransaction(server, c)
    /\ running' = Nobody
    /\ turn' = FALSE
    /\ UNCHANGED blocked

Exec(c) == "EXEC" \in Allowed /\ (ExecRefused(c) \/ ExecBegin(c))

Worker == TakeWoken \/ \E c \in Clients : ExecStep(c) \/ ExecEnd(c)

Next ==
    \/ \E c \in Clients :
          \/ Connect(c) \/ Disconnect(c) \/ Exec(c)
          \/ \E op \in Allowed \ {"EXEC"} : Request(c, op)
    \/ Worker

Spec == Init /\ [][Next]_vars

\* The worker is a thread of its own: it goes on with what it has.
FairSpec == Spec /\ WF_vars(Worker)

-----------------------------------------------------------------------------
(* Properties.                                                             *)

\* The sessions that are open and whose flags were zero to begin with.
Sound == {c \in Clients : ctx[c].life = "open" /\ ctx[c].clean}

\* A transaction counts as aborted exactly when a key it watches has changed
\* between WATCH and MULTI: no change is missed for want of a subscription, and
\* none outlives the WATCH it was about (SessionContext::notify).
AbortedIffChanged ==
    \A c \in Sound : ctx[c].aborted <=> ctx[c].changed

\* A session is subscribed exactly while it watches keys or waits for one, and
\* knows it: the two purposes share one subscription, and neither ends it
\* under the other (unsubscribeFromNotifications).
SubscribedWhileNeeded ==
    \A c \in Sound :
        /\ ctx[c].subscribed <=> c \in server.subscribers
        /\ ctx[c].subscribed <=> ctx[c].watched # {} \/ ctx[c].pending # NoCommand

\* Nothing of a transaction outlives it: outside MULTI and EXEC no command is
\* queued, to be executed by the next EXEC.
QueueOnlyInTransaction ==
    \A c \in Clients : ~ctx[c].multi /\ running # c => ctx[c].queue = <<>>

\* Where q holds the n-th blocking command.
Held(q, n) == {i \in DOMAIN q : q[i].n = n}

\* Where notifications have put back the n-th blocking command of c.
WokenOf(c, n) == {i \in DOMAIN server.que : server.que[i].client = c /\ server.que[i].cmd.n = n}

\* A blocking command is in one place, or has got its one result: it is pending,
\* in the processor's queue or in a transaction's, and however the events of
\* other commands interleave with it, it pops no second element
\* (SessionContext::notify and setPendingtBLCommand).
BlockedOnce ==
    \A c \in Clients : \A n \in 1 .. MaxBlocking :
        ctx[c].results[n]
          + Cardinality(Held(<<ctx[c].pending>>, n))
          + Cardinality(Held(ctx[c].queue, n))
          + Cardinality(WokenOf(c, n)) <= 1

-----------------------------------------------------------------------------
(* Statements of the repository that the code does not keep.               *)

\* TransactionCmds.cpp leaves the transaction state in EXEC "so that following
\* commands can be executed properly": they are, and EXEC ends.
TransactionsEnd == \A c \in Clients : running = c ~> running # c \/ ~Up

\* ListCmds.cpp: "Since no value exists in the list - set the pending BL command
\* to context for later execution".  A client that waits has nothing to wait for
\* when one of its lists has elements.
WaitersHaveNothing ==
    \A c \in Sound : \A k \in Waits(ctx[c].pending) : Idle => ~Has(server, c, k)

=============================================================================
