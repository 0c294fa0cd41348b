--------------------------- MODULE SessionContext ---------------------------
(***************************************************************************)
(* The context of a client's session: its transaction, the keys it         *)
(* watches, the blocking command it waits for, and its subscription to the *)
(* events that commands fire (SessionContext.cpp, EventPublisher.cpp).     *)
(*                                                                         *)
(* What the sessions share is a record, the server, and what the code does *)
(* to it an operator from servers to servers, or to the set of servers     *)
(* that may result.                                                        *)
(***************************************************************************)
EXTENDS Naturals, SequencesExt

CONSTANTS
    Clients,      \* the clients, each with one connection
    Keys,         \* the keys of lists
    Dbs,          \* the databases
    FirstDb,      \* the one that is selected to begin with
    MaxBlocking   \* bound: blocking commands each client sends

ASSUME ClientsAssumption == IsFiniteSet(Clients)
ASSUME FirstDbAssumption == FirstDb \in Dbs
ASSUME MaxBlockingAssumption == MaxBlocking \in Nat

\* BLPOP stands for BRPOP and LPUSH for RPUSH: elements have no order here.
BlockingOps == {"BLPOP", "BRPOPLPUSH"}
Ops == {"LPUSH", "LPOP", "RPOPLPUSH", "WATCH", "UNWATCH", "MULTI", "EXEC", "DISCARD",
        "SELECT"} \cup BlockingOps

\* A command, of which n tells the blocking ones of a client apart, and timed
\* is TRUE when it has a timeout.
Command == [op : Ops, args : Seq(Keys \cup Dbs), n : 0 .. MaxBlocking, timed : BOOLEAN]

NoCommand == [op |-> "none", args |-> <<>>, n |-> 0, timed |-> FALSE]

\* A request that a notification puts back into the processor's queue.
Woken == [client : Clients, cmd : Command]

Context ==
    [life : {"new", "open", "gone"},   \* whether mSessions holds the session
     db : Dbs,                         \* mDatabaseIndex
     multi : BOOLEAN,                  \* transactionState = IN_TRANSACTION
     queue : Seq(Command),             \* transactionQue; while EXEC runs, what it has left
     aborted : BOOLEAN,                \* bTransactionAborted
     watched : SUBSET Keys,            \* watchedKeys
     pending : Command \cup {NoCommand},   \* mPendingBLCmd
     subscribed : BOOLEAN,             \* mIsSubscribed
     \* History: the constructor found zeros in the flags it does not set; a key
     \* has changed between WATCH and MULTI; how many results each blocking
     \* command got.
     clean : BOOLEAN,
     changed : BOOLEAN,
     results : [1 .. MaxBlocking -> Nat]]

Server ==
    [ctx : [Clients -> Context],
     subscribers : SUBSET Clients,         \* mSubscribers, without the KeyMaps
     que : Seq(Woken),                     \* the woken requests in the processor's queue
     lists : [Dbs -> SUBSET Keys],         \* the lists that have elements
     process : {"running", "stalled", "down"}]   \* stalled: the worker has ended

\* A new context.  bTransactionAborted and mIsSubscribed are whatever is in memory.
NewContext(life, aborted, subscribed) ==
    [life |-> life, db |-> FirstDb, multi |-> FALSE, queue |-> <<>>, aborted |-> aborted,
     watched |-> {}, pending |-> NoCommand, subscribed |-> subscribed,
     clean |-> ~aborted /\ ~subscribed, changed |-> FALSE,
     results |-> [n \in 1 .. MaxBlocking |-> 0]]

EmptyServer ==
    [ctx |-> [c \in Clients |-> NewContext("new", FALSE, FALSE)],
     subscribers |-> {}, que |-> <<>>, lists |-> [d \in Dbs |-> {}], process |-> "running"]

-----------------------------------------------------------------------------
(* Subscription.                                                           *)

Subscribe(s, c) ==
    IF s.ctx[c].subscribed
       THEN s
       ELSE [s EXCEPT !.ctx[c].subscribed = TRUE, !.subscribers = @ \cup {c}]

\* Mutant of Unsubscribe: mIsSubscribed is not reset.
UnsubscribeKeepsFlag(s, c) ==
    IF s.ctx[c].subscribed /\ s.ctx[c].watched = {} /\ s.ctx[c].pending = NoCommand
       THEN [s EXCEPT !.subscribers = @ \ {c}]
       ELSE s

\* unsubscribeFromNotifications, which keeps the subscription while the session
\* needs it for the other purpose.
Unsubscribe(s, c) ==
    IF s.ctx[c].subscribed /\ s.ctx[c].watched = {} /\ s.ctx[c].pending = NoCommand
       THEN [s EXCEPT !.ctx[c].subscribed = FALSE, !.subscribers = @ \ {c}]
       ELSE s

-----------------------------------------------------------------------------
(* Transactions.                                                           *)

WatchKeys(s, c, ks) == Subscribe([s EXCEPT !.ctx[c].watched = @ \cup ks], c)

\* Mutant of ClearWatchedKeys: the abortion outlives its reason.
ClearWatchedKeysOnly(s, c) ==
    Unsubscribe([s EXCEPT !.ctx[c].watched = {}, !.ctx[c].changed = FALSE], c)

ClearWatchedKeys(s, c) ==
    Unsubscribe([s EXCEPT !.ctx[c].watched = {}, !.ctx[c].aborted = FALSE,
                          !.ctx[c].changed = FALSE], c)

\* Mutant of FinishTransaction: the queue is left to the next transaction.
FinishKeepsQueue(s, c) ==
    ClearWatchedKeys([s EXCEPT !.ctx[c].multi = FALSE, !.ctx[c].aborted = FALSE], c)

FinishTransaction(s, c) ==
    ClearWatchedKeys([s EXCEPT !.ctx[c].multi = FALSE, !.ctx[c].aborted = FALSE,
                               !.ctx[c].queue = <<>>], c)

-----------------------------------------------------------------------------
(* Blocking commands.                                                      *)

\* The keys a blocking command waits for.
Waits(cmd) ==
    CASE cmd.op = "BLPOP" -> ToSet(cmd.args)
      [] cmd.op = "BRPOPLPUSH" -> {cmd.args[1]}
      [] OTHER -> {}

ClearPending(s, c) == Unsubscribe([s EXCEPT !.ctx[c].pending = NoCommand], c)

SetPending(s, c, cmd) == Subscribe([ClearPending(s, c) EXCEPT !.ctx[c].pending = cmd], c)

\* checkPendingBLCommand forgets a command that timed out.  It has not been
\* answered: nothing else looks at the clock.
CheckPending(s, c) ==
    {s} \cup IF s.ctx[c].pending.timed THEN {ClearPending(s, c)} ELSE {}

Result(s, c, cmd) ==
    IF cmd.n = 0 THEN s ELSE [s EXCEPT !.ctx[c].results[cmd.n] = @ + 1]

-----------------------------------------------------------------------------
(* Events.                                                                 *)

Wakes(x, k) == k \in Waits(x.pending)

\* A notified session that waited leaves the subscribers unless it watches keys.
Leaves(x, k) == Wakes(x, k) /\ x.subscribed /\ x.watched = {}

\* Mutant of Notified: the blocking command stays pending.
NotifiedStillPending(x, k) == [x EXCEPT !.aborted = @ \/ (k \in x.watched /\ ~x.multi)]

\* SessionContext::notify on the context itself.
Notified(x, k) ==
    [x EXCEPT !.aborted = @ \/ (k \in x.watched /\ ~x.multi),
              !.pending = IF Wakes(x, k) THEN NoCommand ELSE @,
              !.subscribed = @ /\ ~Leaves(x, k)]

\* Mutant of Requeued: the command has been cleared before it is put back.
RequeuedCleared(s, c) == [client |-> c, cmd |-> NoCommand]

Requeued(s, c) == [client |-> c, cmd |-> s.ctx[c].pending]

\* EventPublisher::fire.  Sessions subscribe for all databases.  One that
\* unsubscribes from within notify erases the element that the loop is at: the
\* loop then continues as if it had not, or ends there, or crashes.
Fire(s, k) ==
    LET leaving == {c \in s.subscribers : Leaves(s.ctx[c], k)}
        reached == {s.subscribers} \cup {h \in SUBSET s.subscribers : h \cap leaving # {}}
        after(h, q) ==
            [s EXCEPT !.ctx = [c \in Clients |-> IF c \in h THEN Notified(@[c], k) ELSE @[c]],
                      !.subscribers = @ \ (leaving \cap h),
                      !.que = @ \o [i \in DOMAIN q |-> Requeued(s, q[i])]]
    IN  (UNION {{after(h, q) : q \in SetToSeqs({c \in h : Wakes(s.ctx[c], k)})} : h \in reached})
        \cup IF leaving = {} THEN {} ELSE {[s EXCEPT !.process = "down"]}

\* One event after another.
FireOn(servers, k) == UNION {Fire(s, k) : s \in servers}
=============================================================================
