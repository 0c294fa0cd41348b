---------------------------- MODULE SessionsProofs ----------------------------
(***************************************************************************)
(* Theorems about Sessions, for any clients, keys, databases and bounds.   *)
(***************************************************************************)
EXTENDS Sessions, FiniteSetTheorems, TLAPS

-----------------------------------------------------------------------------
(* The operators that edit the context of one client.                      *)

\* t is s with another context x for c, and c subscribed or not.
Edited(s, t, c, x) ==
    /\ t \in Server
    /\ t.ctx = [s.ctx EXCEPT ![c] = x]
    /\ \A d \in Clients \ {c} : d \in t.subscribers <=> d \in s.subscribers
    /\ t.que = s.que /\ t.lists = s.lists /\ t.process = s.process

Edit(s, c, x, S) == [s EXCEPT !.ctx[c] = x, !.subscribers = S]

LEMMA EditBoth ==
  ASSUME NEW s \in Server, NEW c \in Clients, NEW x \in Context, NEW S \in SUBSET Clients,
         S \ {c} = s.subscribers \ {c}
  PROVE  Edited(s, Edit(s, c, x, S), c, x) /\ Edit(s, c, x, S).subscribers = S
<1> DEFINE t == Edit(s, c, x, S)
<1>1. t \in Server /\ t.ctx = [s.ctx EXCEPT ![c] = x] /\ t.subscribers = S
      /\ t.que = s.que /\ t.lists = s.lists /\ t.process = s.process
  BY DEF Server, Edit
<1> QED
  BY <1>1 DEF Edited

LEMMA EditContext ==
  ASSUME NEW s \in Server, NEW c \in Clients, NEW x \in Context
  PROVE  LET t == Edit(s, c, x, s.subscribers)
         IN  /\ Edited(s, t, c, x) /\ t.subscribers = s.subscribers
             /\ t \in Server /\ t.ctx[c] = x
<1>1. s.subscribers \in SUBSET Clients /\ s.ctx \in [Clients -> Context]
  BY DEF Server
<1>2. Edited(s, Edit(s, c, x, s.subscribers), c, x)
      /\ Edit(s, c, x, s.subscribers).subscribers = s.subscribers
  BY <1>1, EditBoth
<1> QED
  BY <1>1, <1>2 DEF Edited

LEMMA EditTwice ==
  ASSUME NEW s \in Server, NEW t, NEW u, NEW c \in Clients, NEW x, NEW y,
         Edited(s, t, c, x), Edited(t, u, c, y)
  PROVE  Edited(s, u, c, y)
<1>1. s.ctx \in [Clients -> Context]
  BY DEF Server
<1>2. u.ctx = [s.ctx EXCEPT ![c] = y]
  BY <1>1 DEF Edited
<1> QED
  BY <1>2 DEF Edited

\* What Subscribe and Unsubscribe do.
LEMMA SubscribeEffect ==
  ASSUME NEW s \in Server, NEW c \in Clients, NEW x, x = s.ctx[c]
  PROVE  /\ Edited(s, Subscribe(s, c), c, [x EXCEPT !.subscribed = TRUE])
         /\ c \in Subscribe(s, c).subscribers <=> c \in s.subscribers \/ ~x.subscribed
<1> DEFINE y == [x EXCEPT !.subscribed = TRUE]
           S == s.subscribers \cup {c}
<1>1. x \in Context /\ S \in SUBSET Clients /\ S \ {c} = s.subscribers \ {c}
  BY DEF Server
<1>2. y \in Context
  BY <1>1 DEF Context
<1>3. x.subscribed => y = x /\ Subscribe(s, c) = s
  BY <1>1 DEF Context, Subscribe
<1>4. ~x.subscribed => Subscribe(s, c) = Edit(s, c, y, S)
  BY DEF Subscribe, Server, Edit
<1> HIDE DEF y
<1>5. CASE x.subscribed
  <2>1. [s.ctx EXCEPT ![c] = x] = s.ctx
    BY DEF Server
  <2> QED
    BY <1>3, <1>5, <2>1 DEF Edited, y
<1>6. CASE ~x.subscribed
  <2>1. Edited(s, Subscribe(s, c), c, y) /\ Subscribe(s, c).subscribers = S
    BY <1>1, <1>2, <1>4, <1>6, EditBoth
  <2> QED
    BY <1>6, <2>1 DEF y
<1> QED
  BY <1>5, <1>6

LEMMA UnsubscribeEffect ==
  ASSUME NEW s \in Server, NEW c \in Clients, NEW x, x = s.ctx[c],
         NEW needed \in BOOLEAN, needed <=> x.watched # {} \/ x.pending # NoCommand
  PROVE  /\ Edited(s, Unsubscribe(s, c), c, [x EXCEPT !.subscribed = x.subscribed /\ needed])
         /\ c \in Unsubscribe(s, c).subscribers <=>
               c \in s.subscribers /\ (x.subscribed => needed)
<1> DEFINE y == [x EXCEPT !.subscribed = x.subscribed /\ needed]
           S == s.subscribers \ {c}
<1>1. x \in Context /\ S \in SUBSET Clients /\ S \ {c} = s.subscribers \ {c}
  BY DEF Server
<1>2. y \in Context
  BY <1>1 DEF Context
<1>3. x.subscribed /\ ~needed => Unsubscribe(s, c) = Edit(s, c, y, S)
  BY <1>1 DEF Unsubscribe, Server, Edit
<1>4. ASSUME x.subscribed => needed PROVE y = x /\ Unsubscribe(s, c) = s
  <2>1. (x.subscribed /\ needed) = x.subscribed
    BY <1>1, <1>4 DEF Context
  <2>2. y = x
    BY <1>1, <2>1 DEF Context
  <2> QED
    BY <1>4, <2>2 DEF Unsubscribe
<1> HIDE DEF y
<1>5. CASE x.subscribed => needed
  <2>1. [s.ctx EXCEPT ![c] = x] = s.ctx
    BY DEF Server
  <2> QED
    BY <1>4, <1>5, <2>1 DEF Edited, y
<1>6. CASE x.subscribed /\ ~needed
  <2>1. Edited(s, Unsubscribe(s, c), c, y) /\ Unsubscribe(s, c).subscribers = S
    BY <1>1, <1>2, <1>3, <1>6, EditBoth
  <2> QED
    BY <1>6, <2>1 DEF y
<1> QED
  BY <1>5, <1>6

\* What is built from them.
LEMMA ClearPendingEffect ==
  ASSUME NEW s \in Server, NEW c \in Clients, NEW x, x = s.ctx[c]
  PROVE  /\ Edited(s, ClearPending(s, c), c,
                   [x EXCEPT !.pending = NoCommand, !.subscribed = x.subscribed /\ x.watched # {}])
         /\ c \in ClearPending(s, c).subscribers <=>
               c \in s.subscribers /\ (x.subscribed => x.watched # {})
<1> DEFINE y == [x EXCEPT !.pending = NoCommand]
           u == Edit(s, c, y, s.subscribers)
           needed == x.watched # {}
<1>1. x \in Context
  BY DEF Server
<1>2. y \in Context
  BY <1>1 DEF Context
<1>3. y.subscribed = x.subscribed /\ y.watched = x.watched /\ y.pending = NoCommand
  BY <1>1 DEF Context
<1>4. ClearPending(s, c) = Unsubscribe(u, c)
  BY DEF Server, Edit, ClearPending
<1> HIDE DEF y
<1>5. Edited(s, u, c, y) /\ u.subscribers = s.subscribers /\ u \in Server /\ u.ctx[c] = y
  BY <1>2, EditContext
<1>6. needed \in BOOLEAN /\ (needed <=> y.watched # {} \/ y.pending # NoCommand)
  BY <1>3
<1> HIDE DEF u, needed
<1> DEFINE z == [y EXCEPT !.subscribed = y.subscribed /\ needed]
<1>7. /\ Edited(u, Unsubscribe(u, c), c, z)
      /\ c \in Unsubscribe(u, c).subscribers <=> c \in u.subscribers /\ (y.subscribed => needed)
  BY <1>5, <1>6, UnsubscribeEffect
<1>8. z = [x EXCEPT !.pending = NoCommand, !.subscribed = x.subscribed /\ x.watched # {}]
  BY <1>1, <1>3 DEF Context, y, needed
<1> HIDE DEF z
<1>9. Edited(s, Unsubscribe(u, c), c, z)
  BY <1>5, <1>7, EditTwice
<1> QED
  BY <1>3, <1>4, <1>5, <1>7, <1>8, <1>9 DEF needed

LEMMA SetPendingEffect ==
  ASSUME NEW s \in Server, NEW c \in Clients, NEW x, x = s.ctx[c], NEW cmd \in Command
  PROVE  /\ Edited(s, SetPending(s, c, cmd), c, [x EXCEPT !.pending = cmd, !.subscribed = TRUE])
         /\ c \in SetPending(s, c, cmd).subscribers <=>
               c \in s.subscribers \/ ~x.subscribed \/ x.watched = {}
<1> DEFINE t == ClearPending(s, c)
           y == [x EXCEPT !.pending = NoCommand, !.subscribed = x.subscribed /\ x.watched # {}]
           z == [y EXCEPT !.pending = cmd]
           u == Edit(t, c, z, t.subscribers)
<1>1. x \in Context
  BY DEF Server
<1>2. y \in Context
  BY <1>1 DEF Context
<1>3. y.subscribed <=> x.subscribed /\ x.watched # {}
  BY <1>1 DEF Context
<1>4. [z EXCEPT !.subscribed = TRUE] = [x EXCEPT !.pending = cmd, !.subscribed = TRUE]
  BY <1>1 DEF Context
<1> HIDE DEF y
<1>5. z \in Context /\ z.subscribed = y.subscribed
  BY <1>2 DEF Context
<1>6. /\ Edited(s, t, c, y)
      /\ c \in t.subscribers <=> c \in s.subscribers /\ (x.subscribed => x.watched # {})
  BY ClearPendingEffect DEF y
<1>7. t \in Server /\ t.ctx[c] = y
  BY <1>6 DEF Edited, Server
<1> HIDE DEF t
<1>8. SetPending(s, c, cmd) = Subscribe(u, c)
  BY <1>7 DEF Server, Edit, SetPending, t
<1> HIDE DEF z
<1>9. Edited(t, u, c, z) /\ u.subscribers = t.subscribers /\ u \in Server /\ u.ctx[c] = z
  BY <1>5, <1>7, EditContext
<1> HIDE DEF u
<1> DEFINE w == [z EXCEPT !.subscribed = TRUE]
<1>10. /\ Edited(u, Subscribe(u, c), c, w)
       /\ c \in Subscribe(u, c).subscribers <=> c \in u.subscribers \/ ~z.subscribed
  BY <1>9, SubscribeEffect
<1> HIDE DEF w
<1>11. Edited(s, Subscribe(u, c), c, w)
  BY <1>6, <1>7, <1>9, <1>10, EditTwice
<1>12. c \in Subscribe(u, c).subscribers <=>
          c \in s.subscribers \/ ~x.subscribed \/ x.watched = {}
  BY <1>3, <1>5, <1>6, <1>9, <1>10
<1> QED
  BY <1>4, <1>8, <1>11, <1>12 DEF w

LEMMA WatchEffect ==
  ASSUME NEW s \in Server, NEW c \in Clients, NEW x, x = s.ctx[c], NEW ks \in SUBSET Keys
  PROVE  /\ Edited(s, WatchKeys(s, c, ks), c,
                   [x EXCEPT !.watched = x.watched \cup ks, !.subscribed = TRUE])
         /\ c \in WatchKeys(s, c, ks).subscribers <=> c \in s.subscribers \/ ~x.subscribed
<1> DEFINE y == [x EXCEPT !.watched = x.watched \cup ks]
           u == Edit(s, c, y, s.subscribers)
           z == [y EXCEPT !.subscribed = TRUE]
<1>1. x \in Context
  BY DEF Server
<1>2. y \in Context /\ y.subscribed = x.subscribed
  BY <1>1 DEF Context
<1>3. z = [x EXCEPT !.watched = x.watched \cup ks, !.subscribed = TRUE]
  BY <1>1 DEF Context
<1>4. WatchKeys(s, c, ks) = Subscribe(u, c)
  BY DEF Server, Edit, WatchKeys
<1> HIDE DEF y
<1>5. Edited(s, u, c, y) /\ u.subscribers = s.subscribers /\ u \in Server /\ u.ctx[c] = y
  BY <1>2, EditContext
<1> HIDE DEF u
<1>6. /\ Edited(u, Subscribe(u, c), c, z)
      /\ c \in Subscribe(u, c).subscribers <=> c \in u.subscribers \/ ~y.subscribed
  BY <1>5, SubscribeEffect
<1> HIDE DEF z
<1>7. Edited(s, Subscribe(u, c), c, z)
  BY <1>5, <1>6, EditTwice
<1> QED
  BY <1>2, <1>3, <1>4, <1>5, <1>6, <1>7

\* A context whose client watches nothing more.
Unwatched(x) == [x EXCEPT !.watched = {}, !.aborted = FALSE, !.changed = FALSE,
                          !.subscribed = x.subscribed /\ x.pending # NoCommand]

LEMMA ClearWatchedEffect ==
  ASSUME NEW s \in Server, NEW c \in Clients, NEW x, x = s.ctx[c]
  PROVE  /\ Edited(s, ClearWatchedKeys(s, c), c, Unwatched(x))
         /\ c \in ClearWatchedKeys(s, c).subscribers <=>
               c \in s.subscribers /\ (x.subscribed => x.pending # NoCommand)
<1> DEFINE y == [x EXCEPT !.watched = {}, !.aborted = FALSE, !.changed = FALSE]
           u == Edit(s, c, y, s.subscribers)
           needed == x.pending # NoCommand
<1>1. x \in Context
  BY DEF Server
<1>2. y \in Context
  BY <1>1 DEF Context
<1>3. y.subscribed = x.subscribed /\ y.watched = {} /\ y.pending = x.pending
  BY <1>1 DEF Context
<1>4. ClearWatchedKeys(s, c) = Unsubscribe(u, c)
  BY DEF Server, Edit, ClearWatchedKeys
<1> HIDE DEF y
<1>5. Edited(s, u, c, y) /\ u.subscribers = s.subscribers /\ u \in Server /\ u.ctx[c] = y
  BY <1>2, EditContext
<1>6. needed \in BOOLEAN /\ (needed <=> y.watched # {} \/ y.pending # NoCommand)
  BY <1>3
<1> HIDE DEF u, needed
<1> DEFINE z == [y EXCEPT !.subscribed = y.subscribed /\ needed]
<1>7. /\ Edited(u, Unsubscribe(u, c), c, z)
      /\ c \in Unsubscribe(u, c).subscribers <=> c \in u.subscribers /\ (y.subscribed => needed)
  BY <1>5, <1>6, UnsubscribeEffect
<1>8. z = Unwatched(x)
  BY <1>1, <1>3 DEF Context, Unwatched, y, needed
<1> HIDE DEF z
<1>9. Edited(s, Unsubscribe(u, c), c, z)
  BY <1>5, <1>7, EditTwice
<1> QED
  BY <1>3, <1>4, <1>5, <1>7, <1>8, <1>9 DEF needed

LEMMA FinishEffect ==
  ASSUME NEW s \in Server, NEW c \in Clients, NEW x, x = s.ctx[c]
  PROVE  /\ Edited(s, FinishTransaction(s, c), c,
                   Unwatched([x EXCEPT !.multi = FALSE, !.queue = <<>>]))
         /\ c \in FinishTransaction(s, c).subscribers <=>
               c \in s.subscribers /\ (x.subscribed => x.pending # NoCommand)
<1> DEFINE y == [x EXCEPT !.multi = FALSE, !.aborted = FALSE, !.queue = <<>>]
           u == Edit(s, c, y, s.subscribers)
           t == ClearWatchedKeys(u, c)
<1>1. x \in Context
  BY DEF Server
<1>2. y \in Context
  <2>1. <<>> \in Seq(Command)
    OBVIOUS
  <2> QED
    BY <1>1, <2>1 DEF Context
<1>3. y.subscribed = x.subscribed /\ y.pending = x.pending
  BY <1>1 DEF Context
<1>4. FinishTransaction(s, c) = t
  BY DEF Server, Edit, FinishTransaction
<1>5. Unwatched(y) = Unwatched([x EXCEPT !.multi = FALSE, !.queue = <<>>])
  BY <1>1 DEF Context, Unwatched
<1> HIDE DEF y
<1>6. Edited(s, u, c, y) /\ u.subscribers = s.subscribers /\ u \in Server /\ u.ctx[c] = y
  BY <1>2, EditContext
<1> HIDE DEF u
<1>7. /\ Edited(u, t, c, Unwatched(y))
      /\ c \in t.subscribers <=> c \in u.subscribers /\ (y.subscribed => y.pending # NoCommand)
  BY <1>6, ClearWatchedEffect
<1>8. Edited(s, t, c, Unwatched(y))
  BY <1>6, <1>7, EditTwice
<1> QED
  BY <1>3, <1>4, <1>5, <1>6, <1>7, <1>8

-----------------------------------------------------------------------------
(* The invariant, of a server between two steps of a command.              *)

\* The commands that reach the worker from clients, and those of them that block.
Sent == {cmd \in Command :
            /\ cmd.op \in Allowed \ {"EXEC"} /\ cmd.args \in Args(cmd.op)
            /\ IF cmd.op \in BlockingOps THEN cmd.n # 0 ELSE cmd.n = 0 /\ ~cmd.timed}

Blocking == {cmd \in Sent : cmd.op \in BlockingOps}

Typed(s) ==
    /\ s \in Server
    /\ \A c \in Clients : /\ s.ctx[c].queue \in Seq(Sent)
                          /\ s.ctx[c].pending \in Blocking \cup {NoCommand}
    /\ s.que \in Seq([client : Clients, cmd : Blocking])

\* SubscribedWhileNeeded, and that nobody subscribes before the connection.
Subscribers(s) ==
    \A c \in Clients :
       /\ s.ctx[c].life = "new" => c \notin s.subscribers
       /\ s.ctx[c].life = "open" /\ s.ctx[c].clean =>
             /\ s.ctx[c].subscribed <=> c \in s.subscribers
             /\ s.ctx[c].subscribed <=> s.ctx[c].watched # {} \/ s.ctx[c].pending # NoCommand

\* QueueOnlyInTransaction, where r is in EXEC.
Calm(s, r) == \A c \in Clients : ~s.ctx[c].multi /\ r # c => s.ctx[c].queue = <<>>

\* Where the n-th blocking command of c is.
InQueue(s, c, n, i) == i \in DOMAIN s.ctx[c].queue /\ s.ctx[c].queue[i].n = n
InQue(s, c, n, i) == i \in DOMAIN s.que /\ s.que[i].client = c /\ s.que[i].cmd.n = n

Free(s, c, n) ==
    /\ s.ctx[c].results[n] = 0
    /\ s.ctx[c].pending.n # n
    /\ \A i : ~InQueue(s, c, n, i) /\ ~InQue(s, c, n, i)

Once(s, c, n) ==
    /\ s.ctx[c].results[n] \in {0, 1}
    /\ s.ctx[c].results[n] = 1 => s.ctx[c].pending.n # n
    /\ s.ctx[c].results[n] = 1 \/ s.ctx[c].pending.n = n =>
          \A i : ~InQueue(s, c, n, i) /\ ~InQue(s, c, n, i)
    /\ \A i, j : InQueue(s, c, n, i) => ~InQue(s, c, n, j)
    /\ \A i, j : InQueue(s, c, n, i) /\ InQueue(s, c, n, j) => i = j
    /\ \A i, j : InQue(s, c, n, i) /\ InQue(s, c, n, j) => i = j

\* F are the blocking commands that are nowhere: one that the worker has in its
\* hands, those that have not been sent.
Unique(s, F) ==
    \A c \in Clients : \A n \in 1 .. MaxBlocking :
       Once(s, c, n) /\ (<<c, n>> \in F => Free(s, c, n))

Tidy(s, F, r) == Typed(s) /\ Subscribers(s) /\ Calm(s, r) /\ Unique(s, F)

LEMMA FewerPlaces ==
  ASSUME NEW s, NEW t, NEW c, NEW n,
         t.ctx[c].results[n] = s.ctx[c].results[n],
         t.ctx[c].pending.n = n => s.ctx[c].pending.n = n,
         \A i : /\ InQueue(t, c, n, i) => InQueue(s, c, n, i)
                /\ InQue(t, c, n, i) => InQue(s, c, n, i)
  PROVE  (Once(s, c, n) => Once(t, c, n)) /\ (Free(s, c, n) => Free(t, c, n))
BY DEF Once, Free

\* An edit of the context of c, with what the properties say of c.
LEMMA PutTidy ==
  ASSUME NEW F, NEW G, NEW r, NEW s, Tidy(s, F, r), NEW c \in Clients,
         NEW y \in Context, NEW t, Edited(s, t, c, y),
         y.queue \in Seq(Sent), y.pending \in Blocking \cup {NoCommand},
         \A d \in Clients \ {c} : \A n : <<d, n>> \in G => <<d, n>> \in F,
         \A n \in 1 .. MaxBlocking : Once(t, c, n) /\ (<<c, n>> \in G => Free(t, c, n)),
         ~y.multi /\ r # c => y.queue = <<>>,
         y.life = "new" => c \notin t.subscribers,
         y.life = "open" /\ y.clean => /\ y.subscribed <=> c \in t.subscribers
                                       /\ y.subscribed <=> y.watched # {} \/ y.pending # NoCommand
  PROVE  Tidy(t, G, r)
<1>1. s \in Server /\ s.ctx \in [Clients -> Context] /\ t \in Server
  BY DEF Tidy, Typed, Server, Edited
<1>2. t.ctx[c] = y /\ \A d \in Clients \ {c} : t.ctx[d] = s.ctx[d]
  BY <1>1 DEF Edited
<1>3. /\ t.que = s.que
      /\ \A d \in Clients \ {c} : d \in t.subscribers <=> d \in s.subscribers
  BY DEF Edited
<1>4. Typed(t)
  BY <1>1, <1>2, <1>3 DEF Tidy, Typed
<1>5. Subscribers(t)
  BY <1>2, <1>3 DEF Tidy, Subscribers
<1>6. Calm(t, r)
  BY <1>2 DEF Tidy, Calm
<1>7. Unique(t, G)
  <2> SUFFICES ASSUME NEW d \in Clients, d # c, NEW n \in 1 .. MaxBlocking
               PROVE  Once(t, d, n) /\ (<<d, n>> \in G => Free(t, d, n))
    BY DEF Unique
  <2>1. Once(s, d, n) /\ (<<d, n>> \in G => Free(s, d, n))
    BY DEF Tidy, Unique
  <2>2. t.ctx[d] = s.ctx[d] /\ t.que = s.que
    BY <1>2, <1>3
  <2>3. \A i : (InQueue(t, d, n, i) => InQueue(s, d, n, i)) /\ (InQue(t, d, n, i) => InQue(s, d, n, i))
    BY <2>2 DEF InQueue, InQue
  <2> QED
    BY <2>1, <2>2, <2>3, FewerPlaces
<1> QED
  BY <1>4, <1>5, <1>6, <1>7 DEF Tidy

\* An edit that puts no command anywhere.
LEMMA EditTidy ==
  ASSUME NEW F, NEW r, NEW s, Tidy(s, F, r), NEW c \in Clients, NEW x, x = s.ctx[c],
         NEW y \in Context, NEW t, Edited(s, t, c, y),
         y.queue = x.queue \/ y.queue = <<>>,
         y.pending = x.pending \/ y.pending = NoCommand,
         y.results = x.results,
         ~y.multi /\ r # c => y.queue = <<>>,
         y.life = "new" => c \notin t.subscribers,
         y.life = "open" /\ y.clean => /\ y.subscribed <=> c \in t.subscribers
                                       /\ y.subscribed <=> y.watched # {} \/ y.pending # NoCommand
  PROVE  Tidy(t, F, r)
<1>1. y.queue \in Seq(Sent) /\ y.pending \in Blocking \cup {NoCommand}
  <2>1. <<>> \in Seq(Sent)
    OBVIOUS
  <2> QED
    BY <2>1 DEF Tidy, Typed
<1>2. t.ctx[c] = y /\ t.que = s.que
  BY DEF Tidy, Typed, Server, Edited
<1>3. ASSUME NEW n \in 1 .. MaxBlocking
      PROVE  Once(t, c, n) /\ (<<c, n>> \in F => Free(t, c, n))
  <2>1. Once(s, c, n) /\ (<<c, n>> \in F => Free(s, c, n))
    BY DEF Tidy, Unique
  <2>2. n # 0 /\ NoCommand.n = 0
    BY MaxBlockingAssumption DEF NoCommand
  <2>3. t.ctx[c].results[n] = s.ctx[c].results[n]
        /\ (t.ctx[c].pending.n = n => s.ctx[c].pending.n = n)
    BY <1>2, <2>2
  <2>4. \A i : (InQueue(t, c, n, i) => InQueue(s, c, n, i)) /\ (InQue(t, c, n, i) => InQue(s, c, n, i))
    BY <1>2 DEF InQue, InQueue
  <2> QED
    BY <2>1, <2>3, <2>4, FewerPlaces
<1> QED
  BY <1>1, <1>3, PutTidy

\* Each of the operators on a context.
LEMMA ClearPendingTidy ==
  ASSUME NEW F, NEW r, NEW s, Tidy(s, F, r), NEW c \in Clients
  PROVE  Tidy(ClearPending(s, c), F, r)
<1> DEFINE x == s.ctx[c]
           y == [x EXCEPT !.pending = NoCommand, !.subscribed = x.subscribed /\ x.watched # {}]
           t == ClearPending(s, c)
<1>1. s \in Server /\ x \in Context
  BY DEF Tidy, Typed, Server
<1>2. y \in Context
  BY <1>1 DEF Context
<1>3. /\ y.life = x.life /\ y.multi = x.multi /\ y.queue = x.queue /\ y.watched = x.watched
      /\ y.pending = NoCommand /\ y.clean = x.clean /\ y.results = x.results
      /\ y.subscribed <=> x.subscribed /\ x.watched # {}
  BY <1>1 DEF Context
<1>4. /\ Edited(s, t, c, y)
      /\ c \in t.subscribers <=> c \in s.subscribers /\ (x.subscribed => x.watched # {})
  BY <1>1, ClearPendingEffect
<1> HIDE DEF y, t
<1>5. ~y.multi /\ r # c => y.queue = <<>>
  BY <1>3 DEF Tidy, Calm
<1>6. /\ y.life = "new" => c \notin t.subscribers
      /\ y.life = "open" /\ y.clean => /\ y.subscribed <=> c \in t.subscribers
                                       /\ y.subscribed <=> y.watched # {} \/ y.pending # NoCommand
  BY <1>3, <1>4 DEF Tidy, Subscribers
<1> QED
  BY <1>2, <1>3, <1>4, <1>5, <1>6, EditTidy DEF t

LEMMA WatchTidy ==
  ASSUME NEW F, NEW r, NEW s, Tidy(s, F, r), NEW c \in Clients, s.ctx[c].life = "open",
         NEW ks \in SUBSET Keys, ks # {}
  PROVE  Tidy(WatchKeys(s, c, ks), F, r)
<1> DEFINE x == s.ctx[c]
           y == [x EXCEPT !.watched = x.watched \cup ks, !.subscribed = TRUE]
           t == WatchKeys(s, c, ks)
<1>1. s \in Server /\ x \in Context
  BY DEF Tidy, Typed, Server
<1>2. y \in Context
  BY <1>1 DEF Context
<1>3. /\ y.life = x.life /\ y.multi = x.multi /\ y.queue = x.queue /\ y.watched = x.watched \cup ks
      /\ y.pending = x.pending /\ y.clean = x.clean /\ y.results = x.results
      /\ y.subscribed
  BY <1>1 DEF Context
<1>4. /\ Edited(s, t, c, y)
      /\ c \in t.subscribers <=> c \in s.subscribers \/ ~x.subscribed
  BY <1>1, WatchEffect
<1> HIDE DEF y, t
<1>5. ~y.multi /\ r # c => y.queue = <<>>
  BY <1>3 DEF Tidy, Calm
<1>6. /\ y.life = "new" => c \notin t.subscribers
      /\ y.life = "open" /\ y.clean => /\ y.subscribed <=> c \in t.subscribers
                                       /\ y.subscribed <=> y.watched # {} \/ y.pending # NoCommand
  BY <1>3, <1>4 DEF Tidy, Subscribers
<1> QED
  BY <1>2, <1>3, <1>4, <1>5, <1>6, EditTidy DEF t

LEMMA UnwatchedContext ==
  ASSUME NEW x \in Context
  PROVE  LET y == Unwatched(x)
         IN  /\ y \in Context
             /\ y.life = x.life /\ y.multi = x.multi /\ y.queue = x.queue /\ y.watched = {}
             /\ y.pending = x.pending /\ y.clean = x.clean /\ y.results = x.results
             /\ y.aborted = FALSE /\ y.changed = FALSE
             /\ y.subscribed <=> x.subscribed /\ x.pending # NoCommand
BY DEF Context, Unwatched

LEMMA ClearWatchedTidy ==
  ASSUME NEW F, NEW r, NEW s, Tidy(s, F, r), NEW c \in Clients
  PROVE  Tidy(ClearWatchedKeys(s, c), F, r)
<1> DEFINE x == s.ctx[c]
           y == Unwatched(x)
           t == ClearWatchedKeys(s, c)
<1>1. s \in Server /\ x \in Context
  BY DEF Tidy, Typed, Server
<1>2. /\ Edited(s, t, c, y)
      /\ c \in t.subscribers <=> c \in s.subscribers /\ (x.subscribed => x.pending # NoCommand)
  BY <1>1, ClearWatchedEffect
<1>3. /\ y \in Context
      /\ y.life = x.life /\ y.multi = x.multi /\ y.queue = x.queue /\ y.watched = {}
      /\ y.pending = x.pending /\ y.clean = x.clean /\ y.results = x.results
      /\ y.subscribed <=> x.subscribed /\ x.pending # NoCommand
  BY <1>1, UnwatchedContext
<1> HIDE DEF y, t
<1>4. ~y.multi /\ r # c => y.queue = <<>>
  BY <1>3 DEF Tidy, Calm
<1>5. /\ y.life = "new" => c \notin t.subscribers
      /\ y.life = "open" /\ y.clean => /\ y.subscribed <=> c \in t.subscribers
                                       /\ y.subscribed <=> y.watched # {} \/ y.pending # NoCommand
  BY <1>2, <1>3 DEF Tidy, Subscribers
<1> QED
  BY <1>2, <1>3, <1>4, <1>5, EditTidy DEF t

\* The end of a transaction empties its queue, whoever is in EXEC.
LEMMA FinishTidy ==
  ASSUME NEW F, NEW r, NEW s, Tidy(s, F, r), NEW c \in Clients
  PROVE  Tidy(FinishTransaction(s, c), F, r) /\ FinishTransaction(s, c).ctx[c].queue = <<>>
<1> DEFINE x == s.ctx[c]
           z == [x EXCEPT !.multi = FALSE, !.queue = <<>>]
           y == Unwatched(z)
           t == FinishTransaction(s, c)
<1>1. s \in Server /\ x \in Context
  BY DEF Tidy, Typed, Server
<1>2. z \in Context
  <2>1. <<>> \in Seq(Command)
    OBVIOUS
  <2> QED
    BY <1>1, <2>1 DEF Context
<1>3. /\ z.life = x.life /\ z.queue = <<>> /\ z.watched = x.watched
      /\ z.pending = x.pending /\ z.clean = x.clean /\ z.results = x.results
      /\ z.subscribed = x.subscribed
  BY <1>1 DEF Context
<1>4. /\ Edited(s, t, c, y)
      /\ c \in t.subscribers <=> c \in s.subscribers /\ (x.subscribed => x.pending # NoCommand)
  BY <1>1, FinishEffect
<1> HIDE DEF z
<1>5. /\ y \in Context
      /\ y.life = z.life /\ y.queue = z.queue /\ y.watched = {}
      /\ y.pending = z.pending /\ y.clean = z.clean /\ y.results = z.results
      /\ y.subscribed <=> z.subscribed /\ z.pending # NoCommand
  BY <1>2, UnwatchedContext
<1> HIDE DEF y, t
<1>6. /\ y.life = "new" => c \notin t.subscribers
      /\ y.life = "open" /\ y.clean => /\ y.subscribed <=> c \in t.subscribers
                                       /\ y.subscribed <=> y.watched # {} \/ y.pending # NoCommand
  BY <1>3, <1>4, <1>5 DEF Tidy, Subscribers
<1>7. t.ctx[c] = y
  BY <1>1, <1>4 DEF Edited, Server
<1>8. Tidy(t, F, r)
  BY <1>3, <1>4, <1>5, <1>6, EditTidy
<1> QED
  BY <1>3, <1>5, <1>7, <1>8 DEF t

-----------------------------------------------------------------------------
(* Where a command that the worker has in its hands goes.                  *)

LEMMA Commands ==
  ASSUME NEW cmd \in Sent
  PROVE  /\ cmd \in Command /\ cmd.n \in 0 .. MaxBlocking
         /\ cmd.op \in BlockingOps <=> cmd.n # 0
         /\ cmd.op \in BlockingOps <=> cmd \in Blocking
BY DEF Sent, Blocking, Command

LEMMA SetPendingTidy ==
  ASSUME NEW F, NEW r, NEW s, Tidy(s, F, r), NEW c \in Clients, s.ctx[c].life = "open",
         NEW cmd \in Blocking, <<c, cmd.n>> \in F
  PROVE  Tidy(SetPending(s, c, cmd), F \ {<<c, cmd.n>>}, r)
<1> DEFINE x == s.ctx[c]
           y == [x EXCEPT !.pending = cmd, !.subscribed = TRUE]
           t == SetPending(s, c, cmd)
           G == F \ {<<c, cmd.n>>}
<1>1. s \in Server /\ x \in Context
  BY DEF Tidy, Typed, Server
<1>2. cmd \in Command /\ cmd \in Sent /\ cmd.n # 0 /\ cmd.n \in 0 .. MaxBlocking
      /\ cmd # NoCommand
  <2>1. cmd \in Command /\ cmd \in Sent /\ cmd.n # 0 /\ cmd.n \in 0 .. MaxBlocking
    BY Commands DEF Blocking
  <2> QED
    BY <2>1 DEF NoCommand
<1>3. y \in Context
  BY <1>1, <1>2 DEF Context
<1>4. /\ y.life = x.life /\ y.multi = x.multi /\ y.queue = x.queue /\ y.watched = x.watched
      /\ y.pending = cmd /\ y.clean = x.clean /\ y.results = x.results /\ y.subscribed
  BY <1>1 DEF Context
<1>5. /\ Edited(s, t, c, y)
      /\ c \in t.subscribers <=> c \in s.subscribers \/ ~x.subscribed \/ x.watched = {}
  BY <1>1, <1>2, SetPendingEffect
<1> HIDE DEF y, t
<1>6. t.ctx[c] = y /\ t.que = s.que
  BY <1>1, <1>5 DEF Edited, Server
<1>7. ASSUME NEW n \in 1 .. MaxBlocking
      PROVE  Once(t, c, n) /\ (<<c, n>> \in G => Free(t, c, n))
  <2>1. Once(s, c, n) /\ (<<c, n>> \in F => Free(s, c, n))
    BY DEF Tidy, Unique
  <2>2. \A i : (InQueue(t, c, n, i) => InQueue(s, c, n, i)) /\ (InQue(t, c, n, i) => InQue(s, c, n, i))
    BY <1>4, <1>6 DEF InQueue, InQue
  <2>3. t.ctx[c].results = s.ctx[c].results /\ t.ctx[c].pending.n = cmd.n
    BY <1>4, <1>6
  <2>4. CASE n # cmd.n
    BY <2>1, <2>2, <2>3, <2>4, FewerPlaces
  <2>5. CASE n = cmd.n
    <3>1. Free(s, c, n) /\ <<c, n>> \notin G
      BY <2>1, <2>5
    <3> QED
      BY <2>2, <2>3, <2>5, <3>1 DEF Free, Once
  <2> QED
    BY <2>4, <2>5
<1>8. ~y.multi /\ r # c => y.queue = <<>>
  BY <1>4 DEF Tidy, Calm
<1>9. /\ y.life = "new" => c \notin t.subscribers
      /\ y.life = "open" /\ y.clean => /\ y.subscribed <=> c \in t.subscribers
                                       /\ y.subscribed <=> y.watched # {} \/ y.pending # NoCommand
  BY <1>2, <1>4, <1>5 DEF Tidy, Subscribers
<1>10. y.queue \in Seq(Sent) /\ y.pending \in Blocking \cup {NoCommand}
  BY <1>4 DEF Tidy, Typed
<1> QED
  BY <1>3, <1>5, <1>7, <1>8, <1>9, <1>10, PutTidy DEF t

LEMMA ResultTidy ==
  ASSUME NEW F, NEW r, NEW s, Tidy(s, F, r), NEW c \in Clients,
         NEW cmd \in Blocking, <<c, cmd.n>> \in F
  PROVE  Tidy(Result(s, c, cmd), F \ {<<c, cmd.n>>}, r)
<1> DEFINE x == s.ctx[c]
           y == [x EXCEPT !.results = [x.results EXCEPT ![cmd.n] = x.results[cmd.n] + 1]]
           t == Edit(s, c, y, s.subscribers)
           G == F \ {<<c, cmd.n>>}
<1>1. s \in Server /\ x \in Context
  BY DEF Tidy, Typed, Server
<1>2. cmd \in Sent /\ cmd.n # 0 /\ cmd.n \in 1 .. MaxBlocking
  BY Commands, MaxBlockingAssumption DEF Blocking
<1>3. x.results \in [1 .. MaxBlocking -> Nat]
  BY <1>1 DEF Context
<1>4. [x.results EXCEPT ![cmd.n] = x.results[cmd.n] + 1] \in [1 .. MaxBlocking -> Nat]
  <2> DEFINE rs == x.results
             D == 1 .. MaxBlocking
  <2>1. rs \in [D -> Nat] /\ cmd.n \in D
    BY <1>2, <1>3
  <2> HIDE DEF rs, D
  <2>2. rs[cmd.n] + 1 \in Nat
    BY <2>1
  <2>3. [rs EXCEPT ![cmd.n] = rs[cmd.n] + 1] \in [D -> Nat]
    BY <2>1, <2>2
  <2> QED
    BY <2>3 DEF rs, D
<1>5. y \in Context
  BY <1>1, <1>4 DEF Context
<1>6. /\ y.life = x.life /\ y.multi = x.multi /\ y.queue = x.queue /\ y.watched = x.watched
      /\ y.pending = x.pending /\ y.clean = x.clean /\ y.subscribed = x.subscribed
      /\ y.results = [x.results EXCEPT ![cmd.n] = x.results[cmd.n] + 1]
  BY <1>1 DEF Context
<1>7. Result(s, c, cmd) = t
  BY <1>1, <1>2 DEF Result, Edit, Server
<1> HIDE DEF y
<1>8. Edited(s, t, c, y) /\ t.subscribers = s.subscribers /\ t.ctx[c] = y
  BY <1>1, <1>5, EditContext
<1> HIDE DEF t
<1>9. t.que = s.que
  BY <1>8 DEF Edited
<1>10. ASSUME NEW n \in 1 .. MaxBlocking
       PROVE  Once(t, c, n) /\ (<<c, n>> \in G => Free(t, c, n))
  <2>1. Once(s, c, n) /\ (<<c, n>> \in F => Free(s, c, n))
    BY DEF Tidy, Unique
  <2>2. \A i : (InQueue(t, c, n, i) => InQueue(s, c, n, i)) /\ (InQue(t, c, n, i) => InQue(s, c, n, i))
    BY <1>6, <1>8, <1>9 DEF InQueue, InQue
  <2>3. t.ctx[c].pending = s.ctx[c].pending
    BY <1>6, <1>8
  <2>4. CASE n # cmd.n
    <3>1. t.ctx[c].results[n] = s.ctx[c].results[n]
      BY <1>3, <1>6, <1>8, <2>4
    <3> QED
      BY <2>1, <2>2, <2>3, <2>4, <3>1, FewerPlaces
  <2>5. CASE n = cmd.n
    <3>1. Free(s, c, n) /\ <<c, n>> \notin G
      BY <2>1, <2>5
    <3>2. s.ctx[c].results[n] = 0
      BY <3>1 DEF Free
    <3>3. t.ctx[c].results[n] = 1
      <4>1. y.results[cmd.n] = x.results[cmd.n] + 1
        BY <1>2, <1>3, <1>6
      <4>2. x.results[cmd.n] = 0
        BY <2>5, <3>2
      <4>3. y.results[cmd.n] = 1
        BY <4>1, <4>2
      <4> QED
        BY <1>8, <2>5, <4>3
    <3> QED
      BY <2>2, <2>3, <2>5, <3>1, <3>3 DEF Free, Once
  <2> QED
    BY <2>4, <2>5
<1>11. ~y.multi /\ r # c => y.queue = <<>>
  BY <1>6 DEF Tidy, Calm
<1>12. /\ y.life = "new" => c \notin t.subscribers
       /\ y.life = "open" /\ y.clean => /\ y.subscribed <=> c \in t.subscribers
                                        /\ y.subscribed <=> y.watched # {} \/ y.pending # NoCommand
  BY <1>6, <1>8 DEF Tidy, Subscribers
<1>13. y.queue \in Seq(Sent) /\ y.pending \in Blocking \cup {NoCommand}
  BY <1>6 DEF Tidy, Typed
<1> QED
  BY <1>5, <1>7, <1>8, <1>10, <1>11, <1>12, <1>13, PutTidy

LEMMA AppendFacts ==
  ASSUME NEW S, NEW q \in Seq(S), NEW e \in S
  PROVE  /\ Append(q, e) \in Seq(S) /\ Append(q, e)[Len(q) + 1] = e
         /\ \A i \in DOMAIN Append(q, e) :
               (i \in DOMAIN q /\ Append(q, e)[i] = q[i]) \/ i = Len(q) + 1
<1>1. /\ Len(q) \in Nat /\ DOMAIN q = 1 .. Len(q) /\ Append(q, e) \in Seq(S)
      /\ Len(Append(q, e)) = Len(q) + 1 /\ Append(q, e)[Len(q) + 1] = e
      /\ \A i \in 1 .. Len(q) : Append(q, e)[i] = q[i]
  OBVIOUS
<1>2. DOMAIN Append(q, e) = 1 .. Len(q) + 1
  BY <1>1
<1>3. \A i \in 1 .. Len(q) + 1 : i \in 1 .. Len(q) \/ i = Len(q) + 1
  BY <1>1
<1> QED
  BY <1>1, <1>2, <1>3

LEMMA TailFacts ==
  ASSUME NEW S, NEW q \in Seq(S), q # <<>>
  PROVE  /\ Tail(q) \in Seq(S) /\ Head(q) \in S /\ 1 \in DOMAIN q /\ Head(q) = q[1]
         /\ \A i \in DOMAIN Tail(q) : /\ i \in Int /\ i + 1 # 1
                                      /\ i + 1 \in DOMAIN q /\ Tail(q)[i] = q[i + 1]
<1>1. /\ Len(q) \in Nat \ {0} /\ DOMAIN q = 1 .. Len(q) /\ Tail(q) \in Seq(S)
      /\ Len(Tail(q)) = Len(q) - 1
      /\ \A i \in 1 .. Len(q) - 1 : Tail(q)[i] = q[i + 1]
  OBVIOUS
<1>2. DOMAIN Tail(q) = 1 .. Len(q) - 1
  BY <1>1
<1>3. 1 \in DOMAIN q /\ Head(q) = q[1] /\ q[1] \in S
  BY <1>1
<1> QED
  BY <1>1, <1>2, <1>3

\* Every edit of a queue, and what it leaves as it is.
WithQueue(s, c, q) == [s EXCEPT !.ctx[c].queue = q]

QueueEdited(s, t, c, x, y, q) ==
    /\ y \in Context /\ Edited(s, t, c, y) /\ t.subscribers = s.subscribers
    /\ t.ctx[c] = y /\ t.que = s.que
    /\ y.life = x.life /\ y.multi = x.multi /\ y.queue = q /\ y.watched = x.watched
    /\ y.pending = x.pending /\ y.clean = x.clean /\ y.subscribed = x.subscribed
    /\ y.results = x.results

LEMMA QueueEdit ==
  ASSUME NEW s \in Server, NEW c \in Clients, NEW q \in Seq(Command)
  PROVE  QueueEdited(s, WithQueue(s, c, q), c, s.ctx[c], WithQueue(s, c, q).ctx[c], q)
<1> DEFINE x == s.ctx[c]
           y == [x EXCEPT !.queue = q]
           t == Edit(s, c, y, s.subscribers)
<1>1. x \in Context
  BY DEF Server
<1>2. y \in Context
  BY <1>1 DEF Context
<1>3. /\ y.life = x.life /\ y.multi = x.multi /\ y.queue = q /\ y.watched = x.watched
      /\ y.pending = x.pending /\ y.clean = x.clean /\ y.subscribed = x.subscribed
      /\ y.results = x.results
  BY <1>1 DEF Context
<1>4. WithQueue(s, c, q) = t
  BY DEF Server, Edit, WithQueue
<1> HIDE DEF y
<1>5. Edited(s, t, c, y) /\ t.subscribers = s.subscribers /\ t.ctx[c] = y
  BY <1>2, EditContext
<1> HIDE DEF t
<1>6. t.que = s.que
  BY <1>5 DEF Edited
<1> QED
  BY <1>2, <1>3, <1>4, <1>5, <1>6 DEF QueueEdited

LEMMA AppendTidy ==
  ASSUME NEW F, NEW r, NEW s, Tidy(s, F, r), NEW c \in Clients, s.ctx[c].multi,
         NEW cmd \in Sent, cmd.n # 0 => <<c, cmd.n>> \in F
  PROVE  Tidy([s EXCEPT !.ctx[c].queue = Append(@, cmd)], F \ {<<c, cmd.n>>}, r)
<1> DEFINE x == s.ctx[c]
           q == Append(x.queue, cmd)
           t == WithQueue(s, c, q)
           y == t.ctx[c]
           G == F \ {<<c, cmd.n>>}
<1>1. s \in Server /\ x \in Context
  BY DEF Tidy, Typed, Server
<1>2. cmd \in Command /\ cmd.n \in 0 .. MaxBlocking
  BY Commands
<1>3. x.queue \in Seq(Sent)
  BY DEF Tidy, Typed
<1>4. /\ q \in Seq(Sent) /\ q[Len(x.queue) + 1] = cmd
      /\ \A i \in DOMAIN q : (i \in DOMAIN x.queue /\ q[i] = x.queue[i]) \/ i = Len(x.queue) + 1
  BY <1>3, AppendFacts
<1>5. q \in Seq(Command)
  <2>1. x.queue \in Seq(Command)
    BY <1>1 DEF Context
  <2> QED
    BY <1>2, <2>1
<1>6. [s EXCEPT !.ctx[c].queue = Append(@, cmd)] = t
  BY DEF WithQueue
<1> HIDE DEF q
<1>7. QueueEdited(s, t, c, x, y, q)
  BY <1>1, <1>5, QueueEdit
<1> HIDE DEF t
<1>8. ASSUME NEW n \in 1 .. MaxBlocking
      PROVE  Once(t, c, n) /\ (<<c, n>> \in G => Free(t, c, n))
  <2>1. Once(s, c, n) /\ (<<c, n>> \in F => Free(s, c, n))
    BY DEF Tidy, Unique
  <2>2. \A i : InQue(t, c, n, i) => InQue(s, c, n, i)
    BY <1>7 DEF InQue, QueueEdited
  <2>3. t.ctx[c].results = s.ctx[c].results /\ t.ctx[c].pending = s.ctx[c].pending
    BY <1>7 DEF QueueEdited
  <2>4. ASSUME NEW i, InQueue(t, c, n, i)
        PROVE  InQueue(s, c, n, i) \/ (i = Len(x.queue) + 1 /\ cmd.n = n)
    <3>1. i \in DOMAIN q /\ q[i].n = n
      BY <1>7, <2>4 DEF InQueue, QueueEdited
    <3> QED
      BY <1>4, <3>1 DEF InQueue
  <2>5. CASE n # cmd.n
    BY <2>1, <2>2, <2>3, <2>4, <2>5, FewerPlaces
  <2>6. CASE n = cmd.n
    <3>1. n # 0
      BY MaxBlockingAssumption
    <3>2. Free(s, c, n) /\ <<c, n>> \notin G
      BY <2>1, <2>6, <3>1
    <3>3. \A i : ~InQue(t, c, n, i) /\ (InQueue(t, c, n, i) => i = Len(x.queue) + 1)
      BY <2>2, <2>4, <3>2 DEF Free
    <3> QED
      BY <2>3, <3>2, <3>3 DEF Free, Once
  <2> QED
    BY <2>5, <2>6
<1>9. /\ y.life = "new" => c \notin t.subscribers
      /\ y.life = "open" /\ y.clean => /\ y.subscribed <=> c \in t.subscribers
                                       /\ y.subscribed <=> y.watched # {} \/ y.pending # NoCommand
  BY <1>7 DEF Tidy, Subscribers, QueueEdited
<1>10. y.queue \in Seq(Sent) /\ y.pending \in Blocking \cup {NoCommand}
  BY <1>4, <1>7 DEF Tidy, Typed, QueueEdited
<1> QED
  BY <1>6, <1>7, <1>8, <1>9, <1>10, PutTidy DEF QueueEdited

\* A command leaves the queue of a transaction.
InHand(s, t, c, cmd, F, r) ==
    /\ cmd \in Sent /\ Tidy(t, F \cup {<<c, cmd.n>>}, r)
    /\ t.ctx[c].life = s.ctx[c].life
    /\ cmd.n # 0 => <<c, cmd.n>> \notin F

LEMMA TailTidy ==
  ASSUME NEW F, NEW r, NEW s, Tidy(s, F, r), NEW c \in Clients, s.ctx[c].queue # <<>>,
         NEW cmd, cmd = Head(s.ctx[c].queue), NEW t, t = WithQueue(s, c, Tail(s.ctx[c].queue))
  PROVE  InHand(s, t, c, cmd, F, r)
<1> DEFINE x == s.ctx[c]
           q == Tail(x.queue)
           y == t.ctx[c]
           G == F \cup {<<c, cmd.n>>}
<1>1. s \in Server /\ x \in Context
  BY DEF Tidy, Typed, Server
<1>2. x.queue \in Seq(Sent) /\ x.queue # <<>>
  BY DEF Tidy, Typed
<1>3. /\ q \in Seq(Sent) /\ cmd \in Sent /\ 1 \in DOMAIN x.queue /\ cmd = x.queue[1]
      /\ \A i \in DOMAIN q : /\ i \in Int /\ i + 1 # 1
                             /\ i + 1 \in DOMAIN x.queue /\ q[i] = x.queue[i + 1]
  BY <1>2, TailFacts
<1>4. q \in Seq(Command)
  <2>1. x.queue \in Seq(Command)
    BY <1>1 DEF Context
  <2> QED
    BY <1>2, <2>1
<1>5. t = WithQueue(s, c, q)
  OBVIOUS
<1> HIDE DEF q
<1>6. QueueEdited(s, t, c, x, y, q)
  BY <1>1, <1>4, <1>5, QueueEdit
<1>7. ASSUME NEW n \in 1 .. MaxBlocking
      PROVE  Once(t, c, n) /\ (<<c, n>> \in G => Free(t, c, n))
  <2>1. Once(s, c, n) /\ (<<c, n>> \in F => Free(s, c, n))
    BY DEF Tidy, Unique
  <2>2. \A i : InQue(t, c, n, i) => InQue(s, c, n, i)
    BY <1>6 DEF InQue, QueueEdited
  <2>3. t.ctx[c].results = s.ctx[c].results /\ t.ctx[c].pending = s.ctx[c].pending
    BY <1>6 DEF QueueEdited
  <2>4. ASSUME NEW i, InQueue(t, c, n, i)
        PROVE  i \in Int /\ i + 1 # 1 /\ InQueue(s, c, n, i + 1)
    <3>1. i \in DOMAIN q /\ q[i].n = n
      BY <1>6, <2>4 DEF InQueue, QueueEdited
    <3>2. i \in Int /\ i + 1 # 1
      BY <1>3, <3>1
    <3> QED
      BY <1>3, <3>1, <3>2 DEF InQueue
  <2>5. Once(t, c, n)
    <3>1. \A i, j : InQueue(t, c, n, i) /\ InQueue(t, c, n, j) => i = j
      <4> SUFFICES ASSUME NEW i, NEW j, InQueue(t, c, n, i), InQueue(t, c, n, j) PROVE i = j
        OBVIOUS
      <4>1. i \in Int /\ j \in Int /\ i + 1 = j + 1
        BY <2>1, <2>4 DEF Once
      <4> QED
        BY <4>1
    <3> QED
      BY <2>1, <2>2, <2>3, <2>4, <3>1 DEF Once
  <2>6. CASE <<c, n>> \in F
    BY <2>1, <2>2, <2>3, <2>4, <2>5, <2>6 DEF Free
  <2>7. CASE n = cmd.n
    <3>1. InQueue(s, c, n, 1)
      BY <1>3, <2>7 DEF InQueue
    <3>2. \A i : ~InQueue(t, c, n, i)
      BY <2>1, <2>4, <3>1 DEF Once
    <3>3. /\ s.ctx[c].results[n] = 0 /\ s.ctx[c].pending.n # n
          /\ \A i : ~InQue(s, c, n, i)
      BY <2>1, <3>1 DEF Once
    <3> QED
      BY <2>2, <2>3, <2>5, <3>2, <3>3 DEF Free
  <2> QED
    BY <2>5, <2>6, <2>7
<1>8. ~y.multi /\ r # c => y.queue = <<>>
  BY <1>2, <1>6 DEF Tidy, Calm, QueueEdited
<1>9. /\ y.life = "new" => c \notin t.subscribers
      /\ y.life = "open" /\ y.clean => /\ y.subscribed <=> c \in t.subscribers
                                       /\ y.subscribed <=> y.watched # {} \/ y.pending # NoCommand
  BY <1>6 DEF Tidy, Subscribers, QueueEdited
<1>10. y.queue \in Seq(Sent) /\ y.pending \in Blocking \cup {NoCommand}
  BY <1>3, <1>6 DEF Tidy, Typed, QueueEdited
<1>11. \A d \in Clients \ {c} : \A n : <<d, n>> \in G => <<d, n>> \in F
  OBVIOUS
<1>12. Tidy(t, G, r)
  BY <1>6, <1>7, <1>8, <1>9, <1>10, <1>11, PutTidy DEF QueueEdited
<1>13. cmd.n # 0 => <<c, cmd.n>> \notin F
  <2> SUFFICES ASSUME cmd.n # 0 PROVE <<c, cmd.n>> \notin F
    OBVIOUS
  <2>1. cmd.n \in 1 .. MaxBlocking
    BY <1>3, Commands, MaxBlockingAssumption
  <2>2. InQueue(s, c, cmd.n, 1)
    BY <1>3 DEF InQueue
  <2> QED
    BY <2>1, <2>2 DEF Tidy, Unique, Free
<1> QED
  BY <1>3, <1>5, <1>6, <1>12, <1>13 DEF QueueEdited, InHand

\* A woken request leaves the processor's queue.
LEMMA TakenTidy ==
  ASSUME NEW F, NEW r, NEW s, Tidy(s, F, r), s.que # <<>>
  PROVE  LET w == Head(s.que)
             t == [s EXCEPT !.que = Tail(@)]
         IN  /\ w.client \in Clients /\ w.cmd \in Blocking
             /\ Tidy(t, F \cup {<<w.client, w.cmd.n>>}, r) /\ t.ctx = s.ctx
             /\ <<w.client, w.cmd.n>> \notin F
<1> DEFINE w == Head(s.que)
           q == Tail(s.que)
           t == [s EXCEPT !.que = q]
           G == F \cup {<<w.client, w.cmd.n>>}
           W == [client : Clients, cmd : Blocking]
<1>1. s \in Server /\ s.que \in Seq(W) /\ s.que # <<>>
  BY DEF Tidy, Typed
<1>2. /\ q \in Seq(W) /\ w \in W /\ 1 \in DOMAIN s.que /\ w = s.que[1]
      /\ \A i \in DOMAIN q : /\ i \in Int /\ i + 1 # 1
                             /\ i + 1 \in DOMAIN s.que /\ q[i] = s.que[i + 1]
  <2> HIDE DEF W
  <2> QED
    BY <1>1, TailFacts
<1>3. q \in Seq(Woken)
  <2>1. s.que \in Seq(Woken)
    BY <1>1 DEF Server
  <2> QED
    BY <1>1, <2>1
<1> HIDE DEF q, w
<1>4. /\ t \in Server /\ t.ctx = s.ctx /\ t.subscribers = s.subscribers
      /\ t.que = q
  BY <1>1, <1>3 DEF Server
<1> HIDE DEF t
<1>5. ASSUME NEW c \in Clients, NEW n \in 1 .. MaxBlocking
      PROVE  Once(t, c, n) /\ (<<c, n>> \in G => Free(t, c, n))
  <2>1. Once(s, c, n) /\ (<<c, n>> \in F => Free(s, c, n))
    BY DEF Tidy, Unique
  <2>2. \A i : InQueue(t, c, n, i) <=> InQueue(s, c, n, i)
    BY <1>4 DEF InQueue
  <2>3. t.ctx[c].results = s.ctx[c].results /\ t.ctx[c].pending = s.ctx[c].pending
    BY <1>4
  <2>4. ASSUME NEW i, InQue(t, c, n, i)
        PROVE  i \in Int /\ i + 1 # 1 /\ InQue(s, c, n, i + 1)
    <3>1. i \in DOMAIN q /\ q[i].client = c /\ q[i].cmd.n = n
      BY <1>4, <2>4 DEF InQue
    <3>2. i \in Int /\ i + 1 # 1
      BY <1>2, <3>1
    <3> QED
      BY <1>2, <3>1, <3>2 DEF InQue
  <2>5. Once(t, c, n)
    <3>1. \A i, j : InQue(t, c, n, i) /\ InQue(t, c, n, j) => i = j
      <4> SUFFICES ASSUME NEW i, NEW j, InQue(t, c, n, i), InQue(t, c, n, j) PROVE i = j
        OBVIOUS
      <4>1. i \in Int /\ j \in Int /\ i + 1 = j + 1
        BY <2>1, <2>4 DEF Once
      <4> QED
        BY <4>1
    <3> QED
      BY <2>1, <2>2, <2>3, <2>4, <3>1 DEF Once
  <2>6. CASE <<c, n>> \in F
    BY <2>1, <2>2, <2>3, <2>4, <2>5, <2>6 DEF Free
  <2>7. CASE c = w.client /\ n = w.cmd.n
    <3>1. InQue(s, c, n, 1)
      BY <1>2, <2>7 DEF InQue
    <3>2. \A i : ~InQue(t, c, n, i)
      BY <2>1, <2>4, <3>1 DEF Once
    <3>3. /\ s.ctx[c].results[n] = 0 /\ s.ctx[c].pending.n # n
          /\ \A i : ~InQueue(s, c, n, i)
      BY <2>1, <3>1 DEF Once
    <3> QED
      BY <2>2, <2>3, <2>5, <3>2, <3>3 DEF Free
  <2> QED
    BY <2>5, <2>6, <2>7
<1>6. Typed(t)
  BY <1>2, <1>4 DEF Tidy, Typed
<1>7. Subscribers(t) /\ Calm(t, r)
  BY <1>4 DEF Tidy, Subscribers, Calm
<1>8. Tidy(t, G, r)
  BY <1>5, <1>6, <1>7 DEF Tidy, Unique
<1>9. <<w.client, w.cmd.n>> \notin F
  <2>1. w.client \in Clients /\ w.cmd \in Sent /\ w.cmd.op \in BlockingOps
    BY <1>2 DEF Blocking
  <2>2. w.cmd.n \in 1 .. MaxBlocking
    BY <2>1, Commands, MaxBlockingAssumption
  <2>3. InQue(s, w.client, w.cmd.n, 1)
    BY <1>2 DEF InQue
  <2> QED
    BY <2>1, <2>2, <2>3 DEF Tidy, Unique, Free
<1> QED
  BY <1>2, <1>4, <1>8, <1>9 DEF q, w, t

-----------------------------------------------------------------------------
(* What touches the contexts of all clients.                               *)

\* t is s but for the databases, the lists, the flags of a transaction's fate
\* and the process.
Similar(s, t) ==
    /\ t \in Server /\ t.que = s.que /\ t.subscribers = s.subscribers
    /\ \A c \in Clients :
          LET x == s.ctx[c]
              y == t.ctx[c]
          IN  /\ y.life = x.life /\ y.multi = x.multi /\ y.queue = x.queue
              /\ y.watched = x.watched /\ y.pending = x.pending /\ y.subscribed = x.subscribed
              /\ y.clean = x.clean /\ y.results = x.results

LEMMA SimilarTidy ==
  ASSUME NEW F, NEW r, NEW s, Tidy(s, F, r), NEW t, Similar(s, t)
  PROVE  Tidy(t, F, r)
<1>1. Typed(t)
  BY DEF Tidy, Typed, Similar
<1>2. Subscribers(t)
  BY DEF Tidy, Subscribers, Similar
<1>3. Calm(t, r)
  BY DEF Tidy, Calm, Similar
<1>4. Unique(t, F)
  <2> SUFFICES ASSUME NEW c \in Clients, NEW n \in 1 .. MaxBlocking
               PROVE  Once(t, c, n) /\ (<<c, n>> \in F => Free(t, c, n))
    BY DEF Unique
  <2>1. Once(s, c, n) /\ (<<c, n>> \in F => Free(s, c, n))
    BY DEF Tidy, Unique
  <2>2. /\ t.ctx[c].results = s.ctx[c].results /\ t.ctx[c].pending = s.ctx[c].pending
        /\ t.ctx[c].queue = s.ctx[c].queue /\ t.que = s.que
    BY DEF Similar
  <2>3. \A i : (InQueue(t, c, n, i) => InQueue(s, c, n, i)) /\ (InQue(t, c, n, i) => InQue(s, c, n, i))
    BY <2>2 DEF InQueue, InQue
  <2> QED
    BY <2>1, <2>2, <2>3, FewerPlaces
<1> QED
  BY <1>1, <1>2, <1>3, <1>4 DEF Tidy

LEMMA ProcessTidy ==
  ASSUME NEW F, NEW r, NEW s, Tidy(s, F, r), NEW p \in {"stalled", "down"}
  PROVE  Tidy([s EXCEPT !.process = p], F, r)
<1>1. s \in Server
  BY DEF Tidy, Typed
<1>2. Similar(s, [s EXCEPT !.process = p])
  BY <1>1 DEF Server, Similar
<1> QED
  BY <1>2, SimilarTidy

LEMMA ListsTidy ==
  ASSUME NEW F, NEW r, NEW s, Tidy(s, F, r), NEW d \in Dbs, NEW K \in SUBSET Keys
  PROVE  Tidy([s EXCEPT !.lists[d] = K], F, r)
<1>1. s \in Server
  BY DEF Tidy, Typed
<1>2. Similar(s, [s EXCEPT !.lists[d] = K])
  BY <1>1 DEF Server, Similar
<1> QED
  BY <1>2, SimilarTidy

\* What Changed does to a context.
LEMMA HitContext ==
  ASSUME NEW x \in Context, NEW k
  PROVE  LET y == Hit(x, k)
         IN  /\ y \in Context /\ y.life = x.life /\ y.db = x.db /\ y.multi = x.multi
             /\ y.queue = x.queue /\ y.aborted = x.aborted /\ y.watched = x.watched
             /\ y.pending = x.pending /\ y.subscribed = x.subscribed
             /\ y.clean = x.clean /\ y.results = x.results
             /\ y.changed <=> x.changed \/ (k \in x.watched /\ ~x.multi)
<1>1. (x.changed \/ (k \in x.watched /\ ~x.multi)) \in BOOLEAN
  OBVIOUS
<1> QED
  BY <1>1 DEF Context, Hit

LEMMA ChangedEffect ==
  ASSUME NEW s \in Server, NEW k
  PROVE  LET t == Changed(s, k)
         IN  /\ t \in Server /\ t.que = s.que /\ t.subscribers = s.subscribers
             /\ t.lists = s.lists /\ t.process = s.process
             /\ \A c \in Clients : t.ctx[c] = Hit(s.ctx[c], k)
<1>1. \A c \in Clients : s.ctx[c] \in Context
  BY DEF Server
<1> DEFINE f == [c \in Clients |-> Hit(s.ctx[c], k)]
<1>2. f \in [Clients -> Context] /\ \A c \in Clients : f[c] = Hit(s.ctx[c], k)
  BY <1>1, HitContext
<1>3. Changed(s, k) = [s EXCEPT !.ctx = f]
  BY DEF Changed
<1> HIDE DEF f
<1> QED
  BY <1>2, <1>3 DEF Server

LEMMA ChangedTidy ==
  ASSUME NEW F, NEW r, NEW s, Tidy(s, F, r), NEW k
  PROVE  Tidy(Changed(s, k), F, r)
<1>1. s \in Server /\ \A c \in Clients : s.ctx[c] \in Context
  BY DEF Tidy, Typed, Server
<1> DEFINE t == Changed(s, k)
<1>2. /\ t \in Server /\ t.que = s.que /\ t.subscribers = s.subscribers
      /\ \A c \in Clients : t.ctx[c] = Hit(s.ctx[c], k)
  BY <1>1, ChangedEffect
<1> HIDE DEF t
<1>3. Similar(s, t)
  BY <1>1, <1>2, HitContext DEF Similar
<1> QED
  BY <1>3, SimilarTidy DEF t

\* What notify does to a context.
LEMMA WakesPending ==
  ASSUME NEW x, NEW k, Wakes(x, k)
  PROVE  x.pending # NoCommand
BY DEF Wakes, Waits, NoCommand

LEMMA NotifiedContext ==
  ASSUME NEW x \in Context, NEW k
  PROVE  LET y == Notified(x, k)
         IN  /\ y \in Context /\ y.life = x.life /\ y.db = x.db /\ y.multi = x.multi
             /\ y.queue = x.queue /\ y.watched = x.watched
             /\ y.clean = x.clean /\ y.results = x.results /\ y.changed = x.changed
             /\ y.pending = IF Wakes(x, k) THEN NoCommand ELSE x.pending
             /\ y.subscribed <=> x.subscribed /\ ~Leaves(x, k)
             /\ y.aborted <=> x.aborted \/ (k \in x.watched /\ ~x.multi)
<1> DEFINE a == x.aborted \/ (k \in x.watched /\ ~x.multi)
           p == IF Wakes(x, k) THEN NoCommand ELSE x.pending
           b == x.subscribed /\ ~Leaves(x, k)
<1>1. a \in BOOLEAN /\ b \in BOOLEAN /\ p \in Command \cup {NoCommand}
  BY DEF Context
<1>2. Notified(x, k) = [x EXCEPT !.aborted = a, !.pending = p, !.subscribed = b]
  BY DEF Notified
<1> HIDE DEF a, p, b
<1>3. LET y == [x EXCEPT !.aborted = a, !.pending = p, !.subscribed = b]
      IN  /\ y \in Context /\ y.life = x.life /\ y.db = x.db /\ y.multi = x.multi
          /\ y.queue = x.queue /\ y.watched = x.watched
          /\ y.clean = x.clean /\ y.results = x.results /\ y.changed = x.changed
          /\ y.pending = p /\ y.subscribed = b /\ y.aborted = a
  BY <1>1 DEF Context
<1> QED
  BY <1>2, <1>3 DEF a, p, b

\* What an event does, but for a crash: it reaches h, and those who wait are put
\* back in the order q.
Waking(s, k, h) == {c \in h : Wakes(s.ctx[c], k)}

Requests(s, q) == s.que \o [i \in DOMAIN q |-> Requeued(s, q[i])]

Fired(s, t, k, h, q) ==
    /\ h \in SUBSET s.subscribers /\ q \in SetToSeqs(Waking(s, k, h))
    /\ t.ctx = [c \in Clients |-> IF c \in h THEN Notified(s.ctx[c], k) ELSE s.ctx[c]]
    /\ t.subscribers = s.subscribers \ {c \in h : Leaves(s.ctx[c], k)}
    /\ t.que = Requests(s, q)
    /\ t.lists = s.lists /\ t.process = s.process
    /\ t = [s EXCEPT !.ctx = t.ctx, !.subscribers = t.subscribers, !.que = t.que]

LEMMA FireCases ==
  ASSUME NEW s \in Server, NEW k, NEW t \in Fire(s, k)
  PROVE  \/ t = [s EXCEPT !.process = "down"] /\ {c \in s.subscribers : Leaves(s.ctx[c], k)} # {}
         \/ \E h, q : /\ Fired(s, t, k, h, q)
                      /\ {c \in s.subscribers : Leaves(s.ctx[c], k)} = {} => h = s.subscribers
<1> DEFINE leaving == {c \in s.subscribers : Leaves(s.ctx[c], k)}
           reached == {s.subscribers} \cup {h \in SUBSET s.subscribers : h \cap leaving # {}}
           after(h, q) ==
              [s EXCEPT !.ctx = [c \in Clients |-> IF c \in h THEN Notified(s.ctx[c], k) ELSE s.ctx[c]],
                        !.subscribers = s.subscribers \ (leaving \cap h),
                        !.que = s.que \o [i \in DOMAIN q |-> Requeued(s, q[i])]]
<1>1. CASE \E h \in reached : t \in {after(h, q) : q \in SetToSeqs({c \in h : Wakes(s.ctx[c], k)})}
  <2>1. PICK h \in reached : \E q \in SetToSeqs({c \in h : Wakes(s.ctx[c], k)}) : t = after(h, q)
    BY <1>1
  <2>2. PICK q \in SetToSeqs({c \in h : Wakes(s.ctx[c], k)}) : t = after(h, q)
    BY <2>1
  <2>3. h \in SUBSET s.subscribers /\ (leaving = {} => h = s.subscribers)
    OBVIOUS
  <2>4. leaving \cap h = {c \in h : Leaves(s.ctx[c], k)}
    BY <2>3
  <2>5. Fired(s, t, k, h, q)
    <3> DEFINE f == [c \in Clients |-> IF c \in h THEN Notified(s.ctx[c], k) ELSE s.ctx[c]]
               S == s.subscribers \ {c \in h : Leaves(s.ctx[c], k)}
               w == s.que \o [i \in DOMAIN q |-> Requeued(s, q[i])]
    <3>1. t = [s EXCEPT !.ctx = f, !.subscribers = S, !.que = w]
      BY <2>2, <2>4
    <3> HIDE DEF f, S, w
    <3>2. /\ t.ctx = f /\ t.subscribers = S /\ t.que = w
          /\ t.lists = s.lists /\ t.process = s.process
      BY <3>1 DEF Server
    <3> QED
      BY <2>3, <3>1, <3>2 DEF f, S, w, Fired, Requests, Waking
  <2> QED
    BY <2>3, <2>5
<1>2. CASE leaving # {} /\ t = [s EXCEPT !.process = "down"]
  BY <1>2
<1> QED
  BY <1>1, <1>2 DEF Fire

LEMMA OrderFacts ==
  ASSUME NEW S \in SUBSET Clients, NEW q \in SetToSeqs(S)
  PROVE  /\ q \in Seq(S) /\ DOMAIN q = 1 .. Len(q)
         /\ \A i, j \in DOMAIN q : q[i] = q[j] => i = j
<1>1. Cardinality(S) \in Nat
  BY ClientsAssumption, FS_Subset, FS_CardinalityType
<1>2. q \in [1 .. Cardinality(S) -> S] /\ \A i, j \in 1 .. Cardinality(S) : i # j => q[i] # q[j]
  BY DEF SetToSeqs
<1> QED
  BY <1>1, <1>2

LEMMA ConcatFacts ==
  ASSUME NEW S, NEW p \in Seq(S), NEW q \in Seq(S)
  PROVE  /\ p \o q \in Seq(S)
         /\ \A i \in DOMAIN (p \o q) :
               \/ i \in DOMAIN p /\ (p \o q)[i] = p[i]
               \/ i \in Int /\ i - Len(p) \in DOMAIN q /\ (p \o q)[i] = q[i - Len(p)]
         /\ Len(p) \in Nat
<1>1. /\ Len(p) \in Nat /\ DOMAIN p = 1 .. Len(p) /\ Len(q) \in Nat /\ DOMAIN q = 1 .. Len(q)
      /\ p \o q \in Seq(S) /\ Len(p \o q) = Len(p) + Len(q)
      /\ \A i \in 1 .. Len(p) + Len(q) :
            (p \o q)[i] = IF i <= Len(p) THEN p[i] ELSE q[i - Len(p)]
  OBVIOUS
<1>2. DOMAIN (p \o q) = 1 .. Len(p) + Len(q)
  BY <1>1
<1>3. \A i \in 1 .. Len(p) + Len(q) :
         i \in Int /\ (i <= Len(p) => i \in 1 .. Len(p)) /\ (~(i <= Len(p)) => i - Len(p) \in 1 .. Len(q))
  BY <1>1
<1> QED
  BY <1>1, <1>2, <1>3

\* The requests that an event has put back.
LEMMA WokenFacts ==
  ASSUME NEW s, Typed(s), NEW t, NEW k, NEW h, NEW q, Fired(s, t, k, h, q)
  PROVE  /\ t.que \in Seq([client : Clients, cmd : Blocking])
         /\ Len(s.que) \in Nat
         /\ \A i \in DOMAIN t.que :
               \/ i \in DOMAIN s.que /\ t.que[i] = s.que[i]
               \/ /\ i \in Int /\ i - Len(s.que) \in DOMAIN q
                  /\ t.que[i].client = q[i - Len(s.que)] /\ t.que[i].client \in h
                  /\ Wakes(s.ctx[t.que[i].client], k)
                  /\ t.que[i].cmd = s.ctx[t.que[i].client].pending
         /\ \A i, j \in DOMAIN q : q[i] = q[j] => i = j
<1> DEFINE W == [client : Clients, cmd : Blocking]
           w == [i \in DOMAIN q |-> Requeued(s, q[i])]
           S == Waking(s, k, h)
<1>1. S \in SUBSET Clients /\ h \in SUBSET Clients /\ q \in SetToSeqs(S)
  BY DEF Typed, Server, Fired, Waking
<1>2. q \in Seq(S) /\ DOMAIN q = 1 .. Len(q) /\ \A i, j \in DOMAIN q : q[i] = q[j] => i = j
  BY <1>1, OrderFacts
<1>3. \A i \in DOMAIN q : q[i] \in S
  BY <1>2
<1>4. \A c \in S : c \in Clients /\ c \in h /\ Wakes(s.ctx[c], k) /\ s.ctx[c].pending \in Blocking
  BY <1>1, WakesPending DEF Typed, Waking
<1>5. \A i \in DOMAIN q : w[i] \in W /\ w[i].client = q[i] /\ w[i].cmd = s.ctx[q[i]].pending
  BY <1>3, <1>4 DEF Requeued
<1>6. w \in Seq(W)
  <2>1. Len(q) \in Nat /\ w \in [1 .. Len(q) -> W]
    BY <1>2, <1>5
  <2> QED
    BY <2>1
<1>7. DOMAIN w = DOMAIN q /\ s.que \in Seq(W)
  BY DEF Typed
<1> HIDE DEF w, W, S
<1>8. /\ s.que \o w \in Seq(W) /\ Len(s.que) \in Nat
      /\ \A i \in DOMAIN (s.que \o w) :
            \/ i \in DOMAIN s.que /\ (s.que \o w)[i] = s.que[i]
            \/ i \in Int /\ i - Len(s.que) \in DOMAIN w /\ (s.que \o w)[i] = w[i - Len(s.que)]
  BY <1>6, <1>7, ConcatFacts
<1>9. ASSUME NEW i \in DOMAIN (s.que \o w)
      PROVE  \/ i \in DOMAIN s.que /\ (s.que \o w)[i] = s.que[i]
             \/ /\ i \in Int /\ i - Len(s.que) \in DOMAIN q
                /\ (s.que \o w)[i].client = q[i - Len(s.que)] /\ (s.que \o w)[i].client \in h
                /\ Wakes(s.ctx[(s.que \o w)[i].client], k)
                /\ (s.que \o w)[i].cmd = s.ctx[(s.que \o w)[i].client].pending
  BY <1>3, <1>4, <1>5, <1>7, <1>8
<1>10. t.que = s.que \o w
  BY DEF Fired, Requests, w
<1> QED
  BY <1>2, <1>8, <1>9, <1>10 DEF W

\* What the contexts are after an event.
LEMMA FiredContexts ==
  ASSUME NEW s, Typed(s), NEW t, NEW k, NEW h, NEW q, Fired(s, t, k, h, q),
         NEW c \in Clients
  PROVE  /\ t.ctx[c] \in Context
         /\ c \notin h => t.ctx[c] = s.ctx[c]
         /\ c \in h => t.ctx[c] = Notified(s.ctx[c], k)
         /\ t.ctx[c].life = s.ctx[c].life /\ t.ctx[c].multi = s.ctx[c].multi
         /\ t.ctx[c].queue = s.ctx[c].queue /\ t.ctx[c].watched = s.ctx[c].watched
         /\ t.ctx[c].clean = s.ctx[c].clean /\ t.ctx[c].results = s.ctx[c].results
         /\ t.ctx[c].changed = s.ctx[c].changed
         /\ t.ctx[c].pending = IF c \in h /\ Wakes(s.ctx[c], k) THEN NoCommand ELSE s.ctx[c].pending
<1>1. s.ctx[c] \in Context
  BY DEF Typed, Server
<1>2. t.ctx[c] = IF c \in h THEN Notified(s.ctx[c], k) ELSE s.ctx[c]
  BY DEF Fired
<1> QED
  BY <1>1, <1>2, NotifiedContext

LEMMA FiredUnique ==
  ASSUME NEW s, Typed(s), NEW t, NEW k, NEW h, NEW q,
         Fired(s, t, k, h, q),
         NEW F, Unique(s, F)
  PROVE  Unique(t, F)
<1> SUFFICES ASSUME NEW c \in Clients, NEW n \in 1 .. MaxBlocking
             PROVE  Once(t, c, n) /\ (<<c, n>> \in F => Free(t, c, n))
  BY DEF Unique
<1>2. Once(s, c, n) /\ (<<c, n>> \in F => Free(s, c, n))
  BY DEF Unique
<1>3. /\ t.ctx[c].queue = s.ctx[c].queue /\ t.ctx[c].results = s.ctx[c].results
      /\ t.ctx[c].pending = IF c \in h /\ Wakes(s.ctx[c], k) THEN NoCommand ELSE s.ctx[c].pending
  BY FiredContexts
<1>4. \A i : InQueue(t, c, n, i) <=> InQueue(s, c, n, i)
  BY <1>3 DEF InQueue
<1>5. /\ \A i, j \in DOMAIN q : q[i] = q[j] => i = j
      /\ Len(s.que) \in Nat
  BY WokenFacts
<1>6. ASSUME NEW i, InQue(t, c, n, i)
      PROVE  \/ InQue(s, c, n, i)
             \/ /\ i \in Int /\ i - Len(s.que) \in DOMAIN q /\ q[i - Len(s.que)] = c
                /\ c \in h /\ Wakes(s.ctx[c], k) /\ s.ctx[c].pending.n = n
  <2>1. i \in DOMAIN t.que /\ t.que[i].client = c /\ t.que[i].cmd.n = n
    BY <1>6 DEF InQue
  <2>2. \/ i \in DOMAIN s.que /\ t.que[i] = s.que[i]
        \/ /\ i \in Int /\ i - Len(s.que) \in DOMAIN q
           /\ t.que[i].client = q[i - Len(s.que)] /\ t.que[i].client \in h
           /\ Wakes(s.ctx[t.que[i].client], k)
           /\ t.que[i].cmd = s.ctx[t.que[i].client].pending
    BY <2>1, WokenFacts
  <2> QED
    BY <2>1, <2>2 DEF InQue
<1>7. n # 0 /\ NoCommand.n = 0
  BY MaxBlockingAssumption DEF NoCommand
<1>8. CASE ~(c \in h /\ Wakes(s.ctx[c], k) /\ s.ctx[c].pending.n = n)
  <2>1. \A i : InQue(t, c, n, i) => InQue(s, c, n, i)
    BY <1>6, <1>8
  <2>2. t.ctx[c].pending.n = n => s.ctx[c].pending.n = n
    BY <1>3, <1>7
  <2> QED
    BY <1>2, <1>3, <1>4, <2>1, <2>2, FewerPlaces
<1>9. CASE c \in h /\ Wakes(s.ctx[c], k) /\ s.ctx[c].pending.n = n
  <2>1. s.ctx[c].results[n] = 0 /\ \A i : ~InQueue(s, c, n, i) /\ ~InQue(s, c, n, i)
    BY <1>2, <1>9 DEF Once
  <2>2. t.ctx[c].pending.n # n
    BY <1>3, <1>7, <1>9
  <2>3. ASSUME NEW i, NEW j, InQue(t, c, n, i), InQue(t, c, n, j)
        PROVE  i = j
    <3>1. /\ i \in Int /\ i - Len(s.que) \in DOMAIN q /\ q[i - Len(s.que)] = c
          /\ j \in Int /\ j - Len(s.que) \in DOMAIN q /\ q[j - Len(s.que)] = c
      BY <1>6, <2>1, <2>3
    <3>2. i - Len(s.que) = j - Len(s.que)
      BY <1>5, <3>1
    <3> QED
      BY <1>5, <3>1, <3>2
  <2>4. ~Free(s, c, n)
    BY <1>9 DEF Free
  <2>5. Once(t, c, n)
    BY <1>3, <1>4, <2>1, <2>2, <2>3 DEF Once
  <2> QED
    BY <1>2, <2>4, <2>5
<1> QED
  BY <1>8, <1>9

LEMMA FiredTidy ==
  ASSUME NEW F, NEW r, NEW s, Tidy(s, F, r), NEW t, NEW k, NEW h, NEW q,
         Fired(s, t, k, h, q)
  PROVE  Tidy(t, F, r)
<1>1. Typed(s) /\ s \in Server /\ h \in SUBSET Clients
  BY DEF Tidy, Typed, Server, Fired
<1> DEFINE W == [client : Clients, cmd : Blocking]
<1>2. t.que \in Seq(W)
  BY <1>1, WokenFacts
<1>3. t \in Server
  <2>1. t.ctx \in [Clients -> Context]
    <3>1. \A c \in Clients : t.ctx[c] \in Context
      BY <1>1, FiredContexts
    <3> QED
      BY <3>1 DEF Fired
  <2>2. t.subscribers \in SUBSET Clients
    BY <1>1 DEF Fired, Server
  <2>3. t.que \in Seq(Woken)
    <3>1. W \subseteq Woken
      BY DEF Woken, Blocking, Sent
    <3> HIDE DEF W
    <3> QED
      BY <1>2, <3>1
  <2> DEFINE f == t.ctx
             S == t.subscribers
             w == t.que
  <2>4. t = [s EXCEPT !.ctx = f, !.subscribers = S, !.que = w]
    BY DEF Fired
  <2>5. f \in [Clients -> Context] /\ S \in SUBSET Clients /\ w \in Seq(Woken)
    BY <2>1, <2>2, <2>3
  <2> HIDE DEF f, S, w
  <2> QED
    BY <1>1, <2>4, <2>5 DEF Server
<1>4. Typed(t)
  <2>1. \A c \in Clients : /\ t.ctx[c].queue \in Seq(Sent)
                           /\ t.ctx[c].pending \in Blocking \cup {NoCommand}
    <3>1. \A c \in Clients :
             /\ t.ctx[c].queue = s.ctx[c].queue
             /\ t.ctx[c].pending = NoCommand \/ t.ctx[c].pending = s.ctx[c].pending
      BY <1>1, FiredContexts
    <3> QED
      BY <3>1 DEF Tidy, Typed
  <2> QED
    BY <1>2, <1>3, <2>1 DEF Typed
<1>5. Subscribers(t)
  <2> SUFFICES ASSUME NEW c \in Clients
               PROVE  /\ t.ctx[c].life = "new" => c \notin t.subscribers
                      /\ t.ctx[c].life = "open" /\ t.ctx[c].clean =>
                            /\ t.ctx[c].subscribed <=> c \in t.subscribers
                            /\ t.ctx[c].subscribed <=>
                                  t.ctx[c].watched # {} \/ t.ctx[c].pending # NoCommand
    BY DEF Subscribers
  <2> DEFINE x == s.ctx[c]
  <2>1. x \in Context
    BY <1>1 DEF Server
  <2>2. /\ x.life = "new" => c \notin s.subscribers
        /\ x.life = "open" /\ x.clean => /\ x.subscribed <=> c \in s.subscribers
                                         /\ x.subscribed <=> x.watched # {} \/ x.pending # NoCommand
    BY DEF Tidy, Subscribers
  <2>3. c \in t.subscribers <=> c \in s.subscribers /\ ~(c \in h /\ Leaves(x, k))
    BY DEF Fired
  <2>4. CASE c \notin h
    <3>1. t.ctx[c] = x
      BY <1>1, <2>4, FiredContexts
    <3> QED
      BY <2>2, <2>3, <2>4, <3>1
  <2>5. CASE c \in h
    <3>1. t.ctx[c] = Notified(x, k)
      BY <1>1, <2>5, FiredContexts
    <3>2. /\ t.ctx[c].life = x.life /\ t.ctx[c].clean = x.clean /\ t.ctx[c].watched = x.watched
          /\ t.ctx[c].pending = IF Wakes(x, k) THEN NoCommand ELSE x.pending
          /\ t.ctx[c].subscribed <=> x.subscribed /\ ~Leaves(x, k)
      BY <2>1, <3>1, NotifiedContext
    <3>3. Wakes(x, k) => x.pending # NoCommand
      BY WakesPending
    <3>4. Leaves(x, k) <=> Wakes(x, k) /\ x.subscribed /\ x.watched = {}
      BY DEF Leaves
    <3> QED
      BY <2>2, <2>3, <2>5, <3>2, <3>3, <3>4
  <2> QED
    BY <2>4, <2>5
<1>6. Calm(t, r)
  BY <1>1, FiredContexts DEF Tidy, Calm
<1>7. Unique(t, F)
  BY FiredUnique DEF Tidy
<1> QED
  BY <1>4, <1>5, <1>6, <1>7 DEF Tidy

LEMMA FireTidy ==
  ASSUME NEW F, NEW r, NEW s, Tidy(s, F, r), NEW k, NEW t \in Fire(s, k)
  PROVE  Tidy(t, F, r)
<1>1. s \in Server
  BY DEF Tidy, Typed
<1>2. t = [s EXCEPT !.process = "down"] \/ \E h, q : Fired(s, t, k, h, q)
  BY <1>1, FireCases
<1>3. CASE t = [s EXCEPT !.process = "down"]
  BY <1>3, ProcessTidy
<1>4. CASE \E h, q : Fired(s, t, k, h, q)
  BY <1>4, FiredTidy
<1> QED
  BY <1>2, <1>3, <1>4

-----------------------------------------------------------------------------
(* The commands.                                                           *)

LEMMA Arguments ==
  ASSUME NEW cmd \in Sent
  PROVE  /\ cmd.op \in {"LPUSH", "LPOP", "RPOPLPUSH", "WATCH", "UNWATCH", "MULTI", "DISCARD",
                        "SELECT", "BLPOP", "BRPOPLPUSH"}
         /\ cmd.op = "LPUSH" => cmd.args[1] \in Keys
         /\ cmd.op \in {"RPOPLPUSH", "BRPOPLPUSH"} => cmd.args[2] \in Keys
         /\ cmd.op = "WATCH" => ToSet(cmd.args) \in SUBSET Keys /\ ToSet(cmd.args) # {}
         /\ cmd.op = "SELECT" => cmd.args[1] \in Dbs
<1>1. cmd.op \in Ops \ {"EXEC"} /\ cmd.args \in Args(cmd.op)
  BY AllowedAssumption DEF Sent
<1>2. cmd.op \in {"LPUSH", "LPOP", "RPOPLPUSH", "WATCH", "UNWATCH", "MULTI", "DISCARD",
                  "SELECT", "BLPOP", "BRPOPLPUSH"}
  BY <1>1 DEF Ops, BlockingOps
<1>3. cmd.op = "LPUSH" => cmd.args[1] \in Keys
  BY <1>1 DEF Args
<1>4. cmd.op \in {"RPOPLPUSH", "BRPOPLPUSH"} => cmd.args[2] \in Keys
  BY <1>1 DEF Args
<1>5. cmd.op = "WATCH" => ToSet(cmd.args) \in SUBSET Keys /\ ToSet(cmd.args) # {}
  <2> SUFFICES ASSUME cmd.op = "WATCH" PROVE ToSet(cmd.args) \in SUBSET Keys /\ ToSet(cmd.args) # {}
    OBVIOUS
  <2>1. PICK k \in Keys : cmd.args = <<k>>
    BY <1>1 DEF Args
  <2>2. ToSet(cmd.args) = {k}
    BY <2>1 DEF ToSet
  <2> QED
    BY <2>1, <2>2
<1>6. cmd.op = "SELECT" => cmd.args[1] \in Dbs
  BY <1>1 DEF Args
<1> QED
  BY <1>2, <1>3, <1>4, <1>5, <1>6

LEMMA FewerFree ==
  ASSUME NEW F, NEW r, NEW s, Tidy(s, F, r), NEW c, NEW n
  PROVE  Tidy(s, F \ {<<c, n>>}, r)
BY DEF Tidy, Unique

LEMMA PushTidy ==
  ASSUME NEW F, NEW r, NEW s, Tidy(s, F, r), NEW c \in Clients, NEW k \in Keys
  PROVE  Tidy(Push(s, c, k), F, r)
<1> DEFINE u == Changed(s, k)
           d == s.ctx[c].db
<1>1. Tidy(u, F, r)
  BY ChangedTidy
<1>2. d \in Dbs
  BY DEF Tidy, Typed, Server, Context
<1>3. u.lists[d] \cup {k} \in SUBSET Keys
  BY <1>1, <1>2 DEF Tidy, Typed, Server
<1>4. Push(s, c, k) = [u EXCEPT !.lists[d] = u.lists[d] \cup {k}]
  BY DEF Push
<1> HIDE DEF u, d
<1> QED
  BY <1>1, <1>2, <1>3, <1>4, ListsTidy

LEMMA PopTidy ==
  ASSUME NEW F, NEW r, NEW s, Tidy(s, F, r), NEW c \in Clients, NEW k, NEW t \in Pop(s, c, k)
  PROVE  Tidy(t, F, r)
<1> DEFINE u == Changed(s, k)
           d == s.ctx[c].db
<1>1. Tidy(u, F, r)
  BY ChangedTidy
<1>2. d \in Dbs
  BY DEF Tidy, Typed, Server, Context
<1>3. u.lists[d] \ {k} \in SUBSET Keys
  BY <1>1, <1>2 DEF Tidy, Typed, Server
<1>4. t = u \/ t = [u EXCEPT !.lists[d] = u.lists[d] \ {k}]
  BY DEF Pop
<1> HIDE DEF u, d
<1> QED
  BY <1>1, <1>2, <1>3, <1>4, ListsTidy

LEMMA FireOnTidy ==
  ASSUME NEW F, NEW r, NEW T, \A u \in T : Tidy(u, F, r), NEW k, NEW t \in FireOn(T, k)
  PROVE  Tidy(t, F, r)
BY FireTidy DEF FireOn

LEMMA PushAndFireTidy ==
  ASSUME NEW F, NEW r, NEW s, Tidy(s, F, r), NEW c \in Clients, NEW k \in Keys,
         NEW t \in PushAndFire(s, c, k)
  PROVE  Tidy(t, F, r)
<1> DEFINE pushed == {Push(s, c, k)}
           new == FireOn(pushed, k)
<1>1. \A u \in pushed : Tidy(u, F, r)
  BY PushTidy
<1> HIDE DEF pushed
<1>2. \A u \in new : Tidy(u, F, r)
  BY <1>1, FireOnTidy
<1> HIDE DEF new
<1>3. t \in FireOn(pushed, k) \/ t \in FireOn(new, k)
  BY DEF PushAndFire, pushed, new
<1> QED
  BY <1>1, <1>2, <1>3, FireOnTidy

LEMMA PopAndFireTidy ==
  ASSUME NEW F, NEW r, NEW s, Tidy(s, F, r), NEW c \in Clients, NEW k,
         NEW t \in PopAndFire(s, c, k)
  PROVE  Tidy(t, F, r)
<1>1. PICK p \in Pop(s, c, k) : t \in FireOn({p}, k) \/ t \in FireOn(Fire(p, k), k)
  BY DEF PopAndFire
<1>2. Tidy(p, F, r)
  BY PopTidy
<1>3. (\A u \in {p} : Tidy(u, F, r)) /\ (\A u \in Fire(p, k) : Tidy(u, F, r))
  BY <1>2, FireTidy
<1> QED
  BY <1>1, <1>3, FireOnTidy

LEMMA ListCommandTidy ==
  ASSUME NEW F, NEW r, NEW s, Tidy(s, F, r), NEW c \in Clients, NEW cmd \in Sent,
         NEW t, \/ cmd.op = "LPUSH" /\ t \in LPush(s, c, cmd)
                \/ cmd.op = "LPOP" /\ t \in LPop(s, c, cmd)
                \/ cmd.op = "RPOPLPUSH" /\ t \in RPopLPush(s, c, cmd)
  PROVE  Tidy(t, F, r)
<1>1. CASE cmd.op = "LPUSH" /\ t \in LPush(s, c, cmd)
  BY <1>1, Arguments, PushAndFireTidy DEF LPush
<1>2. CASE cmd.op = "LPOP" /\ t \in LPop(s, c, cmd)
  <2>1. t = s \/ t \in PopAndFire(s, c, cmd.args[1])
    BY <1>2 DEF LPop
  <2> QED
    BY <2>1, PopAndFireTidy
<1>3. CASE cmd.op = "RPOPLPUSH" /\ t \in RPopLPush(s, c, cmd)
  <2>1. t = s \/ \E p \in PopAndFire(s, c, cmd.args[1]) : t \in Fire(Push(p, c, cmd.args[2]), cmd.args[1])
    BY <1>3 DEF RPopLPush
  <2>2. CASE t = s
    BY <2>2
  <2>3. ASSUME NEW p \in PopAndFire(s, c, cmd.args[1]), t \in Fire(Push(p, c, cmd.args[2]), cmd.args[1])
        PROVE  Tidy(t, F, r)
    <3>1. Tidy(p, F, r)
      BY PopAndFireTidy
    <3>2. Tidy(Push(p, c, cmd.args[2]), F, r)
      BY <1>3, <3>1, Arguments, PushTidy
    <3> QED
      BY <2>3, <3>2, FireTidy
  <2> QED
    BY <2>1, <2>2, <2>3
<1> QED
  BY <1>1, <1>2, <1>3

\* A blocking command gets its result, or is pending.
LEMMA BlockingCommandTidy ==
  ASSUME NEW F, NEW r, NEW s, Tidy(s, F, r), NEW c \in Clients, s.ctx[c].life = "open",
         NEW cmd \in Blocking, <<c, cmd.n>> \in F,
         NEW t, \/ cmd.op = "BLPOP" /\ t \in BLPop(s, c, cmd)
                \/ cmd.op = "BRPOPLPUSH" /\ t \in BRPopLPush(s, c, cmd)
  PROVE  Tidy(t, F \ {<<c, cmd.n>>}, r)
<1>1. \/ t = SetPending(s, c, cmd)
      \/ \E p : Tidy(p, F, r) /\ t = Result(p, c, cmd)
  <2>1. CASE t \in TooLate(s, c, cmd)
    <3>1. t = Result(s, c, cmd)
      BY <2>1 DEF TooLate
    <3> QED
      BY <3>1
  <2>2. CASE cmd.op = "BLPOP" /\ t \in BLPop(s, c, cmd) /\ t \notin TooLate(s, c, cmd)
    <3>1. t = SetPending(s, c, cmd) \/ \E k : \E p \in Pop(s, c, k) : t = Result(p, c, cmd)
      BY <2>2 DEF BLPop
    <3> QED
      BY <3>1, PopTidy
  <2>3. CASE cmd.op = "BRPOPLPUSH" /\ t \in BRPopLPush(s, c, cmd) /\ t \notin TooLate(s, c, cmd)
    <3>1. \/ t = SetPending(s, c, cmd)
          \/ \E q \in PopAndFire(s, c, cmd.args[1]) : \E p \in PushAndFire(q, c, cmd.args[2]) :
                t = Result(p, c, cmd)
      BY <2>3 DEF BRPopLPush
    <3>2. ASSUME NEW q \in PopAndFire(s, c, cmd.args[1]), NEW p \in PushAndFire(q, c, cmd.args[2])
          PROVE  Tidy(p, F, r)
      <4>1. Tidy(q, F, r)
        BY PopAndFireTidy
      <4>2. cmd.args[2] \in Keys
        BY <2>3, Arguments DEF Blocking
      <4> QED
        BY <4>1, <4>2, PushAndFireTidy
    <3> QED
      BY <3>1, <3>2
  <2> QED
    BY <2>1, <2>2, <2>3
<1>2. CASE t = SetPending(s, c, cmd)
  BY <1>2, SetPendingTidy
<1>3. ASSUME NEW p, Tidy(p, F, r), t = Result(p, c, cmd)
      PROVE  Tidy(t, F \ {<<c, cmd.n>>}, r)
  BY <1>3, ResultTidy
<1> QED
  BY <1>1, <1>2, <1>3

LEMMA MultiTidy ==
  ASSUME NEW F, NEW r, NEW s, Tidy(s, F, r), NEW c \in Clients, NEW b \in BOOLEAN, b \/ r = c
  PROVE  Tidy([s EXCEPT !.ctx[c].multi = b], F, r)
<1> DEFINE x == s.ctx[c]
           y == [x EXCEPT !.multi = b]
           t == Edit(s, c, y, s.subscribers)
<1>1. s \in Server /\ x \in Context
  BY DEF Tidy, Typed, Server
<1>2. y \in Context
  BY <1>1 DEF Context
<1>3. /\ y.life = x.life /\ y.multi = b /\ y.queue = x.queue /\ y.watched = x.watched
      /\ y.pending = x.pending /\ y.clean = x.clean /\ y.subscribed = x.subscribed
      /\ y.results = x.results
  BY <1>1 DEF Context
<1>4. [s EXCEPT !.ctx[c].multi = b] = t
  BY <1>1 DEF Server, Edit
<1> HIDE DEF y
<1>5. Edited(s, t, c, y) /\ t.subscribers = s.subscribers
  BY <1>1, <1>2, EditContext
<1> HIDE DEF t
<1>6. /\ y.life = "new" => c \notin t.subscribers
      /\ y.life = "open" /\ y.clean => /\ y.subscribed <=> c \in t.subscribers
                                       /\ y.subscribed <=> y.watched # {} \/ y.pending # NoCommand
  BY <1>3, <1>5 DEF Tidy, Subscribers
<1> QED
  BY <1>2, <1>3, <1>4, <1>5, <1>6, EditTidy

LEMMA SelectTidy ==
  ASSUME NEW F, NEW r, NEW s, Tidy(s, F, r), NEW c \in Clients, NEW d \in Dbs
  PROVE  Tidy([s EXCEPT !.ctx[c].db = d], F, r)
<1> DEFINE x == s.ctx[c]
           y == [x EXCEPT !.db = d]
           t == Edit(s, c, y, s.subscribers)
<1>1. s \in Server /\ x \in Context /\ s.ctx \in [Clients -> Context]
  BY DEF Tidy, Typed, Server
<1>2. y \in Context
  BY <1>1 DEF Context
<1>3. /\ y.life = x.life /\ y.multi = x.multi /\ y.queue = x.queue /\ y.watched = x.watched
      /\ y.pending = x.pending /\ y.clean = x.clean /\ y.subscribed = x.subscribed
      /\ y.results = x.results
  BY <1>1 DEF Context
<1>4. [s EXCEPT !.ctx[c].db = d] = t
  BY <1>1 DEF Server, Edit
<1> HIDE DEF y
<1>5. Edited(s, t, c, y) /\ t.subscribers = s.subscribers
  BY <1>1, <1>2, EditContext
<1> HIDE DEF t
<1>6. Similar(s, t)
  BY <1>1, <1>3, <1>5 DEF Similar, Edited
<1> QED
  BY <1>4, <1>6, SimilarTidy

LEMMA ExecutedTidy ==
  ASSUME NEW F, NEW r, NEW s, Tidy(s, F, r), NEW c \in Clients, s.ctx[c].life = "open",
         NEW cmd \in Sent, cmd.n # 0 => <<c, cmd.n>> \in F,
         NEW t \in Executed(s, c, cmd)
  PROVE  Tidy(t, F \ {<<c, cmd.n>>}, r)
<1>1. CASE cmd.op \in BlockingOps
  <2>1. cmd \in Blocking /\ <<c, cmd.n>> \in F
    BY <1>1, Commands
  <2>2. \/ cmd.op = "BLPOP" /\ t \in BLPop(s, c, cmd)
        \/ cmd.op = "BRPOPLPUSH" /\ t \in BRPopLPush(s, c, cmd)
    BY <1>1 DEF BlockingOps, Executed
  <2> QED
    BY <2>1, <2>2, BlockingCommandTidy
<1>2. CASE cmd.op \notin BlockingOps
  <2>1. \/ cmd.op = "LPUSH" /\ t \in LPush(s, c, cmd)
        \/ cmd.op = "LPOP" /\ t \in LPop(s, c, cmd)
        \/ cmd.op = "RPOPLPUSH" /\ t \in RPopLPush(s, c, cmd)
        \/ cmd.op = "WATCH" /\ t = WatchKeys(s, c, ToSet(cmd.args))
        \/ t = ClearWatchedKeys(s, c)
        \/ t = [s EXCEPT !.ctx[c].multi = TRUE]
        \/ t = FinishTransaction(s, c)
        \/ cmd.op = "SELECT" /\ t = [s EXCEPT !.ctx[c].db = cmd.args[1]]
    <3>1. cmd.op \in {"LPUSH", "LPOP", "RPOPLPUSH", "WATCH", "UNWATCH", "MULTI", "DISCARD", "SELECT"}
      BY <1>2, Arguments DEF BlockingOps
    <3> QED
      BY <3>1 DEF Executed
  <2>2. Tidy(t, F, r)
    <3>1. CASE \/ cmd.op = "LPUSH" /\ t \in LPush(s, c, cmd)
               \/ cmd.op = "LPOP" /\ t \in LPop(s, c, cmd)
               \/ cmd.op = "RPOPLPUSH" /\ t \in RPopLPush(s, c, cmd)
      BY <3>1, ListCommandTidy
    <3>2. CASE cmd.op = "WATCH" /\ t = WatchKeys(s, c, ToSet(cmd.args))
      <4>1. ToSet(cmd.args) \in SUBSET Keys /\ ToSet(cmd.args) # {}
        BY <3>2, Arguments
      <4> QED
        BY <3>2, <4>1, WatchTidy
    <3>3. CASE t = ClearWatchedKeys(s, c)
      BY <3>3, ClearWatchedTidy
    <3>4. CASE t = [s EXCEPT !.ctx[c].multi = TRUE]
      BY <3>4, MultiTidy
    <3>5. CASE t = FinishTransaction(s, c)
      BY <3>5, FinishTidy
    <3>6. CASE cmd.op = "SELECT" /\ t = [s EXCEPT !.ctx[c].db = cmd.args[1]]
      BY <3>6, Arguments, SelectTidy
    <3> QED
      BY <2>1, <3>1, <3>2, <3>3, <3>4, <3>5, <3>6
  <2> QED
    BY <2>2, FewerFree
<1> QED
  BY <1>1, <1>2

LEMMA CheckPendingTidy ==
  ASSUME NEW F, NEW r, NEW s, Tidy(s, F, r), NEW c \in Clients, NEW t \in CheckPending(s, c)
  PROVE  Tidy(t, F, r) /\ t.ctx[c].life = s.ctx[c].life /\ t.ctx[c].multi = s.ctx[c].multi
<1>1. t = s \/ t = ClearPending(s, c)
  BY DEF CheckPending
<1>2. CASE t = s
  BY <1>2
<1>3. CASE t = ClearPending(s, c)
  <2> DEFINE x == s.ctx[c]
             y == [x EXCEPT !.pending = NoCommand, !.subscribed = x.subscribed /\ x.watched # {}]
  <2>1. s \in Server /\ x \in Context
    BY DEF Tidy, Typed, Server
  <2>2. Edited(s, t, c, y)
    BY <1>3, <2>1, ClearPendingEffect
  <2>3. y.life = x.life /\ y.multi = x.multi
    BY <2>1 DEF Context
  <2> HIDE DEF y
  <2>4. t.ctx[c] = y
    BY <2>1, <2>2 DEF Edited, Server
  <2> QED
    BY <1>3, <2>3, <2>4, ClearPendingTidy
<1> QED
  BY <1>1, <1>2, <1>3

LEMMA EndToEndTidy ==
  ASSUME NEW F, NEW r, NEW s, Tidy(s, F, r), NEW c \in Clients, s.ctx[c].life = "open",
         NEW cmd \in Sent, cmd.n # 0 => <<c, cmd.n>> \in F,
         NEW t \in EndToEnd(s, c, cmd)
  PROVE  Tidy(t, F \ {<<c, cmd.n>>}, r)
<1>1. CASE Queued(s, c, cmd)
  <2>1. t = [s EXCEPT !.ctx[c].queue = Append(@, cmd)]
    BY <1>1 DEF EndToEnd
  <2>2. s.ctx[c].multi
    BY <1>1 DEF Queued
  <2> QED
    BY <2>1, <2>2, AppendTidy
<1>2. CASE ~Queued(s, c, cmd)
  <2>1. PICK u \in CheckPending(s, c) : t \in Executed(u, c, cmd)
    BY <1>2 DEF EndToEnd
  <2>2. Tidy(u, F, r) /\ u.ctx[c].life = "open"
    BY CheckPendingTidy
  <2> QED
    BY <2>1, <2>2, ExecutedTidy
<1> QED
  BY <1>1, <1>2

-----------------------------------------------------------------------------
(* The actions.                                                            *)

\* The blocking commands that have not been sent.
Unsent == {p \in Clients \X (1 .. MaxBlocking) : p[2] > blocked[p[1]]}

SessionsInv ==
    /\ running \in Clients \cup {Nobody}
    /\ turn \in BOOLEAN
    /\ blocked \in [Clients -> 0 .. MaxBlocking]
    /\ Tidy(server, Unsent, running)

LEMMA LessFree ==
  ASSUME NEW F, NEW G, NEW r, NEW s, Tidy(s, F, r), G \subseteq F
  PROVE  Tidy(s, G, r)
BY DEF Tidy, Unique

LEMMA NewContexts ==
  ASSUME NEW life \in {"new", "open", "gone"}, NEW a \in BOOLEAN, NEW b \in BOOLEAN
  PROVE  LET x == NewContext(life, a, b)
         IN  /\ x \in Context /\ x.life = life /\ x.multi = FALSE /\ x.queue = <<>>
             /\ x.watched = {} /\ x.pending = NoCommand /\ (x.subscribed <=> b)
             /\ (x.clean <=> ~a /\ ~b) /\ (x.aborted <=> a) /\ (x.changed <=> FALSE)
             /\ x.results = [n \in 1 .. MaxBlocking |-> 0]
<1>1. <<>> \in Seq(Command) /\ [n \in 1 .. MaxBlocking |-> 0] \in [1 .. MaxBlocking -> Nat]
  OBVIOUS
<1> QED
  BY <1>1, FirstDbAssumption DEF NewContext, Context

LEMMA EmptyTidy == Tidy(EmptyServer, Clients \X (1 .. MaxBlocking), Nobody)
<1> DEFINE s == EmptyServer
           x == NewContext("new", FALSE, FALSE)
<1>1. /\ x \in Context /\ x.life = "new" /\ x.multi = FALSE /\ x.queue = <<>>
      /\ x.pending = NoCommand /\ x.results = [n \in 1 .. MaxBlocking |-> 0]
  BY NewContexts
<1> HIDE DEF x
<1>2. \A c \in Clients : s.ctx[c] = x
  BY DEF EmptyServer, x
<1>3. s.subscribers = {} /\ s.que = <<>>
  BY DEF EmptyServer
<1>4. s \in Server
  <2>1. s = [ctx |-> [c \in Clients |-> x], subscribers |-> {}, que |-> <<>>,
             lists |-> [d \in Dbs |-> {}], process |-> "running"]
    BY DEF EmptyServer, x
  <2>2. <<>> \in Seq(Woken) /\ [c \in Clients |-> x] \in [Clients -> Context]
        /\ [d \in Dbs |-> {}] \in [Dbs -> SUBSET Keys]
    BY <1>1
  <2> QED
    BY <2>1, <2>2 DEF Server
<1> HIDE DEF s
<1>5. Typed(s)
  <2>1. <<>> \in Seq(Sent) /\ <<>> \in Seq([client : Clients, cmd : Blocking])
    OBVIOUS
  <2> QED
    BY <1>1, <1>2, <1>3, <1>4, <2>1 DEF Typed
<1>6. Subscribers(s) /\ Calm(s, Nobody)
  BY <1>1, <1>2, <1>3 DEF Subscribers, Calm
<1>7. ASSUME NEW c \in Clients, NEW n \in 1 .. MaxBlocking
      PROVE  Once(s, c, n) /\ Free(s, c, n)
  <2>1. n # 0 /\ NoCommand.n = 0
    BY MaxBlockingAssumption DEF NoCommand
  <2>2. s.ctx[c].results[n] = 0 /\ s.ctx[c].pending.n # n
    BY <1>1, <1>2, <2>1
  <2>3. \A i : ~InQueue(s, c, n, i) /\ ~InQue(s, c, n, i)
    BY <1>1, <1>2, <1>3 DEF InQueue, InQue
  <2> QED
    BY <2>2, <2>3 DEF Once, Free
<1> QED
  BY <1>5, <1>6, <1>7 DEF Tidy, Unique, s

LEMMA InitInv == Init => SessionsInv
<1> SUFFICES ASSUME Init PROVE SessionsInv
  OBVIOUS
<1>1. Unsent \subseteq Clients \X (1 .. MaxBlocking)
  BY DEF Unsent
<1>2. Tidy(server, Unsent, Nobody)
  BY <1>1, EmptyTidy, LessFree DEF Init
<1>3. blocked \in [Clients -> 0 .. MaxBlocking]
  BY MaxBlockingAssumption DEF Init
<1> QED
  BY <1>2, <1>3 DEF Init, SessionsInv

LEMMA ConnectInv ==
  ASSUME SessionsInv, NEW c \in Clients, Connect(c)
  PROVE  SessionsInv'
<1> DEFINE F == Unsent
<1>1. Tidy(server, F, running) /\ server \in Server /\ server.ctx[c].life = "new"
  BY DEF SessionsInv, Tidy, Typed, Connect, ctx
<1>2. PICK a \in BOOLEAN, b \in BOOLEAN : server' = [server EXCEPT !.ctx[c] = NewContext("open", a, b)]
  BY GarbageAssumption DEF Connect
<1> DEFINE y == NewContext("open", a, b)
<1>3. /\ y \in Context /\ y.life = "open" /\ y.multi = FALSE /\ y.queue = <<>> /\ y.watched = {}
      /\ y.pending = NoCommand /\ (y.subscribed <=> b) /\ (y.clean <=> ~a /\ ~b)
      /\ y.results = [n \in 1 .. MaxBlocking |-> 0]
  <2>1. <<>> \in Seq(Command) /\ [n \in 1 .. MaxBlocking |-> 0] \in [1 .. MaxBlocking -> Nat]
    OBVIOUS
  <2>2. (~a /\ ~b) \in BOOLEAN
    OBVIOUS
  <2> QED
    BY <2>1, <2>2, FirstDbAssumption DEF NewContext, Context
<1> HIDE DEF y
<1>4. server' = Edit(server, c, y, server.subscribers)
  BY <1>1, <1>2 DEF Edit, Server, y
<1>5. Edited(server, server', c, y) /\ server'.subscribers = server.subscribers /\ server'.ctx[c] = y
  BY <1>1, <1>3, <1>4, EditContext
<1>6. c \notin server.subscribers
  BY <1>1 DEF Tidy, Subscribers
<1>7. ASSUME NEW n \in 1 .. MaxBlocking
      PROVE  Once(server', c, n) /\ (<<c, n>> \in F => Free(server', c, n))
  <2>1. Once(server, c, n) /\ (<<c, n>> \in F => Free(server, c, n))
    BY <1>1 DEF Tidy, Unique
  <2>2. n # 0 /\ NoCommand.n = 0
    BY MaxBlockingAssumption DEF NoCommand
  <2>3. server'.ctx[c].results[n] = 0 /\ server'.ctx[c].pending.n # n
    BY <1>3, <1>5, <2>2
  <2>4. \A i : ~InQueue(server', c, n, i) /\ (InQue(server', c, n, i) => InQue(server, c, n, i))
    BY <1>3, <1>5 DEF InQueue, InQue, Edited
  <2> QED
    BY <2>1, <2>3, <2>4 DEF Once, Free
<1>8. y.queue \in Seq(Sent) /\ y.pending \in Blocking \cup {NoCommand}
  BY <1>3
<1>9. Tidy(server', F, running)
  <2>1. y.life = "open" /\ y.clean => /\ y.subscribed <=> c \in server'.subscribers
                                      /\ y.subscribed <=> y.watched # {} \/ y.pending # NoCommand
    BY <1>3, <1>5, <1>6
  <2> HIDE DEF F
  <2> QED
    BY <1>1, <1>3, <1>5, <1>7, <1>8, <2>1, PutTidy
<1>10. UNCHANGED <<running, turn, blocked>>
  BY DEF Connect
<1> QED
  BY <1>9, <1>10 DEF SessionsInv, Unsent

LEMMA DisconnectInv ==
  ASSUME SessionsInv, NEW c \in Clients, Disconnect(c)
  PROVE  SessionsInv'
<1> DEFINE F == Unsent
           x == server.ctx[c]
           y == [NewContext("gone", FALSE, FALSE) EXCEPT !.results = x.results]
           S == IF x.subscribed THEN server.subscribers \ {c} ELSE server.subscribers
<1>1. Tidy(server, F, running) /\ server \in Server /\ x \in Context
  BY DEF SessionsInv, Tidy, Typed, Server
<1>2. \/ server' = Edit(server, c, y, S)
      \/ server' = [server EXCEPT !.process = "down"]
  BY <1>1 DEF Disconnect, Edit, Server, ctx
<1>3. UNCHANGED <<running, turn, blocked>>
  BY DEF Disconnect
<1>4. CASE server' = Edit(server, c, y, S)
  <2>1. /\ y \in Context /\ y.life = "gone" /\ y.multi = FALSE /\ y.queue = <<>>
        /\ y.pending = NoCommand /\ y.results = x.results
    <3> DEFINE z == NewContext("gone", FALSE, FALSE)
    <3>1. z \in Context /\ z.life = "gone" /\ z.multi = FALSE /\ z.queue = <<>>
          /\ z.pending = NoCommand
      BY NewContexts
    <3> HIDE DEF z
    <3>2. LET u == [z EXCEPT !.results = x.results]
          IN  /\ u \in Context /\ u.life = "gone" /\ u.multi = FALSE /\ u.queue = <<>>
              /\ u.pending = NoCommand /\ u.results = x.results
      BY <1>1, <3>1 DEF Context
    <3> QED
      BY <3>2 DEF z
  <2>2. S \in SUBSET Clients /\ S \ {c} = server.subscribers \ {c}
    BY <1>1 DEF Server
  <2> HIDE DEF y, S
  <2>3. Edited(server, server', c, y)
    BY <1>1, <1>4, <2>1, <2>2, EditBoth
  <2> HIDE DEF F
  <2>4. Tidy(server', F, running)
    BY <1>1, <2>1, <2>3, EditTidy
  <2> QED
    BY <1>3, <2>4 DEF SessionsInv, Unsent, F
<1>5. CASE server' = [server EXCEPT !.process = "down"]
  BY <1>1, <1>3, <1>5, ProcessTidy DEF SessionsInv, Unsent
<1> QED
  BY <1>2, <1>4, <1>5

\* What the worker executes is a command, with a number of its own if it blocks.
Number(c, op) == IF op \in BlockingOps THEN blocked[c] + 1 ELSE 0

LEMMA RequestCommand ==
  ASSUME SessionsInv, NEW c \in Clients, NEW op \in Allowed \ {"EXEC"}, Request(c, op)
  PROVE  /\ Number(c, op) \in 0 .. MaxBlocking
         /\ op \in BlockingOps => Number(c, op) # 0 /\ <<c, Number(c, op)>> \in Unsent
         /\ \E cmd \in Sent : cmd.op = op /\ cmd.n = Number(c, op) /\ server' \in EndToEnd(server, c, cmd)
<1>1. blocked \in [Clients -> 0 .. MaxBlocking]
  BY DEF SessionsInv
<1> DEFINE n == IF op \in BlockingOps THEN blocked[c] + 1 ELSE 0
<1>2. n \in 0 .. MaxBlocking /\ (op \in BlockingOps => n # 0 /\ <<c, n>> \in Unsent)
  <2>1. blocked[c] \in 0 .. MaxBlocking /\ MaxBlocking \in Nat
    BY <1>1, MaxBlockingAssumption
  <2>2. op \in BlockingOps => blocked[c] < MaxBlocking
    BY DEF Request
  <2>3. op \in BlockingOps => blocked[c] + 1 \in 1 .. MaxBlocking /\ blocked[c] + 1 > blocked[c]
    BY <2>1, <2>2
  <2> QED
    BY <2>1, <2>3 DEF Unsent
<1>3. PICK args \in Args(op), timed \in (IF op \in BlockingOps THEN BOOLEAN ELSE {FALSE}) :
         server' \in EndToEnd(server, c, [op |-> op, args |-> args, n |-> n, timed |-> timed])
  BY DEF Request
<1> DEFINE cmd == [op |-> op, args |-> args, n |-> n, timed |-> timed]
<1>4. cmd \in Sent
  <2>1. op \in Ops /\ timed \in BOOLEAN /\ (op \notin BlockingOps => ~timed /\ n = 0)
    BY AllowedAssumption
  <2>2. args \in Seq(Keys \cup Dbs)
    <3>1. \A k \in Keys \cup Dbs : <<k>> \in Seq(Keys \cup Dbs)
      OBVIOUS
    <3>2. \A p \in Keys \X Keys : p \in Seq(Keys \cup Dbs)
      OBVIOUS
    <3>3. <<>> \in Seq(Keys \cup Dbs)
      OBVIOUS
    <3> QED
      BY <2>1, <3>1, <3>2, <3>3 DEF Args, Ops, BlockingOps
  <2> HIDE DEF n
  <2> QED
    BY <1>2, <2>1, <2>2 DEF Sent, Command
<1> QED
  BY <1>2, <1>3, <1>4 DEF Number

LEMMA RequestInv ==
  ASSUME SessionsInv, NEW c \in Clients, NEW op \in Allowed \ {"EXEC"}, Request(c, op)
  PROVE  SessionsInv'
<1>1. /\ server \in Server /\ Tidy(server, Unsent, running) /\ server.ctx[c].life = "open"
      /\ blocked \in [Clients -> 0 .. MaxBlocking]
  BY DEF SessionsInv, Tidy, Typed, Request, ctx
<1> DEFINE n == Number(c, op)
<1>2. n \in 0 .. MaxBlocking /\ (op \in BlockingOps => n # 0 /\ <<c, n>> \in Unsent)
  BY RequestCommand
<1>3. PICK cmd \in Sent : cmd.op = op /\ cmd.n = n /\ server' \in EndToEnd(server, c, cmd)
  BY RequestCommand
<1>4. n = IF op \in BlockingOps THEN blocked[c] + 1 ELSE 0
  BY DEF Number
<1> HIDE DEF n
<1>5. Tidy(server', Unsent \ {<<c, n>>}, running)
  <2>1. cmd.n # 0 => <<c, cmd.n>> \in Unsent
    BY <1>2, <1>3, <1>4
  <2> QED
    BY <1>1, <1>3, <2>1, EndToEndTidy
<1>6. /\ UNCHANGED <<running, turn>>
      /\ blocked' = IF op \in BlockingOps THEN [blocked EXCEPT ![c] = blocked[c] + 1] ELSE blocked
  BY DEF Request
<1>7. blocked' \in [Clients -> 0 .. MaxBlocking]
  BY <1>1, <1>2, <1>4, <1>6
<1>8. Unsent' \subseteq Unsent \ {<<c, n>>}
  <2> SUFFICES ASSUME NEW d \in Clients, NEW m \in 1 .. MaxBlocking, m > blocked'[d]
               PROVE  m > blocked[d] /\ <<d, m>> # <<c, n>>
    BY DEF Unsent
  <2>1. blocked[d] \in Nat /\ m \in Nat \ {0} /\ blocked[c] \in Nat
    BY <1>1, MaxBlockingAssumption
  <2>2. CASE op \in BlockingOps /\ d = c
    <3>1. blocked'[d] = blocked[c] + 1 /\ n = blocked[c] + 1
      BY <1>1, <1>4, <1>6, <2>2
    <3> QED
      BY <2>1, <2>2, <3>1
  <2>3. CASE ~(op \in BlockingOps /\ d = c)
    <3>1. blocked'[d] = blocked[d] /\ (d = c => n = 0)
      BY <1>1, <1>4, <1>6, <2>3
    <3> QED
      BY <2>1, <3>1
  <2> QED
    BY <2>2, <2>3
<1>9. Tidy(server', Unsent', running)
  BY <1>5, <1>8, LessFree
<1> QED
  BY <1>6, <1>7, <1>9 DEF SessionsInv

LEMMA TakeWokenInv ==
  ASSUME SessionsInv, TakeWoken
  PROVE  SessionsInv'
<1> DEFINE F == Unsent
           w == Head(server.que)
           rest == [server EXCEPT !.que = Tail(@)]
           p == <<w.client, w.cmd.n>>
<1>1. Tidy(server, F, running) /\ server.que # <<>> /\ UNCHANGED <<running, turn, blocked>>
  BY DEF SessionsInv, TakeWoken
<1>2. IF server.ctx[w.client].life = "open"
         THEN server' \in EndToEnd(rest, w.client, w.cmd)
         ELSE server' = [rest EXCEPT !.process = "stalled"]
  BY DEF TakeWoken, ctx
<1> HIDE DEF F
<1>3. /\ w.client \in Clients /\ w.cmd \in Blocking
      /\ Tidy(rest, F \cup {p}, running) /\ rest.ctx = server.ctx /\ p \notin F
  BY <1>1, TakenTidy
<1>4. w.cmd \in Sent
  BY <1>3 DEF Blocking
<1> HIDE DEF w, rest
<1>5. CASE server.ctx[w.client].life = "open"
  <2>1. rest.ctx[w.client].life = "open" /\ server' \in EndToEnd(rest, w.client, w.cmd)
    BY <1>2, <1>3, <1>5
  <2>2. Tidy(server', (F \cup {p}) \ {p}, running)
    BY <1>3, <1>4, <2>1, EndToEndTidy
  <2>3. F \subseteq (F \cup {p}) \ {p}
    BY <1>3
  <2> QED
    BY <1>1, <2>2, <2>3, LessFree DEF SessionsInv, Unsent, F
<1>6. CASE server.ctx[w.client].life # "open"
  <2>1. server' = [rest EXCEPT !.process = "stalled"]
    BY <1>2, <1>6
  <2>2. Tidy(rest, F, running)
    BY <1>3, LessFree
  <2>3. Tidy(server', F, running)
    BY <2>1, <2>2, ProcessTidy
  <2> QED
    BY <1>1, <2>3 DEF SessionsInv, Unsent, F
<1> QED
  BY <1>5, <1>6

LEMMA ExecStepInv ==
  ASSUME SessionsInv, NEW c \in Clients, ExecStep(c)
  PROVE  SessionsInv'
<1> DEFINE F == Unsent
           cmd == Head(server.ctx[c].queue)
           rest == WithQueue(server, c, Tail(server.ctx[c].queue))
           p == <<c, cmd.n>>
<1>1. /\ Tidy(server, F, running) /\ server.ctx[c].queue # <<>> /\ server.ctx[c].life = "open"
      /\ UNCHANGED <<running, blocked>> /\ turn' = ~turn
      /\ server' \in EndToEnd(rest, c, cmd)
  BY DEF SessionsInv, ExecStep, ctx, WithQueue
<1> HIDE DEF F
<1>2. cmd = Head(server.ctx[c].queue) /\ rest = WithQueue(server, c, Tail(server.ctx[c].queue))
  OBVIOUS
<1> HIDE DEF cmd, rest
<1>3. InHand(server, rest, c, cmd, F, running)
  BY <1>1, <1>2, TailTidy
<1>4. /\ cmd \in Sent /\ Tidy(rest, F \cup {p}, running) /\ rest.ctx[c].life = "open"
      /\ cmd.n # 0 => p \notin F
  BY <1>1, <1>3 DEF InHand
<1>5. Tidy(server', (F \cup {p}) \ {p}, running)
  BY <1>1, <1>4, EndToEndTidy
<1>6. F \subseteq (F \cup {p}) \ {p}
  <2>1. cmd.n = 0 => p \notin F
    BY MaxBlockingAssumption DEF F, Unsent
  <2> QED
    BY <1>4, <2>1
<1>7. Tidy(server', F, running)
  BY <1>5, <1>6, LessFree
<1> QED
  BY <1>1, <1>7 DEF SessionsInv, Unsent, F

\* The actions of EXEC begin and end the exemption of its queue.
LEMMA CalmFor ==
  ASSUME NEW F, NEW s, Tidy(s, F, Nobody), NEW c
  PROVE  Tidy(s, F, c)
<1>1. \A d \in Clients : Nobody # d
  BY NobodyAssumption
<1> QED
  BY <1>1 DEF Tidy, Calm

LEMMA ExecInv ==
  ASSUME SessionsInv, NEW c \in Clients, ExecRefused(c) \/ ExecBegin(c) \/ ExecEnd(c)
  PROVE  SessionsInv'
<1> DEFINE F == Unsent
<1>1. Tidy(server, F, running)
  BY DEF SessionsInv
<1>2. CASE ExecRefused(c)
  <2>1. PICK s \in CheckPending(server, c) : server' = FinishTransaction(s, c)
    BY <1>2 DEF ExecRefused
  <2>2. UNCHANGED <<running, turn, blocked>>
    BY <1>2 DEF ExecRefused
  <2> HIDE DEF F
  <2>3. Tidy(server', F, running)
    BY <1>1, <2>1, CheckPendingTidy, FinishTidy
  <2> QED
    BY <2>2, <2>3 DEF SessionsInv, Unsent, F
<1>3. CASE ExecBegin(c)
  <2>1. PICK s \in CheckPending(server, c) : server' = [s EXCEPT !.ctx[c].multi = FALSE]
    BY <1>3 DEF ExecBegin
  <2>2. UNCHANGED <<turn, blocked>> /\ running = Nobody /\ running' = c
    BY <1>3 DEF ExecBegin, Idle
  <2> HIDE DEF F
  <2>3. Tidy(s, F, c)
    BY <1>1, <2>1, <2>2, CheckPendingTidy, CalmFor
  <2>4. Tidy(server', F, c)
    BY <2>1, <2>3, MultiTidy
  <2> QED
    BY <2>2, <2>4 DEF SessionsInv, Unsent, F
<1>4. CASE ExecEnd(c)
  <2>1. /\ server' = FinishTransaction(server, c) /\ running = c /\ running' = Nobody
        /\ turn' = FALSE /\ UNCHANGED blocked
    BY <1>4 DEF ExecEnd
  <2> HIDE DEF F
  <2>2. Tidy(server', F, c) /\ server'.ctx[c].queue = <<>>
    BY <1>1, <2>1, FinishTidy
  <2>3. Tidy(server', F, Nobody)
    BY <2>2 DEF Tidy, Calm
  <2> QED
    BY <2>1, <2>3 DEF SessionsInv, Unsent, F
<1> QED
  BY <1>2, <1>3, <1>4

LEMMA NextInv == SessionsInv /\ [Next]_vars => SessionsInv'
<1> SUFFICES ASSUME SessionsInv, [Next]_vars PROVE SessionsInv'
  OBVIOUS
<1>1. CASE UNCHANGED vars
  BY <1>1 DEF vars, SessionsInv, Unsent
<1>2. ASSUME NEW c \in Clients, Connect(c) PROVE SessionsInv'
  BY <1>2, ConnectInv
<1>3. ASSUME NEW c \in Clients, Disconnect(c) PROVE SessionsInv'
  BY <1>3, DisconnectInv
<1>4. ASSUME NEW c \in Clients, Exec(c) PROVE SessionsInv'
  BY <1>4, ExecInv DEF Exec
<1>5. ASSUME NEW c \in Clients, NEW op \in Allowed \ {"EXEC"}, Request(c, op) PROVE SessionsInv'
  BY <1>5, RequestInv
<1>6. CASE Worker
  <2>1. TakeWoken \/ \E c \in Clients : ExecStep(c) \/ ExecEnd(c)
    BY <1>6 DEF Worker
  <2> QED
    BY <2>1, TakeWokenInv, ExecStepInv, ExecInv
<1> QED
  BY <1>1, <1>2, <1>3, <1>4, <1>5, <1>6 DEF Next

LEMMA AlwaysInv == Spec => []SessionsInv
BY InitInv, NextInv, PTL DEF Spec

-----------------------------------------------------------------------------
(* Whether a transaction is aborted, when clients send no command that     *)
(* takes elements without an event of their key.                           *)

Evented == Allowed \cap (BlockingOps \cup {"RPOPLPUSH"}) = {}

\* AbortedIffChanged, and what it is between a change of k and its event.
Agrees(x) == x.life = "open" /\ x.clean => (x.aborted <=> x.changed)

Behind(x, k) ==
    x.life = "open" /\ x.clean => (x.aborted \/ (k \in x.watched /\ ~x.multi) <=> x.changed)

AllAgree(s) == \A c \in Clients : Agrees(s.ctx[c])
AllBehind(s, k) == \A c \in Clients : Behind(s.ctx[c], k)

LEMMA NothingBlocks ==
  ASSUME Evented
  PROVE  /\ Blocking = {}
         /\ \A cmd \in Sent : cmd.op # "RPOPLPUSH" /\ cmd.op \notin BlockingOps /\ cmd.n = 0
BY DEF Evented, Blocking, Sent

LEMMA EditAgrees ==
  ASSUME NEW s \in Server, AllAgree(s), NEW c \in Clients, NEW y \in Context, Agrees(y),
         NEW t, Edited(s, t, c, y)
  PROVE  AllAgree(t)
<1>1. t.ctx[c] = y /\ \A d \in Clients \ {c} : t.ctx[d] = s.ctx[d]
  BY DEF Edited, Server
<1> QED
  BY <1>1 DEF AllAgree

LEMMA WatchAgrees ==
  ASSUME NEW s \in Server, AllAgree(s), NEW c \in Clients, NEW ks \in SUBSET Keys
  PROVE  AllAgree(WatchKeys(s, c, ks))
<1> DEFINE x == s.ctx[c]
           y == [x EXCEPT !.watched = x.watched \cup ks, !.subscribed = TRUE]
<1>1. x \in Context /\ Agrees(x)
  BY DEF Server, AllAgree
<1>2. y \in Context /\ Agrees(y)
  BY <1>1 DEF Context, Agrees
<1>3. Edited(s, WatchKeys(s, c, ks), c, y)
  BY WatchEffect
<1> HIDE DEF y
<1> QED
  BY <1>2, <1>3, EditAgrees

LEMMA ClearWatchedAgrees ==
  ASSUME NEW s \in Server, AllAgree(s), NEW c \in Clients
  PROVE  AllAgree(ClearWatchedKeys(s, c))
<1> DEFINE x == s.ctx[c]
           y == Unwatched(x)
<1>1. x \in Context
  BY DEF Server
<1>2. y \in Context /\ Agrees(y)
  BY <1>1, UnwatchedContext DEF Agrees
<1>3. Edited(s, ClearWatchedKeys(s, c), c, y)
  BY ClearWatchedEffect
<1> HIDE DEF y
<1> QED
  BY <1>2, <1>3, EditAgrees

LEMMA FinishAgrees ==
  ASSUME NEW s \in Server, AllAgree(s), NEW c \in Clients
  PROVE  AllAgree(FinishTransaction(s, c))
<1> DEFINE x == s.ctx[c]
           z == [x EXCEPT !.multi = FALSE, !.queue = <<>>]
           y == Unwatched(z)
<1>1. x \in Context /\ <<>> \in Seq(Command)
  BY DEF Server
<1>2. z \in Context
  BY <1>1 DEF Context
<1>3. Edited(s, FinishTransaction(s, c), c, y)
  BY FinishEffect
<1> HIDE DEF z
<1>4. y \in Context /\ Agrees(y)
  BY <1>2, UnwatchedContext DEF Agrees
<1> HIDE DEF y
<1> QED
  BY <1>3, <1>4, EditAgrees

\* What leaves the flags of each transaction as they are.
SameFate(s, t) ==
    \A c \in Clients :
       /\ t.ctx[c].life = s.ctx[c].life /\ t.ctx[c].clean = s.ctx[c].clean
       /\ t.ctx[c].aborted = s.ctx[c].aborted /\ t.ctx[c].changed = s.ctx[c].changed

LEMMA SameAgrees ==
  ASSUME NEW s, AllAgree(s), NEW t, SameFate(s, t)
  PROVE  AllAgree(t)
BY DEF AllAgree, Agrees, SameFate

LEMMA MultiSelectAndQueue ==
  ASSUME NEW s \in Server, NEW c \in Clients, NEW b \in BOOLEAN, NEW d \in Dbs, NEW q
  PROVE  /\ SameFate(s, [s EXCEPT !.ctx[c].multi = b])
         /\ SameFate(s, [s EXCEPT !.ctx[c].db = d])
         /\ SameFate(s, WithQueue(s, c, q))
<1>1. s.ctx \in [Clients -> Context]
  BY DEF Server
<1>2. SameFate(s, [s EXCEPT !.ctx[c].multi = b])
  BY <1>1 DEF Server, Context, SameFate
<1>3. SameFate(s, [s EXCEPT !.ctx[c].db = d])
  BY <1>1 DEF Server, Context, SameFate
<1>4. SameFate(s, WithQueue(s, c, q))
  BY <1>1 DEF Server, Context, SameFate, WithQueue
<1> QED
  BY <1>2, <1>3, <1>4

\* A change is followed by its event, which reaches all who watch the key.
LEMMA ChangedBehind ==
  ASSUME NEW s \in Server, AllAgree(s), NEW k, NEW t, t.ctx = Changed(s, k).ctx
  PROVE  AllBehind(t, k)
<1> SUFFICES ASSUME NEW c \in Clients PROVE Behind(t.ctx[c], k)
  BY DEF AllBehind
<1> DEFINE x == s.ctx[c]
<1>1. x \in Context /\ Agrees(x)
  BY DEF Server, AllAgree
<1>2. t.ctx[c] = Hit(x, k)
  BY ChangedEffect
<1> QED
  BY <1>1, <1>2, HitContext DEF Agrees, Behind

LEMMA FireAgrees ==
  ASSUME Evented, NEW F, NEW r, NEW s, Tidy(s, F, r), NEW k, AllBehind(s, k),
         NEW t \in Fire(s, k)
  PROVE  AllAgree(t) /\ AllBehind(t, k)
<1>1. Typed(s) /\ s \in Server /\ s.subscribers \in SUBSET Clients
  BY DEF Tidy, Typed, Server
<1>2. \A c \in Clients : s.ctx[c].pending = NoCommand
  BY <1>1, NothingBlocks DEF Typed
<1>3. {c \in s.subscribers : Leaves(s.ctx[c], k)} = {}
  BY <1>1, <1>2, WakesPending DEF Leaves
<1>4. PICK q : Fired(s, t, k, s.subscribers, q)
  BY <1>1, <1>3, FireCases
<1> SUFFICES ASSUME NEW c \in Clients PROVE Agrees(t.ctx[c]) /\ Behind(t.ctx[c], k)
  BY DEF AllAgree, AllBehind
<1> DEFINE x == s.ctx[c]
<1>5. x \in Context /\ Behind(x, k)
  BY <1>1 DEF Server, AllBehind
<1>6. CASE c \in s.subscribers
  <2>1. t.ctx[c] = Notified(x, k)
    BY <1>1, <1>4, <1>6, FiredContexts
  <2> QED
    BY <1>5, <2>1, NotifiedContext DEF Agrees, Behind
<1>7. CASE c \notin s.subscribers
  <2>1. t.ctx[c] = x
    BY <1>1, <1>4, <1>7, FiredContexts
  <2>2. x.life = "open" /\ x.clean => x.watched = {}
    BY <1>7 DEF Tidy, Subscribers
  <2> QED
    BY <1>5, <2>1, <2>2 DEF Agrees, Behind
<1> QED
  BY <1>6, <1>7

LEMMA FireOnAgrees ==
  ASSUME Evented, NEW F, NEW r, NEW T, NEW k, \A u \in T : Tidy(u, F, r) /\ AllBehind(u, k),
         NEW t \in FireOn(T, k)
  PROVE  AllAgree(t) /\ AllBehind(t, k)
BY FireAgrees DEF FireOn

LEMMA PushAndFireAgrees ==
  ASSUME Evented, NEW F, NEW r, NEW s, Tidy(s, F, r), AllAgree(s), NEW c \in Clients,
         NEW k \in Keys, NEW t \in PushAndFire(s, c, k)
  PROVE  AllAgree(t)
<1> DEFINE pushed == {Push(s, c, k)}
           new == FireOn(pushed, k)
<1>1. \A u \in pushed : Tidy(u, F, r) /\ AllBehind(u, k)
  <2>1. s \in Server
    BY DEF Tidy, Typed
  <2>2. Changed(s, k) \in Server
    BY <2>1, ChangedEffect
  <2>3. Push(s, c, k).ctx = Changed(s, k).ctx
    BY <2>2 DEF Push, Server
  <2> QED
    BY <2>1, <2>3, PushTidy, ChangedBehind
<1> HIDE DEF pushed
<1>2. \A u \in new : Tidy(u, F, r) /\ AllBehind(u, k)
  BY <1>1, FireOnTidy, FireOnAgrees
<1> HIDE DEF new
<1>3. t \in FireOn(pushed, k) \/ t \in FireOn(new, k)
  BY DEF PushAndFire, pushed, new
<1> QED
  BY <1>1, <1>2, <1>3, FireOnAgrees

LEMMA PopAndFireAgrees ==
  ASSUME Evented, NEW F, NEW r, NEW s, Tidy(s, F, r), AllAgree(s), NEW c \in Clients,
         NEW k, NEW t \in PopAndFire(s, c, k)
  PROVE  AllAgree(t)
<1>1. PICK p \in Pop(s, c, k) : t \in FireOn({p}, k) \/ t \in FireOn(Fire(p, k), k)
  BY DEF PopAndFire
<1>2. Tidy(p, F, r)
  BY PopTidy
<1>3. AllBehind(p, k)
  <2>1. s \in Server
    BY DEF Tidy, Typed
  <2>2. Changed(s, k) \in Server
    BY <2>1, ChangedEffect
  <2>3. p.ctx = Changed(s, k).ctx
    BY <2>2 DEF Pop, Server
  <2> QED
    BY <2>1, <2>3, ChangedBehind
<1>4. \A u \in {p} : Tidy(u, F, r) /\ AllBehind(u, k)
  BY <1>2, <1>3
<1>5. \A u \in Fire(p, k) : Tidy(u, F, r) /\ AllBehind(u, k)
  BY <1>2, <1>3, FireTidy, FireAgrees
<1> QED
  BY <1>1, <1>4, <1>5, FireOnAgrees

LEMMA ExecutedAgrees ==
  ASSUME Evented, NEW F, NEW r, NEW s, Tidy(s, F, r), AllAgree(s), NEW c \in Clients,
         NEW cmd \in Sent, NEW t \in Executed(s, c, cmd)
  PROVE  AllAgree(t)
<1>1. s \in Server
  BY DEF Tidy, Typed
<1>2. \/ cmd.op = "LPUSH" /\ t \in PushAndFire(s, c, cmd.args[1])
      \/ t = s \/ t \in PopAndFire(s, c, cmd.args[1])
      \/ cmd.op = "WATCH" /\ t = WatchKeys(s, c, ToSet(cmd.args))
      \/ t = ClearWatchedKeys(s, c)
      \/ t = [s EXCEPT !.ctx[c].multi = TRUE]
      \/ t = FinishTransaction(s, c)
      \/ cmd.op = "SELECT" /\ t = [s EXCEPT !.ctx[c].db = cmd.args[1]]
  <2>1. cmd.op \in {"LPUSH", "LPOP", "WATCH", "UNWATCH", "MULTI", "DISCARD", "SELECT"}
    BY Arguments, NothingBlocks DEF BlockingOps
  <2> QED
    BY <2>1 DEF Executed, LPush, LPop
<1>3. CASE cmd.op = "LPUSH" /\ t \in PushAndFire(s, c, cmd.args[1])
  BY <1>3, Arguments, PushAndFireAgrees
<1>4. CASE t = s \/ t \in PopAndFire(s, c, cmd.args[1])
  BY <1>4, PopAndFireAgrees
<1>5. CASE cmd.op = "WATCH" /\ t = WatchKeys(s, c, ToSet(cmd.args))
  <2>1. ToSet(cmd.args) \in SUBSET Keys
    BY <1>5, Arguments
  <2> QED
    BY <1>1, <1>5, <2>1, WatchAgrees
<1>6. CASE t = ClearWatchedKeys(s, c) \/ t = FinishTransaction(s, c)
  BY <1>1, <1>6, ClearWatchedAgrees, FinishAgrees
<1>7. CASE t = [s EXCEPT !.ctx[c].multi = TRUE]
  <2>1. SameFate(s, t)
    BY <1>1, <1>7, FirstDbAssumption, MultiSelectAndQueue
  <2> QED
    BY <2>1, SameAgrees
<1>8. CASE cmd.op = "SELECT" /\ t = [s EXCEPT !.ctx[c].db = cmd.args[1]]
  <2>1. cmd.args[1] \in Dbs
    BY <1>8, Arguments
  <2>2. SameFate(s, t)
    BY <1>1, <1>8, <2>1, MultiSelectAndQueue
  <2> QED
    BY <2>2, SameAgrees
<1> QED
  BY <1>2, <1>3, <1>4, <1>5, <1>6, <1>7, <1>8

\* Nothing is pending, so nothing times out.
LEMMA NothingTimesOut ==
  ASSUME Evented, NEW s, Typed(s), NEW c \in Clients, NEW t \in CheckPending(s, c)
  PROVE  t = s
<1>1. s.ctx[c].pending = NoCommand
  BY NothingBlocks DEF Typed
<1> QED
  BY <1>1 DEF CheckPending, NoCommand

LEMMA EndToEndAgrees ==
  ASSUME Evented, NEW F, NEW r, NEW s, Tidy(s, F, r), AllAgree(s), NEW c \in Clients,
         NEW cmd \in Sent, NEW t \in EndToEnd(s, c, cmd)
  PROVE  AllAgree(t)
<1>1. s \in Server /\ Typed(s)
  BY DEF Tidy, Typed
<1>2. CASE Queued(s, c, cmd)
  <2>1. t = WithQueue(s, c, Append(s.ctx[c].queue, cmd))
    BY <1>2 DEF EndToEnd, WithQueue
  <2>2. SameFate(s, t)
    BY <1>1, <2>1, FirstDbAssumption, MultiSelectAndQueue
  <2> QED
    BY <2>2, SameAgrees
<1>3. CASE ~Queued(s, c, cmd)
  <2>1. PICK u \in CheckPending(s, c) : t \in Executed(u, c, cmd)
    BY <1>3 DEF EndToEnd
  <2>2. u = s
    BY <1>1, NothingTimesOut
  <2> QED
    BY <2>1, <2>2, ExecutedAgrees
<1> QED
  BY <1>2, <1>3

LEMMA InitAgrees == Init => AllAgree(server)
<1>1. NewContext("new", FALSE, FALSE).life = "new"
  BY NewContexts
<1>2. \A c \in Clients : EmptyServer.ctx[c].life = "new"
  BY <1>1 DEF EmptyServer
<1> QED
  BY <1>2 DEF Init, AllAgree, Agrees

LEMMA NextAgrees ==
  ASSUME Evented, SessionsInv, AllAgree(server), [Next]_vars
  PROVE  AllAgree(server)'
<1>1. Tidy(server, Unsent, running) /\ server \in Server /\ Typed(server)
      /\ server.ctx \in [Clients -> Context]
  BY DEF SessionsInv, Tidy, Typed, Server
<1>2. CASE UNCHANGED vars
  BY <1>2 DEF vars, AllAgree
<1>3. ASSUME NEW c \in Clients, Connect(c) PROVE AllAgree(server)'
  <2>1. PICK a \in BOOLEAN, b \in BOOLEAN :
           server' = [server EXCEPT !.ctx[c] = NewContext("open", a, b)]
    BY <1>3, GarbageAssumption DEF Connect
  <2> DEFINE y == NewContext("open", a, b)
  <2>2. Agrees(y)
    BY DEF NewContext, Agrees
  <2> HIDE DEF y
  <2>3. server'.ctx = [server.ctx EXCEPT ![c] = y]
    BY <1>1, <2>1 DEF Server, y
  <2> QED
    BY <1>1, <2>2, <2>3 DEF AllAgree
<1>4. ASSUME NEW c \in Clients, Disconnect(c) PROVE AllAgree(server)'
  <2> DEFINE y == [NewContext("gone", FALSE, FALSE) EXCEPT !.results = server.ctx[c].results]
  <2>1. Agrees(y)
    BY DEF NewContext, Agrees
  <2>2. server'.ctx = [server.ctx EXCEPT ![c] = y] \/ server'.ctx = server.ctx
    BY <1>1, <1>4 DEF Disconnect, ctx, Server
  <2> HIDE DEF y
  <2> QED
    BY <1>1, <2>1, <2>2 DEF AllAgree
<1>5. ASSUME NEW c \in Clients, Exec(c) \/ ExecEnd(c) PROVE AllAgree(server)'
  <2>1. \/ server' = FinishTransaction(server, c)
        \/ server' = [server EXCEPT !.ctx[c].multi = FALSE]
    BY <1>1, <1>5, NothingTimesOut DEF Exec, ExecRefused, ExecBegin, ExecEnd
  <2>2. CASE server' = FinishTransaction(server, c)
    BY <1>1, <2>2, FinishAgrees
  <2>3. CASE server' = [server EXCEPT !.ctx[c].multi = FALSE]
    <3>1. SameFate(server, server')
      BY <1>1, <2>3, FirstDbAssumption, MultiSelectAndQueue
    <3> QED
      BY <3>1, SameAgrees
  <2> QED
    BY <2>1, <2>2, <2>3
<1>6. ASSUME NEW c \in Clients, NEW op \in Allowed \ {"EXEC"}, Request(c, op)
      PROVE  AllAgree(server)'
  <2>1. PICK cmd \in Sent : server' \in EndToEnd(server, c, cmd)
    BY <1>6, RequestCommand
  <2> QED
    BY <1>1, <2>1, EndToEndAgrees
<1>7. CASE TakeWoken
  <2>1. server.que # <<>>
    BY <1>7 DEF TakeWoken
  <2>2. Head(server.que).cmd \in Blocking
    BY <1>1, <2>1, TakenTidy
  <2> QED
    BY <2>2, NothingBlocks
<1>8. ASSUME NEW c \in Clients, ExecStep(c) PROVE AllAgree(server)'
  <2> DEFINE cmd == Head(server.ctx[c].queue)
             rest == WithQueue(server, c, Tail(server.ctx[c].queue))
  <2>1. server' \in EndToEnd(rest, c, cmd) /\ server.ctx[c].queue # <<>>
    BY <1>8 DEF ExecStep, ctx, WithQueue
  <2>2. cmd = Head(server.ctx[c].queue) /\ rest = WithQueue(server, c, Tail(server.ctx[c].queue))
    OBVIOUS
  <2> HIDE DEF cmd, rest
  <2>3. InHand(server, rest, c, cmd, Unsent, running)
    BY <1>1, <2>1, <2>2, TailTidy
  <2>4. SameFate(server, rest)
    BY <1>1, <2>2, FirstDbAssumption, MultiSelectAndQueue
  <2>5. AllAgree(rest)
    BY <2>4, SameAgrees
  <2> QED
    BY <2>1, <2>3, <2>5, EndToEndAgrees DEF InHand
<1> QED
  BY <1>2, <1>3, <1>4, <1>5, <1>6, <1>7, <1>8 DEF Next, Worker

-----------------------------------------------------------------------------
(* Theorems.                                                               *)

\* Whatever the clients send and however their sessions end, the contexts, the
\* subscribers and the woken requests are what their declarations say.
THEOREM SessionsTypes == Spec => []TypeOK
<1>1. SessionsInv => TypeOK
  BY DEF SessionsInv, TypeOK, Tidy, Typed
<1> QED
  BY <1>1, AlwaysInv, PTL

\* A session is subscribed to events exactly while it watches keys or waits for
\* one, and the publisher and the session agree on it (subscribeToNotifications,
\* unsubscribeFromNotifications, notify).
THEOREM SubscriptionsAreNeeded == Spec => []SubscribedWhileNeeded
<1>1. SessionsInv => SubscribedWhileNeeded
  BY DEF SessionsInv, SubscribedWhileNeeded, Sound, Tidy, Subscribers, ctx
<1> QED
  BY <1>1, AlwaysInv, PTL

\* No command stays queued outside MULTI and EXEC (finishTransaction).
THEOREM QueuesAreOfTransactions == Spec => []QueueOnlyInTransaction
<1>1. SessionsInv => QueueOnlyInTransaction
  BY DEF SessionsInv, QueueOnlyInTransaction, Tidy, Calm, ctx
<1> QED
  BY <1>1, AlwaysInv, PTL

LEMMA AtMostOne ==
  ASSUME NEW S, \A i, j \in S : i = j
  PROVE  /\ Cardinality(S) \in {0, 1}
         /\ Cardinality(S) = 1 => \E i : i \in S
<1>1. CASE S = {}
  BY <1>1, FS_EmptySet
<1>2. CASE S # {}
  <2>1. PICK i \in S : S = {i}
    BY <1>2
  <2> QED
    BY <2>1, FS_Singleton
<1> QED
  BY <1>1, <1>2

\* A blocking command is in one place or has one result, however notifications,
\* transactions and timeouts move it (notify, setPendingtBLCommand).
THEOREM BlockingCommandsAreOnce == Spec => []BlockedOnce
<1>1. SessionsInv => BlockedOnce
  <2> SUFFICES ASSUME SessionsInv, NEW c \in Clients, NEW n \in 1 .. MaxBlocking
               PROVE  ctx[c].results[n]
                        + Cardinality(Held(<<ctx[c].pending>>, n))
                        + Cardinality(Held(ctx[c].queue, n))
                        + Cardinality(WokenOf(c, n)) <= 1
    BY DEF BlockedOnce
  <2> DEFINE P == Held(<<ctx[c].pending>>, n)
             Q == Held(ctx[c].queue, n)
             W == WokenOf(c, n)
  <2>1. Once(server, c, n)
    BY DEF SessionsInv, Tidy, Unique
  <2>2. \A i : i \in P <=> i = 1 /\ server.ctx[c].pending.n = n
    BY DEF Held, ctx
  <2>3. \A i : i \in Q <=> InQueue(server, c, n, i)
    BY DEF Held, InQueue, ctx
  <2>4. \A i : i \in W <=> InQue(server, c, n, i)
    BY DEF WokenOf, InQue
  <2> HIDE DEF P, Q, W
  <2>5. Cardinality(P) \in {0, 1} /\ (Cardinality(P) = 1 => server.ctx[c].pending.n = n)
    BY <2>2, AtMostOne
  <2>6. Cardinality(Q) \in {0, 1} /\ (Cardinality(Q) = 1 => \E i : InQueue(server, c, n, i))
    <3>1. \A i, j \in Q : i = j
      BY <2>1, <2>3 DEF Once
    <3> QED
      BY <2>3, <3>1, AtMostOne
  <2>7. Cardinality(W) \in {0, 1} /\ (Cardinality(W) = 1 => \E i : InQue(server, c, n, i))
    <3>1. \A i, j \in W : i = j
      BY <2>1, <2>4 DEF Once
    <3> QED
      BY <2>4, <3>1, AtMostOne
  <2>8. /\ ctx[c].results[n] \in {0, 1}
        /\ ctx[c].results[n] = 1 => Cardinality(P) # 1 /\ Cardinality(Q) # 1 /\ Cardinality(W) # 1
        /\ Cardinality(P) = 1 => Cardinality(Q) # 1 /\ Cardinality(W) # 1
        /\ Cardinality(Q) = 1 => Cardinality(W) # 1
    BY <2>1, <2>5, <2>6, <2>7 DEF Once, ctx
  <2>9. ctx[c].results[n] + Cardinality(P) + Cardinality(Q) + Cardinality(W) <= 1
    BY <2>5, <2>6, <2>7, <2>8
  <2> QED
    BY <2>9 DEF P, Q, W
<1> QED
  BY <1>1, AlwaysInv, PTL

\* A transaction counts as aborted exactly when a key that it watches has changed,
\* for clients that send no BLPOP, BRPOPLPUSH or RPOPLPUSH: what these take or
\* put has no event of its key (SessionContext::notify).
THEOREM AbortionsAreOfChanges ==
  ASSUME Allowed \cap (BlockingOps \cup {"RPOPLPUSH"}) = {}
  PROVE  Spec => []AbortedIffChanged
<1>1. SessionsInv /\ AllAgree(server) /\ [Next]_vars => AllAgree(server)'
  BY NextAgrees DEF Evented
<1>2. AllAgree(server) => AbortedIffChanged
  BY DEF AllAgree, Agrees, AbortedIffChanged, Sound, ctx
<1> QED
  BY <1>1, <1>2, InitAgrees, AlwaysInv, PTL DEF Spec
=============================================================================
