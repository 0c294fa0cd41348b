--------------------------- MODULE CommandProofs ---------------------------
(***************************************************************************)
(* What the operators on databases do, and what a command may take a       *)
(* database to: the lemmas that the proofs about every command share, and  *)
(* then the steps of the commands of Containers.                           *)
(***************************************************************************)
EXTENDS Containers, TLAPS

-----------------------------------------------------------------------------
(* What the operators on databases do, field by field.                     *)

LEMMA PutFields ==
  ASSUME NEW d \in Db, NEW t \in Types, NEW k \in Keys, NEW c \in Contents
  PROVE  /\ Put(d, t, k, c) \in Db
         /\ Put(d, t, k, c).km = d.km
         /\ \A u \in Types, l \in Keys :
               Put(d, t, k, c).at[u][l] = IF u = t /\ l = k THEN c ELSE d.at[u][l]
BY DEF Put, Db

LEMMA AddFields ==
  ASSUME NEW d \in Db, NEW k \in Keys, NEW item \in Item
  PROVE  /\ Add(d, k, item) \in Db
         /\ Add(d, k, item).at = d.at
         /\ \A l \in Keys : Add(d, k, item).km[l] = IF l = k THEN item ELSE d.km[l]
BY DEF Add, Db

LEMMA FreshItems ==
  /\ NoItem \in Item
  /\ \A t \in Types : Fresh(t) \in Item
BY MaxLeftAssumption DEF NoItem, Fresh, Item

LEMMA DelKeysFields ==
  ASSUME NEW d \in Db, NEW ks \in SUBSET Keys
  PROVE  /\ DelKeys(d, ks) \in Db
         /\ \A k \in Keys :
               /\ DelKeys(d, ks).km[k] = IF k \in ks THEN NoItem ELSE d.km[k]
               /\ \A t \in Types :
                     DelKeys(d, ks).at[t][k] = IF k \in ks THEN "absent" ELSE d.at[t][k]
BY FreshItems DEF DelKeys, Db, Contents

\* An event adds the item of its type, removes the item, or does nothing.
LEMMA NotifyFields ==
  ASSUME NEW d \in Db, NEW k \in Keys, NEW e
  PROVE  /\ Notify(d, e, k) \in Db
         /\ Notify(d, e, k).at = d.at
         /\ \A l \in Keys :
               Notify(d, e, k).km[l] =
                  IF l = k /\ e = "del" THEN NoItem
                  ELSE IF l = k /\ CreatedBy(e) # "none" THEN Fresh(CreatedBy(e))
                  ELSE d.km[l]
<1>1. CreatedBy(e) \in Types \cup {"none"}
  BY DEF CreatedBy, Types
<1>2. CASE e = "del"
  <2>1. CreatedBy(e) = "none"
    BY <1>2 DEF CreatedBy
  <2>2. Notify(d, e, k) = Add(d, k, NoItem)
    BY <1>2, <2>1 DEF Notify, DelOnlyFromKeyMap
  <2> QED
    BY <1>2, <2>1, <2>2, AddFields, FreshItems
<1>3. CASE e # "del" /\ CreatedBy(e) # "none"
  <2>1. Fresh(CreatedBy(e)) \in Item
    BY <1>1, <1>3, FreshItems
  <2>2. Notify(d, e, k) = Add(d, k, Fresh(CreatedBy(e)))
    BY <1>3 DEF Notify
  <2> QED
    BY <1>3, <2>1, <2>2, AddFields
<1>4. CASE e # "del" /\ CreatedBy(e) = "none"
  BY <1>4 DEF Notify, Db
<1> QED
  BY <1>2, <1>3, <1>4

\* Deleting what has expired leaves a database in which the keys of other types
\* are as they were, and the command's keys have its type or none.
LEMMA PreparedDb ==
  ASSUME NEW d \in Db, NEW ks \in SUBSET Keys, NEW t, NEW p \in Prepared(d, ks, t)
  PROVE  \E gone \in SUBSET ks : p = DelKeys(d, gone)
BY DEF Prepared, DelIfExpired

LEMMA PreparedFields ==
  ASSUME NEW d \in Db, NEW ks \in SUBSET Keys, NEW t, NEW p \in Prepared(d, ks, t)
  PROVE  /\ p \in Db
         /\ \A k \in ks : p.km[k].type \in {"none", t}
         /\ \A k \in Keys : p.km[k].type # "none" => p.km[k] = d.km[k]
<1>1. PICK gone \in SUBSET ks : p = DelKeys(d, gone)
  BY PreparedDb
<1>2. Matches(d, ks, t)
  BY DEF Prepared
<1>3. NoItem.type = "none"
  BY DEF NoItem
<1> QED
  BY <1>1, <1>2, <1>3, DelKeysFields DEF Matches

-----------------------------------------------------------------------------
(* What a command of type t may do to a database, as long as it works on    *)
(* its keys only.                                                          *)

\* Of the command that is being answered: it parts the KeyMap and the maps
\* never, and it never leaves a phantom.
Tracking == reply'.cmd \notin PartingCommands

Backing == reply'.cmd \notin PhantomCommands

\* A command of type t on the keys ks can take d to p.
Takes(ks, t, d, p) ==
    /\ p \in Db
    /\ \A k \in ks : p.km[k].type \in {"none", t}
    /\ \A k \in Keys \ ks : p.km[k] = d.km[k]
    /\ Tracking /\ Agrees(d) => Agrees(p)
    /\ Backing /\ Backed(d) => Backed(p)

\* The type of its keys is what a command may rely on.
Ready(ks, t, d) ==
    /\ d \in Db
    /\ \A k \in ks : d.km[k].type \in {"none", t}

LEMMA TakesNothing ==
  ASSUME NEW ks \in SUBSET Keys, NEW t, NEW d, Ready(ks, t, d)
  PROVE  Takes(ks, t, d, d)
BY DEF Takes, Ready

LEMMA TakesTwice ==
  ASSUME NEW ks \in SUBSET Keys, NEW t, NEW d, NEW p, NEW q,
         Takes(ks, t, d, p), Takes(ks, t, p, q)
  PROVE  Takes(ks, t, d, q)
BY DEF Takes

LEMMA TakesReady ==
  ASSUME NEW ks \in SUBSET Keys, NEW t, NEW d, NEW p, Takes(ks, t, d, p)
  PROVE  Ready(ks, t, p)
BY DEF Takes, Ready

\* A value with its event: the KeyMap learns of it at once.
LEMMA TakesCreate ==
  ASSUME NEW ks \in SUBSET Keys, NEW t \in Types, NEW d, Ready(ks, t, d),
         NEW k \in ks, NEW e, e # "del", CreatedBy(e) = t
  PROVE  Takes(ks, t, d, Notify(Put(d, t, k, "some"), e, k))
<1> DEFINE p == Put(d, t, k, "some")
           q == Notify(p, e, k)
<1>1. k \in Keys /\ "some" \in Contents /\ t # "none" /\ d \in Db
  BY DEF Contents, Types, Ready
<1>2. /\ p \in Db /\ p.km = d.km
      /\ \A u \in Types, l \in Keys :
            p.at[u][l] = IF u = t /\ l = k THEN "some" ELSE d.at[u][l]
  BY <1>1, PutFields
<1>3. /\ q \in Db /\ q.at = p.at
      /\ \A l \in Keys : q.km[l] = IF l = k THEN Fresh(t) ELSE d.km[l]
  BY <1>1, <1>2, NotifyFields
<1>4. Fresh(t).type = t
  BY DEF Fresh
<1> HIDE DEF p, q
<1>5. ASSUME Agrees(d) PROVE Agrees(q)
  <2> SUFFICES ASSUME NEW l \in Keys, NEW u \in Types
               PROVE  q.at[u][l] = IF q.km[l].type = u THEN "some" ELSE "absent"
    BY DEF Agrees
  <2>1. d.at[u][l] = IF d.km[l].type = u THEN "some" ELSE "absent"
    BY <1>5 DEF Agrees
  <2>2. CASE l = k
    <3>1. u # "none" /\ d.km[k].type \in {"none", t}
      BY DEF Types, Ready
    <3> QED
      BY <1>2, <1>3, <1>4, <2>1, <2>2, <3>1
  <2>3. CASE l # k
    BY <1>2, <1>3, <2>1, <2>3
  <2> QED
    BY <2>2, <2>3
<1>5b. ASSUME Backed(d) PROVE Backed(q)
  <2> SUFFICES ASSUME NEW l \in Keys, Tracked(q, l) PROVE Exists(q, q.km[l].type, l)
    BY DEF Backed
  <2>1. CASE l = k
    BY <1>1, <1>2, <1>3, <1>4, <2>1 DEF Tracked, Exists
  <2>2. CASE l # k
    <3>1. Tracked(d, l) /\ q.km[l] = d.km[l]
      BY <1>3, <2>2 DEF Tracked
    <3>2. d.km[l].type \in Types
      BY <1>1, <3>1 DEF Db, Item, Tracked
    <3> QED
      BY <1>2, <1>3, <1>5b, <2>2, <3>1, <3>2 DEF Backed, Exists
  <2> QED
    BY <2>1, <2>2
<1>6. Takes(ks, t, d, q)
  BY <1>1, <1>3, <1>4, <1>5, <1>5b DEF Takes, Ready
<1> QED
  BY <1>6 DEF p, q

\* A value that goes with its event: the KeyMap forgets it at once.
LEMMA TakesRemove ==
  ASSUME NEW ks \in SUBSET Keys, NEW t \in Types, NEW d, Ready(ks, t, d), NEW k \in ks
  PROVE  Takes(ks, t, d, Notify(Put(d, t, k, "absent"), "del", k))
<1> DEFINE p == Put(d, t, k, "absent")
           q == Notify(p, "del", k)
<1>1. k \in Keys /\ "absent" \in Contents /\ t # "none" /\ d \in Db
  BY DEF Contents, Types, Ready
<1>2. /\ p \in Db /\ p.km = d.km
      /\ \A u \in Types, l \in Keys :
            p.at[u][l] = IF u = t /\ l = k THEN "absent" ELSE d.at[u][l]
  BY <1>1, PutFields
<1>3. /\ q \in Db /\ q.at = p.at
      /\ \A l \in Keys : q.km[l] = IF l = k THEN NoItem ELSE d.km[l]
  BY <1>1, <1>2, NotifyFields
<1>4. NoItem.type = "none"
  BY DEF NoItem
<1> HIDE DEF p, q
<1>5. ASSUME Agrees(d) PROVE Agrees(q)
  <2> SUFFICES ASSUME NEW l \in Keys, NEW u \in Types
               PROVE  q.at[u][l] = IF q.km[l].type = u THEN "some" ELSE "absent"
    BY DEF Agrees
  <2>1. d.at[u][l] = IF d.km[l].type = u THEN "some" ELSE "absent"
    BY <1>5 DEF Agrees
  <2>2. CASE l = k
    <3>1. u # "none" /\ d.km[k].type \in {"none", t}
      BY DEF Types, Ready
    <3> QED
      BY <1>2, <1>3, <1>4, <2>1, <2>2, <3>1
  <2>3. CASE l # k
    BY <1>2, <1>3, <2>1, <2>3
  <2> QED
    BY <2>2, <2>3
<1>5b. ASSUME Backed(d) PROVE Backed(q)
  <2> SUFFICES ASSUME NEW l \in Keys, Tracked(q, l) PROVE Exists(q, q.km[l].type, l)
    BY DEF Backed
  <2>1. CASE l = k
    BY <1>1, <1>2, <1>3, <1>4, <2>1 DEF Tracked, Exists
  <2>2. CASE l # k
    <3>1. Tracked(d, l) /\ q.km[l] = d.km[l]
      BY <1>3, <2>2 DEF Tracked
    <3>2. d.km[l].type \in Types
      BY <1>1, <3>1 DEF Db, Item, Tracked
    <3> QED
      BY <1>2, <1>3, <1>5b, <2>2, <3>1, <3>2 DEF Backed, Exists
  <2> QED
    BY <2>1, <2>2
<1>6. Takes(ks, t, d, q)
  BY <1>1, <1>3, <1>4, <1>5, <1>5b DEF Takes, Ready
<1> QED
  BY <1>6 DEF p, q

\* A value without an event: only the parting commands do so, and only the
\* phantom commands remove one.
LEMMA TakesUntracked ==
  ASSUME NEW ks \in SUBSET Keys, NEW t \in Types, NEW d, Ready(ks, t, d),
         NEW k \in ks, NEW c \in Contents, ~Tracking, c # "absent" \/ ~Backing
  PROVE  Takes(ks, t, d, Put(d, t, k, c))
<1> DEFINE p == Put(d, t, k, c)
<1>1. d \in Db /\ k \in Keys
  BY DEF Ready
<1>2. /\ p \in Db /\ p.km = d.km
      /\ \A u \in Types, l \in Keys : p.at[u][l] = IF u = t /\ l = k THEN c ELSE d.at[u][l]
  BY <1>1, PutFields
<1> HIDE DEF p
<1>3. ASSUME Backing, Backed(d) PROVE Backed(p)
  <2>1. ASSUME NEW l \in Keys, Tracked(p, l) PROVE Exists(p, p.km[l].type, l)
    <3>1. Tracked(d, l) /\ d.km[l].type \in Types
      BY <1>1, <1>2, <2>1 DEF Db, Item, Tracked
    <3> QED
      BY <1>2, <1>3, <3>1 DEF Backed, Exists
  <2> QED
    BY <2>1 DEF Backed
<1>4. Takes(ks, t, d, p)
  BY <1>2, <1>3 DEF Takes, Ready
<1> QED
  BY <1>4 DEF p

\* An event that the KeyMap does not know, or of the command's own type, whose
\* value is there.
LEMMA TakesEvent ==
  ASSUME NEW ks \in SUBSET Keys, NEW t, NEW d, Ready(ks, t, d),
         NEW k \in ks, NEW e, CreatedBy(e) \in {"none", t}, ~Tracking \/ Notify(d, e, k) = d,
         CreatedBy(e) = "none" \/ Exists(d, t, k) \/ ~Backing
  PROVE  Takes(ks, t, d, Notify(d, e, k))
<1> DEFINE p == Notify(d, e, k)
<1>1. NoItem.type = "none" /\ Fresh(t).type = t
  BY DEF NoItem, Fresh
<1>2. /\ d \in Db /\ p \in Db /\ p.at = d.at
      /\ \A l \in Keys :
            p.km[l] = IF l = k /\ e = "del" THEN NoItem
                      ELSE IF l = k /\ CreatedBy(e) # "none" THEN Fresh(t)
                      ELSE d.km[l]
  BY NotifyFields DEF Ready
<1>3. Tracking /\ Agrees(d) => Agrees(p)
  OBVIOUS
<1> HIDE DEF p
<1>4. ASSUME Backing, Backed(d) PROVE Backed(p)
  BY <1>1, <1>2, <1>4 DEF Backed, Tracked, Exists
<1>5. Takes(ks, t, d, p)
  BY <1>1, <1>2, <1>3, <1>4 DEF Takes, Ready
<1> QED
  BY <1>5 DEF p

\* Looking keys up creates empty containers, and removes nothing.
LEMMA TouchedFields ==
  ASSUME NEW d \in Db, NEW u \in Types, NEW seen
  PROVE  /\ Touched(d, u, seen) \in Db
         /\ Touched(d, u, seen).km = d.km
         /\ \A v \in Types, l \in Keys :
               Exists(d, v, l) => Exists(Touched(d, u, seen), v, l)
<1>1. "empty" \in Contents /\ "empty" # "absent"
  BY DEF Contents
<1> DEFINE new == [k \in Keys |->
                     IF k \in seen /\ d.at[u][k] = "absent" THEN "empty" ELSE d.at[u][k]]
           at == [d.at EXCEPT ![u] = new]
           p == Touched(d, u, seen)
<1>2. d.at[u] \in [Keys -> Contents]
  BY DEF Db
<1>3. new \in [Keys -> Contents]
  BY <1>1, <1>2
<1>4. at \in [Types -> [Keys -> Contents]]
  <2> HIDE DEF new
  <2> QED
    BY <1>3 DEF Db
<1>5. p = [d EXCEPT !.at = at]
  BY DEF Touched
<1>6. p \in Db /\ p.km = d.km /\ p.at = at
  <2> HIDE DEF at, p
  <2> QED
    BY <1>4, <1>5 DEF Db
<1>7. \A v \in Types, l \in Keys : Exists(d, v, l) => Exists(p, v, l)
  <2> HIDE DEF p
  <2> QED
    BY <1>1, <1>2, <1>6 DEF Exists, Db
<1> HIDE DEF p
<1> QED
  BY <1>6, <1>7 DEF p

LEMMA TakesTouched ==
  ASSUME NEW ks \in SUBSET Keys, NEW t, NEW u \in Types, NEW d, Ready(ks, t, d),
         NEW seen, ~Tracking
  PROVE  Takes(ks, t, d, Touched(d, u, seen))
<1> DEFINE p == Touched(d, u, seen)
<1>1. /\ d \in Db /\ p \in Db /\ p.km = d.km
      /\ \A v \in Types, l \in Keys : Exists(d, v, l) => Exists(p, v, l)
  BY TouchedFields DEF Ready
<1> HIDE DEF p
<1>2. Backed(d) => Backed(p)
  BY <1>1 DEF Backed, Tracked, Db, Item
<1>3. Takes(ks, t, d, p)
  BY <1>1, <1>2 DEF Takes, Ready
<1> QED
  BY <1>3 DEF p

\* A value that may be empty, with its event.
LEMMA TakesAnnounced ==
  ASSUME NEW ks \in SUBSET Keys, NEW t \in Types, NEW d, Ready(ks, t, d), NEW k \in ks,
         NEW c \in {"empty", "some"}, NEW e, CreatedBy(e) = t, ~Tracking
  PROVE  Takes(ks, t, d, Notify(Put(d, t, k, c), e, k))
<1> DEFINE p == Put(d, t, k, c)
<1>1. c \in Contents /\ c # "absent" /\ k \in Keys /\ d \in Db
  BY DEF Contents, Ready
<1>2. Takes(ks, t, d, p)
  BY <1>1, TakesUntracked
<1>3. Ready(ks, t, p) /\ Exists(p, t, k)
  BY <1>1, <1>2, TakesReady, PutFields DEF Exists
<1> HIDE DEF p
<1>4. Takes(ks, t, p, Notify(p, e, k))
  BY <1>3, TakesEvent
<1>5. Takes(ks, t, d, Notify(p, e, k))
  BY <1>2, <1>4, TakesTwice
<1> QED
  BY <1>5 DEF p

\* del for a key of the command.
LEMMA TakesForget ==
  ASSUME NEW ks \in SUBSET Keys, NEW t, NEW d, Ready(ks, t, d), NEW k \in ks, ~Tracking
  PROVE  Takes(ks, t, d, Notify(d, "del", k))
<1>1. CreatedBy("del") = "none"
  BY DEF CreatedBy
<1> QED
  BY <1>1, TakesEvent

\* What holds of a step of any command.
StepOK ==
    /\ TypeOK'
    /\ \A k \in Keys : Tracked(db, k) /\ Tracked(db, k)' => db'.km[k].type = db.km[k].type
    /\ Tracking /\ Agrees(db) => Agrees(db)'
    /\ Backing /\ Backed(db) => Backed(db)'

LEMMA AgreesDelKeys ==
  ASSUME NEW d \in Db, NEW ks \in SUBSET Keys, Agrees(d)
  PROVE  Agrees(DelKeys(d, ks))
<1>1. NoItem.type = "none" /\ "none" \notin Types
  BY DEF NoItem, Types
<1> QED
  BY <1>1, DelKeysFields DEF Agrees

LEMMA BackedDelKeys ==
  ASSUME NEW d \in Db, NEW ks \in SUBSET Keys, Backed(d)
  PROVE  Backed(DelKeys(d, ks))
<1>1. NoItem.type = "none"
  BY DEF NoItem
<1>2. \A k \in Keys : d.km[k].type \in Types \cup {"none"}
  BY DEF Db, Item
<1> QED
  BY <1>1, <1>2, DelKeysFields DEF Backed, Tracked, Exists

LEMMA PreparedReady ==
  ASSUME TypeOK, NEW ks \in SUBSET Keys, NEW t, NEW d \in Prepared(db, ks, t)
  PROVE  Ready(ks, t, d)
BY PreparedFields DEF TypeOK, Ready

\* A command that was let through keeps its keys within its type.
LEMMA CommandStep ==
  ASSUME TypeOK, NEW ks \in SUBSET Keys, NEW t, NEW d \in Prepared(db, ks, t),
         Takes(ks, t, d, db'), reply' \in Reply
  PROVE  StepOK
<1>1. PICK gone \in SUBSET ks : d = DelKeys(db, gone)
  BY PreparedDb DEF TypeOK
<1>2. \A k \in ks : db.km[k].type \in {"none", t}
  BY DEF Prepared, Matches
<1>3. \A k \in Keys \ ks : d.km[k] = db.km[k]
  BY <1>1, DelKeysFields DEF TypeOK
<1>4. ASSUME NEW k \in Keys, Tracked(db, k), Tracked(db, k)'
      PROVE  db'.km[k].type = db.km[k].type
  <2>1. CASE k \in ks
    BY <1>2, <1>4, <2>1 DEF Takes, Tracked
  <2>2. CASE k \notin ks
    BY <1>3, <2>2 DEF Takes
  <2> QED
    BY <2>1, <2>2
<1>5. Tracking /\ Agrees(db) => Agrees(db)'
  BY <1>1, AgreesDelKeys DEF Takes, TypeOK, Agrees
<1>6. Backing /\ Backed(db) => Backed(db)'
  BY <1>1, BackedDelKeys DEF Takes, TypeOK, Backed, Tracked, Exists
<1> QED
  BY <1>4, <1>5, <1>6 DEF StepOK, TypeOK, Takes

LEMMA RefuseStep ==
  ASSUME TypeOK, UNCHANGED db, reply' \in Reply
  PROVE  StepOK
BY DEF StepOK, TypeOK, Agrees, Backed, Exists, Tracked

LEMMA AnswerType ==
  ASSUME NEW c \in AllCommands,
         NEW kind \in {"none", "value", "nil", "wrongtype", "pending"}, Answer(c, kind)
  PROVE  reply' \in Reply
BY DEF Answer, Reply

LEMMA RefusedStep ==
  ASSUME TypeOK, NEW c \in AllCommands, NEW ks, NEW t, Refuse(c, ks, t)
  PROVE  StepOK
BY AnswerType, RefuseStep DEF Refuse

LEMMA LookStep ==
  ASSUME TypeOK, NEW c \in AllCommands, NEW t, NEW k \in Keys,
         NEW d \in Prepared(db, {k}, t), Look(c, t, k, d)
  PROVE  StepOK
<1>1. reply' \in Reply
  BY AnswerType DEF Look
<1>2. Takes({k}, t, d, db')
  BY PreparedReady, TakesNothing DEF Look
<1> QED
  BY <1>1, <1>2, CommandStep

\* A command that answers, having taken the database as it may.
LEMMA AnsweredStep ==
  ASSUME TypeOK, NEW c \in AllCommands, NEW ks \in SUBSET Keys, NEW t,
         NEW d \in Prepared(db, ks, t), Takes(ks, t, d, db'),
         NEW kind \in {"value", "nil", "pending"}, Answer(c, kind)
  PROVE  StepOK
BY AnswerType, CommandStep

LEMMA PartingAnswer ==
  ASSUME NEW c, NEW kind, Answer(c, kind)
  PROVE  /\ c \in PartingCommands => ~Tracking
         /\ c \in PhantomCommands => ~Backing
BY DEF Answer, Tracking, Backing

-----------------------------------------------------------------------------
(* The steps of the commands on hashes, HyperLogLogs and sorted sets.      *)

LEMMA ContainerNames ==
  HashCommands \cup HLLCommands \cup SortedSetCommands \subseteq AllCommands
BY DEF AllCommands

LEMMA ContainerTypes ==
  /\ {"hash", "hll", "zset"} \subseteq Types
  /\ {"empty", "some"} \subseteq Contents
BY DEF Types, Contents

\* What the events of these commands mean to the KeyMap.
LEMMA ContainerEvents ==
  /\ CreatedBy("hash_new") = "hash"
  /\ CreatedBy("hll_new") = "hll"
  /\ CreatedBy("z_new") = "zset"
  /\ CreatedBy("zunionstore") = "zset"
  /\ CreatedBy("zinterstore") = "zset"
  /\ \A d, k : /\ Notify(d, "hdel", k) = d
               /\ Notify(d, "zincr", k) = d
               /\ Notify(d, "zrem", k) = d
BY DEF CreatedBy, Notify

\* The commands that only look.
LEMMA ContainerReadStep ==
  ASSUME TypeOK, NEW k \in Keys, HScan(k) \/ ZScan(k)
  PROVE  StepOK
<1>1. {"HSCAN", "ZSCAN"} \subseteq AllCommands
  BY DEF AllCommands, HashCommands, SortedSetCommands
<1>2. ASSUME NEW c \in AllCommands, NEW t, Read(c, t, k) PROVE StepOK
  BY <1>2, RefusedStep, LookStep DEF Read
<1> QED
  BY <1>1, <1>2 DEF HScan, ZScan

\* The commands that touch a container and answer.
LEMMA ContainerTouchStep ==
  ASSUME TypeOK, NEW k \in Keys, HGet(k) \/ ZRange(k)
  PROVE  StepOK
<1>1. {"HGET", "ZRANGE"} \subseteq AllCommands /\ {"HGET", "ZRANGE"} \subseteq PartingCommands
  BY DEF AllCommands, HashCommands, SortedSetCommands, PartingCommands
<1>2. ASSUME NEW c \in {"HGET", "ZRANGE"}, NEW t \in {"hash", "zset"},
             NEW d \in Prepared(db, {k}, t), db' = Touched(d, t, {k}),
             Answer(c, "nil") \/ Answer(c, "value")
      PROVE  StepOK
  <2>1. ~Tracking
    BY <1>1, <1>2, PartingAnswer
  <2>2. Takes({k}, t, d, db')
    BY <1>2, <2>1, PreparedReady, TakesTouched, ContainerTypes
  <2> QED
    BY <1>1, <1>2, <2>2, AnsweredStep
<1>3. CASE HGet(k)
  BY <1>1, <1>2, <1>3, RefusedStep DEF HGet
<1>4. CASE ZRange(k)
  BY <1>1, <1>2, <1>4, RefusedStep DEF ZRange
<1> QED
  BY <1>3, <1>4

-----------------------------------------------------------------------------
(* Hashes.                                                                 *)

LEMMA HSetStep ==
  ASSUME TypeOK, NEW k \in Keys, HSet(k)
  PROVE  StepOK
<1>1. "HSET" \in AllCommands
  BY DEF AllCommands, HashCommands
<1>2. CASE Refuse("HSET", {k}, "hash")
  BY <1>1, <1>2, RefusedStep
<1>3. ASSUME NEW d \in Prepared(db, {k}, "hash"),
             db' = d \/ db' = Notify(Put(d, "hash", k, "some"), "hash_new", k),
             Answer("HSET", "value")
      PROVE  StepOK
  <2>1. Takes({k}, "hash", d, db')
    BY <1>3, PreparedReady, TakesNothing, TakesCreate, ContainerTypes, ContainerEvents
  <2> QED
    BY <1>1, <1>3, <2>1, AnsweredStep
<1> QED
  BY <1>2, <1>3 DEF HSet

LEMMA HMSetStep ==
  ASSUME TypeOK, NEW k \in Keys, NEW values \in SUBSET Keys, HMSet(k, values)
  PROVE  StepOK
<1> DEFINE ks == {k} \cup values
<1>1. "HMSET" \in AllCommands /\ "HMSET" \in PartingCommands /\ ks \in SUBSET Keys
  BY DEF AllCommands, HashCommands, PartingCommands
<1>2. CASE Refuse("HMSET", ks, "hash")
  BY <1>1, <1>2, RefusedStep
<1>3. ASSUME NEW d \in Prepared(db, ks, "hash"),
             \/ db' = Touched(d, "hash", {k})
             \/ db' = Notify(Put(d, "hash", k, "some"), "hash_new", k)
             \/ db' = d,
             Answer("HMSET", "nil") \/ Answer("HMSET", "value")
      PROVE  StepOK
  <2>1. ~Tracking
    BY <1>1, <1>3, PartingAnswer
  <2>2. Ready(ks, "hash", d) /\ k \in ks
    BY <1>1, PreparedReady
  <2> HIDE DEF ks
  <2>3. Takes(ks, "hash", d, db')
    BY <1>1, <1>3, <2>1, <2>2, TakesNothing, TakesCreate, TakesTouched, ContainerTypes,
       ContainerEvents
  <2> QED
    BY <1>1, <1>3, <2>3, AnsweredStep
<1> QED
  BY <1>2, <1>3 DEF HMSet

\* A container that loses elements without an event, or with del.
LEMMA ContainerRemovalStep ==
  ASSUME TypeOK, NEW k \in Keys, HDel(k) \/ ZRem(k)
  PROVE  StepOK
<1>1. {"HDEL", "ZREM"} \subseteq AllCommands /\ {"HDEL", "ZREM"} \subseteq PartingCommands
  BY DEF AllCommands, HashCommands, SortedSetCommands, PartingCommands
<1>2. ASSUME NEW cmd \in {"HDEL", "ZREM"}, NEW t \in {"hash", "zset"},
             NEW d \in Prepared(db, {k}, t), NEW c \in {"empty", "some"},
             \/ db' = Put(d, t, k, c)
             \/ db' = Notify(Put(d, t, k, c), "del", k),
             Answer(cmd, "nil") \/ Answer(cmd, "value")
      PROVE  StepOK
  <2>1. ~Tracking
    BY <1>1, <1>2, PartingAnswer
  <2>2. Ready({k}, t, d) /\ t \in Types /\ c \in Contents /\ c # "absent"
    BY <1>2, PreparedReady, ContainerTypes
  <2>3. Takes({k}, t, d, Put(d, t, k, c))
    BY <2>1, <2>2, TakesUntracked
  <2>4. Takes({k}, t, Put(d, t, k, c), Notify(Put(d, t, k, c), "del", k))
    BY <2>1, <2>3, TakesReady, TakesForget
  <2>5. Takes({k}, t, d, db')
    BY <1>2, <2>3, <2>4, TakesTwice
  <2> QED
    BY <1>1, <1>2, <2>5, AnsweredStep
<1>3. CASE HDel(k)
  BY <1>1, <1>2, <1>3, RefusedStep, ContainerEvents DEF HDel
<1>4. CASE ZRem(k)
  BY <1>1, <1>2, <1>4, RefusedStep, ContainerEvents DEF ZRem, DelIfGone
<1> QED
  BY <1>3, <1>4

-----------------------------------------------------------------------------
(* HyperLogLogs.                                                           *)

LEMMA PFAddStep ==
  ASSUME TypeOK, NEW k \in Keys, PFAdd(k)
  PROVE  StepOK
<1>1. "PFADD" \in AllCommands
  BY DEF AllCommands, HLLCommands
<1>2. CASE Refuse("PFADD", {k}, "hll")
  BY <1>1, <1>2, RefusedStep
<1>3. ASSUME NEW d \in Prepared(db, {k}, "hll"),
             db' = d \/ db' = Notify(Put(d, "hll", k, "some"), "hll_new", k),
             NEW kind \in {"value", "nil"}, Answer("PFADD", kind)
      PROVE  StepOK
  <2>1. Takes({k}, "hll", d, db')
    BY <1>3, PreparedReady, TakesNothing, TakesCreate, ContainerTypes, ContainerEvents
  <2> QED
    BY <1>1, <1>3, <2>1, AnsweredStep
<1> QED
  BY <1>2, <1>3 DEF PFAdd

\* A merge does nothing but look keys up.
LEMMA TakesMerged ==
  ASSUME NEW ks \in SUBSET Keys, NEW d, Ready(ks, "hll", d), NEW sources, NEW c,
         NEW m \in Merged(d, sources, c), ~Tracking
  PROVE  /\ Takes(ks, "hll", d, m)
         /\ \A l \in Keys : Exists(d, "hll", l) => Exists(m, "hll", l)
<1>1. PICK seen : m = Touched(d, "hll", seen)
  BY DEF Merged
<1>2. d \in Db /\ "hll" \in Types
  BY ContainerTypes DEF Ready
<1> QED
  BY <1>1, <1>2, TakesTouched, TouchedFields

LEMMA PFCountStep ==
  ASSUME TypeOK, NEW ks \in SUBSET Keys, PFCount(ks)
  PROVE  StepOK
<1>1. "PFCOUNT" \in AllCommands /\ "PFCOUNT" \in PartingCommands
  BY DEF AllCommands, HLLCommands, PartingCommands
<1>2. CASE Refuse("PFCOUNT", ks, "hll")
  BY <1>1, <1>2, RefusedStep
<1>3. ASSUME NEW d \in Prepared(db, ks, "hll"), NEW k \in Keys, ks = {k},
             Look("PFCOUNT", "hll", k, d)
      PROVE  StepOK
  BY <1>1, <1>3, LookStep
<1>4. ASSUME NEW d \in Prepared(db, ks, "hll"), db' \in Merged(d, ks, "some"),
             Answer("PFCOUNT", "value") \/ Answer("PFCOUNT", "nil")
      PROVE  StepOK
  <2>1. Takes(ks, "hll", d, db')
    BY <1>1, <1>4, PartingAnswer, PreparedReady, TakesMerged
  <2> QED
    BY <1>1, <1>4, <2>1, AnsweredStep
<1> QED
  BY <1>2, <1>3, <1>4 DEF PFCount

LEMMA PFMergeStep ==
  ASSUME TypeOK, NEW dest \in Keys, NEW sources \in SUBSET Keys, PFMerge(dest, sources)
  PROVE  StepOK
<1> DEFINE ks == sources \cup {dest}
           Start(d) == IF Exists(d, "hll", dest) THEN d.at["hll"][dest] ELSE "some"
           Made(d) == Put(d, "hll", dest, Start(d))
<1>1. "PFMERGE" \in AllCommands /\ "PFMERGE" \in PartingCommands /\ ks \in SUBSET Keys
  BY DEF AllCommands, HLLCommands, PartingCommands
<1>2. CASE Refuse("PFMERGE", ks, "hll")
  BY <1>1, <1>2, RefusedStep
<1>3. ASSUME NEW d \in Prepared(db, ks, "hll"), NEW m \in Merged(Made(d), sources, Start(d)),
             db' = m \/ db' = Notify(m, "hll_new", dest),
             Answer("PFMERGE", "value") \/ Answer("PFMERGE", "nil")
      PROVE  StepOK
  <2>1. ~Tracking /\ dest \in ks
    BY <1>1, <1>3, PartingAnswer
  <2>2. Ready(ks, "hll", d)
    BY <1>1, PreparedReady
  <2>3. Start(d) \in Contents /\ Start(d) # "absent"
    BY <2>2, ContainerTypes DEF Ready, Db, Exists
  <2> HIDE DEF ks, Start
  <2>4. Takes(ks, "hll", d, Made(d))
    BY <1>1, <2>1, <2>2, <2>3, TakesUntracked, ContainerTypes
  <2>5. Ready(ks, "hll", Made(d)) /\ Exists(Made(d), "hll", dest)
    <3>1. Ready(ks, "hll", Made(d))
      BY <1>1, <2>4, TakesReady
    <3>2. d \in Db
      BY <2>2 DEF Ready
    <3> QED
      BY <2>3, <3>1, <3>2, PutFields, ContainerTypes DEF Exists
  <2> HIDE DEF Made
  <2>6. Takes(ks, "hll", Made(d), m) /\ Exists(m, "hll", dest)
    BY <1>1, <1>3, <2>1, <2>5, TakesMerged
  <2>7. Takes(ks, "hll", m, db')
    BY <1>1, <1>3, <2>1, <2>6, TakesReady, TakesNothing, TakesEvent, ContainerEvents
  <2>8. Takes(ks, "hll", d, db')
    BY <1>1, <2>4, <2>6, <2>7, TakesTwice
  <2> QED
    BY <1>1, <1>3, <2>8, AnsweredStep
<1> QED
  BY <1>2, <1>3 DEF PFMerge

-----------------------------------------------------------------------------
(* Sorted sets.                                                            *)

LEMMA ZAddStep ==
  ASSUME TypeOK, NEW k \in Keys, ZAdd(k)
  PROVE  StepOK
<1>1. "ZADD" \in AllCommands
  BY DEF AllCommands, SortedSetCommands
<1>2. CASE Refuse("ZADD", {k}, "zset")
  BY <1>1, <1>2, RefusedStep
<1>3. ASSUME NEW d \in Prepared(db, {k}, "zset"),
             db' = d \/ db' = Notify(Put(d, "zset", k, "some"), "z_new", k),
             NEW kind \in {"value", "nil"}, Answer("ZADD", kind)
      PROVE  StepOK
  <2>1. Takes({k}, "zset", d, db')
    BY <1>3, PreparedReady, TakesNothing, TakesCreate, ContainerTypes, ContainerEvents
  <2> QED
    BY <1>1, <1>3, <2>1, AnsweredStep
<1> QED
  BY <1>2, <1>3 DEF ZAdd

LEMMA ZIncrByStep ==
  ASSUME TypeOK, NEW k \in Keys, ZIncrBy(k)
  PROVE  StepOK
<1>1. "ZINCRBY" \in AllCommands /\ "ZINCRBY" \in PartingCommands
  BY DEF AllCommands, SortedSetCommands, PartingCommands
<1>2. CASE Refuse("ZINCRBY", {k}, "zset")
  BY <1>1, <1>2, RefusedStep
<1>3. ASSUME NEW d \in Prepared(db, {k}, "zset"),
             db' = d \/ db' = Put(d, "zset", k, "some"),
             NEW kind \in {"value", "nil"}, Answer("ZINCRBY", kind)
      PROVE  StepOK
  <2>1. ~Tracking
    BY <1>1, <1>3, PartingAnswer
  <2>2. Takes({k}, "zset", d, db')
    BY <1>3, <2>1, PreparedReady, TakesNothing, TakesUntracked, ContainerTypes
  <2> QED
    BY <1>1, <1>3, <2>2, AnsweredStep
<1> QED
  BY <1>2, <1>3, ContainerEvents DEF ZIncrBy

\* The frame of ZUNIONSTORE and ZINTERSTORE.
LEMMA ZStoreStep ==
  ASSUME TypeOK, NEW dest \in Keys, NEW sources \in SUBSET Keys,
         ZUnionStore(dest, sources) \/ ZInterStore(dest, sources)
  PROVE  StepOK
<1>1. /\ {"ZUNIONSTORE", "ZINTERSTORE"} \subseteq AllCommands
      /\ {"ZUNIONSTORE", "ZINTERSTORE"} \subseteq PartingCommands
  BY DEF AllCommands, SortedSetCommands, PartingCommands
<1>2. ASSUME NEW c \in {"ZUNIONSTORE", "ZINTERSTORE"}, Refuse(c, {dest}, "zset") PROVE StepOK
  BY <1>1, <1>2, RefusedStep
<1>3. ASSUME NEW d \in Prepared(db, {dest}, "zset"), NEW seen,
             NEW e \in {"zunionstore", "zinterstore"}, NEW content \in {"empty", "some"},
             db' = ZStored(d, dest, seen, e, content),
             NEW c \in {"ZUNIONSTORE", "ZINTERSTORE"}, Answer(c, "value") \/ Answer(c, "nil")
      PROVE  StepOK
  <2> DEFINE ks == {dest}
             forgot == DelIfGone(d, "zset", dest)
             touched == Touched(forgot, "zset", seen)
  <2>1. ~Tracking /\ dest \in ks /\ ks \in SUBSET Keys
    BY <1>1, <1>3, PartingAnswer
  <2>2. Ready(ks, "zset", d)
    BY PreparedReady
  <2> HIDE DEF ks
  <2>3. Takes(ks, "zset", d, forgot)
    BY <2>1, <2>2, TakesNothing, TakesForget DEF DelIfGone
  <2> HIDE DEF forgot
  <2>4. Takes(ks, "zset", forgot, touched)
    BY <2>1, <2>3, TakesReady, TakesTouched, ContainerTypes
  <2> HIDE DEF touched
  <2>5. Takes(ks, "zset", touched, Notify(Put(touched, "zset", dest, content), e, dest))
    BY <1>3, <2>1, <2>4, TakesReady, TakesAnnounced, ContainerTypes, ContainerEvents
  <2>6. db' = Notify(Put(touched, "zset", dest, content), e, dest)
    BY <1>3 DEF ZStored, touched, forgot
  <2>7. Takes(ks, "zset", d, touched)
    BY <2>1, <2>3, <2>4, TakesTwice
  <2>8. Takes(ks, "zset", d, db')
    BY <2>1, <2>5, <2>6, <2>7, TakesTwice
  <2> QED
    BY <1>1, <1>3, <2>8, AnsweredStep DEF ks
<1>4. CASE ZUnionStore(dest, sources)
  BY <1>2, <1>3, <1>4 DEF ZUnionStore
<1>5. CASE ZInterStore(dest, sources)
  BY <1>2, <1>3, <1>5 DEF ZInterStore
<1> QED
  BY <1>4, <1>5
=============================================================================
