--------------------------- MODULE KeySpaceProofs ---------------------------
(***************************************************************************)
(* Theorems about KeySpace, for any keys, any longest timeout and any set  *)
(* of commands.                                                            *)
(***************************************************************************)
EXTENDS KeySpace, CommandProofs

-----------------------------------------------------------------------------
(* The steps of the commands on strings.                                   *)

LEMMA TakesSetString ==
  ASSUME NEW ks \in SUBSET Keys, NEW d, Ready(ks, "string", d), NEW k \in ks
  PROVE  Takes(ks, "string", d, SetString(d, k))
<1>1. "string" \in Types /\ CreatedBy("set") = "string"
  BY DEF Types, CreatedBy
<1> QED
  BY <1>1, TakesCreate DEF SetString

\* An item of another expiry changes nothing of what a command may take.
LEMMA TakesItem ==
  ASSUME NEW ks \in SUBSET Keys, NEW d, Ready(ks, "string", d), NEW k \in ks,
         NEW item \in StringItems
  PROVE  Takes(ks, "string", d, Add(SetString(d, k), k, item))
<1> DEFINE p == SetString(d, k)
           q == Add(p, k, item)
<1>1. Takes(ks, "string", d, p)
  BY TakesSetString
<1>2. p.km[k].type = "string"
  <2>1. CreatedBy("set") = "string" /\ "string" \in Types /\ "some" \in Contents
    BY DEF CreatedBy, Types, Contents
  <2>2. Put(d, "string", k, "some") \in Db /\ k \in Keys
    BY <2>1, PutFields DEF Ready
  <2>3. p.km[k] = Fresh("string")
    BY <2>1, <2>2, NotifyFields DEF SetString
  <2> QED
    BY <2>3 DEF Fresh
<1>3. item \in Item /\ item.type = "string"
  BY MaxLeftAssumption DEF StringItems, Fresh, Item, Types
<1> HIDE DEF p
<1>4. /\ q \in Db /\ q.at = p.at
      /\ \A l \in Keys : q.km[l] = IF l = k THEN item ELSE p.km[l]
  BY <1>1, <1>3, AddFields DEF Takes
<1> HIDE DEF q
<1>5. Agrees(p) => Agrees(q)
  BY <1>2, <1>3, <1>4 DEF Agrees
<1>5b. Backed(p) => Backed(q)
  BY <1>2, <1>3, <1>4 DEF Backed, Tracked, Exists
<1>6. Takes(ks, "string", d, q)
  BY <1>1, <1>3, <1>4, <1>5, <1>5b DEF Takes
<1> QED
  BY <1>6 DEF p, q

LEMMA TakesSetStrings ==
  ASSUME NEW ks \in SUBSET Keys, NEW d, Ready(ks, "string", d)
  PROVE  Takes(ks, "string", d, SetStrings(d, ks))
<1> DEFINE p == SetStrings(d, ks)
<1>1. Fresh("string") \in Item /\ Fresh("string").type = "string"
  BY FreshItems DEF Types, Fresh
<1>2. d \in Db /\ "string" \in Types /\ "some" \in Contents
  BY DEF Ready, Types, Contents
<1>3. p = [km |-> p.km, at |-> p.at]
  BY DEF SetStrings
<1>4. p.km = [k \in Keys |-> IF k \in ks THEN Fresh("string") ELSE d.km[k]]
  BY DEF SetStrings
<1>5. p.at = [d.at EXCEPT !["string"] = [k \in Keys |-> IF k \in ks THEN "some" ELSE @[k]]]
  BY DEF SetStrings
<1> HIDE DEF p
<1>6. p.km \in [Keys -> Item] /\ p.at \in [Types -> [Keys -> Contents]]
  BY <1>1, <1>2, <1>4, <1>5 DEF Db
<1>7. p \in Db
  BY <1>3, <1>6 DEF Db
<1>7b. /\ \A l \in Keys : p.at["string"][l] = IF l \in ks THEN "some" ELSE d.at["string"][l]
       /\ \A u \in Types \ {"string"} : p.at[u] = d.at[u]
  BY <1>2, <1>5 DEF Db
<1>8. ASSUME Agrees(d) PROVE Agrees(p)
  <2> SUFFICES ASSUME NEW l \in Keys, NEW u \in Types
               PROVE  p.at[u][l] = IF p.km[l].type = u THEN "some" ELSE "absent"
    BY DEF Agrees
  <2>2. d.at[u][l] = IF d.km[l].type = u THEN "some" ELSE "absent"
    BY <1>8 DEF Agrees
  <2>3. CASE l \in ks
    <3>1. u # "none" /\ d.km[l].type \in {"none", "string"} /\ p.km[l] = Fresh("string")
      BY <1>4, <2>3 DEF Types, Ready
    <3> QED
      BY <1>1, <1>7b, <2>2, <2>3, <3>1
  <2>4. CASE l \notin ks
    <3>1. p.km[l] = d.km[l]
      BY <1>4, <2>4
    <3> QED
      BY <1>7b, <2>2, <2>4, <3>1
  <2> QED
    BY <2>3, <2>4
<1>8b. ASSUME Backed(d) PROVE Backed(p)
  <2> SUFFICES ASSUME NEW l \in Keys, Tracked(p, l) PROVE Exists(p, p.km[l].type, l)
    BY DEF Backed
  <2>1. CASE l \in ks
    BY <1>1, <1>4, <1>7b, <2>1 DEF Exists
  <2>2. CASE l \notin ks
    <3>1. Tracked(d, l) /\ p.km[l] = d.km[l] /\ d.km[l].type \in Types
      BY <1>2, <1>4, <2>2 DEF Tracked, Db, Item
    <3>2. Exists(d, d.km[l].type, l)
      BY <1>8b, <3>1 DEF Backed
    <3> QED
      BY <1>7b, <2>2, <3>1, <3>2 DEF Exists
  <2> QED
    BY <2>1, <2>2
<1>9. Takes(ks, "string", d, p)
  BY <1>1, <1>4, <1>7, <1>8, <1>8b DEF Takes
<1> QED
  BY <1>9 DEF p

LEMMA StringWriteStep ==
  ASSUME TypeOK, NEW k \in Keys, Set(k) \/ SetNX(k)
  PROVE  StepOK
<1>1. "SET" \in AllCommands /\ "SETNX" \in AllCommands
  BY DEF AllCommands, StringCommands
<1>2. CASE Refuse("SET", {k}, "string") \/ Refuse("SETNX", {k}, "string")
  BY <1>1, <1>2, RefusedStep
<1>3. ASSUME NEW d \in Prepared(db, {k}, "string"),
             \/ /\ \E item \in StringItems : db' = Add(SetString(d, k), k, item)
                /\ Answer("SET", "value")
             \/ db' = SetString(d, k) /\ Answer("SETNX", "value")
             \/ db' = d /\ (Answer("SETNX", "nil") \/ Answer("SET", "nil"))
      PROVE  StepOK
  <2>1. Ready({k}, "string", d)
    BY PreparedReady
  <2>2. Takes({k}, "string", d, db')
    BY <1>3, <2>1, TakesItem, TakesSetString, TakesNothing
  <2>3. reply' \in Reply
    BY <1>1, <1>3, AnswerType
  <2> QED
    BY <2>2, <2>3, CommandStep
<1>4. CASE Set(k)
  BY <1>2, <1>3, <1>4 DEF Set
<1>5. CASE SetNX(k)
  BY <1>2, <1>3, <1>5 DEF SetNX
<1> QED
  BY <1>4, <1>5

LEMMA StringsWriteStep ==
  ASSUME TypeOK, NEW ks \in SUBSET Keys, MSet(ks) \/ MSetNX(ks)
  PROVE  StepOK
<1>1. "MSET" \in AllCommands /\ "MSETNX" \in AllCommands
  BY DEF AllCommands, StringCommands
<1>2. CASE Refuse("MSET", ks, "string") \/ Refuse("MSETNX", ks, "string")
  BY <1>1, <1>2, RefusedStep
<1>3. ASSUME NEW d \in Prepared(db, ks, "string"),
             \/ db' = SetStrings(d, ks) /\ Answer("MSET", "value")
             \/ db' = SetStrings(d, ks) /\ Answer("MSETNX", "value")
             \/ db' = d /\ Answer("MSETNX", "nil")
      PROVE  StepOK
  <2>1. Ready(ks, "string", d)
    BY PreparedReady
  <2>2. Takes(ks, "string", d, db')
    BY <1>3, <2>1, TakesSetStrings, TakesNothing
  <2>3. reply' \in Reply
    BY <1>1, <1>3, AnswerType
  <2> QED
    BY <2>2, <2>3, CommandStep
<1>4. CASE MSet(ks)
  BY <1>2, <1>3, <1>4 DEF MSet
<1>5. CASE MSetNX(ks)
  BY <1>2, <1>3, <1>5 DEF MSetNX
<1> QED
  BY <1>4, <1>5

\* APPEND and SETRANGE fire an event of no effect, BITOP none.
LEMMA StringPutStep ==
  ASSUME TypeOK, NEW k \in Keys, NEW l \in Keys,
         AppendTo(k) \/ SetRange(k) \/ BitOp(k, l)
  PROVE  StepOK
<1>1. {"APPEND", "SETRANGE", "BITOP"} \subseteq AllCommands
  BY DEF AllCommands, StringCommands
<1>2. {"APPEND", "SETRANGE", "BITOP"} \subseteq PartingCommands
  BY DEF PartingCommands
<1>3. \A d : /\ Notify(d, "append", k) = d
             /\ Notify(d, "setrange", k) = d
  BY DEF Notify, CreatedBy
<1>4. ASSUME NEW ks \in SUBSET Keys, k \in ks, NEW d \in Prepared(db, ks, "string"),
             NEW c \in {"APPEND", "SETRANGE", "BITOP"},
             db' = Put(d, "string", k, "some"), Answer(c, "value")
      PROVE  StepOK
  <2>0. ~Tracking
    BY <1>2, <1>4, PartingAnswer
  <2>1. Ready(ks, "string", d) /\ "string" \in Types /\ "some" \in Contents
    BY PreparedReady DEF Types, Contents
  <2>2. Takes(ks, "string", d, db')
    BY <1>4, <2>0, <2>1, TakesUntracked
  <2>3. reply' \in Reply
    BY <1>1, <1>4, AnswerType
  <2> QED
    BY <2>2, <2>3, CommandStep
<1>5. CASE AppendTo(k)
  BY <1>1, <1>3, <1>4, <1>5, RefusedStep DEF AppendTo
<1>6. CASE SetRange(k)
  BY <1>1, <1>3, <1>4, <1>6, RefusedStep DEF SetRange
<1>7. CASE BitOp(k, l)
  BY <1>1, <1>4, <1>7, RefusedStep DEF BitOp
<1> QED
  BY <1>5, <1>6, <1>7

\* The commands that only look.
LEMMA ReadStep ==
  ASSUME TypeOK, NEW k \in Keys,
         Get(k) \/ Incr(k) \/ LLen(k) \/ LSet(k) \/ SCard(k) \/ SRandMember(k)
  PROVE  StepOK
<1>1. {"GET", "INCR", "LLEN", "LSET", "SCARD", "SRANDMEMBER"} \subseteq AllCommands
  BY DEF AllCommands, StringCommands, ListCommands, SetCommands
<1>2. ASSUME NEW c \in AllCommands, NEW t, Read(c, t, k) PROVE StepOK
  BY <1>2, RefusedStep, LookStep DEF Read
<1> QED
  BY <1>1, <1>2 DEF Get, Incr, LLen, LSet, SCard, SRandMember

LEMMA MGetStep ==
  ASSUME TypeOK, NEW ks \in SUBSET Keys, MGet(ks)
  PROVE  StepOK
<1>1. "MGET" \in AllCommands
  BY DEF AllCommands, StringCommands
<1>2. CASE Refuse("MGET", ks, "string")
  BY <1>1, <1>2, RefusedStep
<1>3. ASSUME NEW d \in Prepared(db, ks, "string"), db' = d, Answer("MGET", "value")
      PROVE  StepOK
  <2>1. Takes(ks, "string", d, db')
    BY <1>3, PreparedReady, TakesNothing
  <2> QED
    BY <1>1, <1>3, <2>1, AnswerType, CommandStep
<1> QED
  BY <1>2, <1>3 DEF MGet

-----------------------------------------------------------------------------
(* The steps of the commands on lists.                                     *)

\* A push announces a list that it makes.
LEMMA TakesPush ==
  ASSUME NEW ks \in SUBSET Keys, NEW d, Ready(ks, "list", d), NEW k \in ks
  PROVE  Takes(ks, "list", d, Push(d, k))
<1>1. "list" \in Types /\ CreatedBy("list_new") = "list"
  BY DEF Types, CreatedBy
<1> QED
  BY <1>1, TakesCreate, TakesNothing DEF Push

\* A pop forgets the list that it empties, when it fires the event.
LEMMA TakesPop ==
  ASSUME NEW ks \in SUBSET Keys, NEW d, Ready(ks, "list", d), NEW k \in ks,
         d.at["list"][k] = "some", NEW p \in Popped(d, k)
  PROVE  Takes(ks, "list", d, DelIfGone(p, "list", k))
<1>1. "list" \in Types /\ "absent" \in Contents /\ k \in Keys /\ d \in Db
  BY DEF Types, Contents, Ready
<1>2. CASE p = d
  BY <1>2, TakesNothing DEF DelIfGone, Exists
<1>3. CASE p = Put(d, "list", k, "absent")
  <2>1. ~Exists(p, "list", k)
    BY <1>1, <1>3, PutFields DEF Exists
  <2> QED
    BY <1>1, <1>3, <2>1, TakesRemove DEF DelIfGone
<1> QED
  BY <1>2, <1>3 DEF Popped

\* The events of pushes and pops mean nothing to the KeyMap.
LEMMA SilentEvents ==
  \A d, k : /\ Notify(d, "lpush", k) = d
            /\ Notify(d, "lpop", k) = d
            /\ Notify(d, "srem", k) = d
            /\ Notify(d, "spop", k) = d
BY DEF Notify, CreatedBy

LEMMA ListPushStep ==
  ASSUME TypeOK, NEW k \in Keys, LPush(k) \/ LPushX(k)
  PROVE  StepOK
<1>1. "LPUSH" \in AllCommands /\ "LPUSHX" \in AllCommands
  BY DEF AllCommands, ListCommands
<1>2. CASE Refuse("LPUSH", {k}, "list") \/ Refuse("LPUSHX", {k}, "list")
  BY <1>1, <1>2, RefusedStep
<1>3. ASSUME NEW d \in Prepared(db, {k}, "list"),
             db' = Push(d, k) \/ db' = d,
             \/ Answer("LPUSH", "value")
             \/ Answer("LPUSHX", "value")
             \/ Answer("LPUSHX", "nil")
      PROVE  StepOK
  <2>1. Ready({k}, "list", d)
    BY PreparedReady
  <2>2. Takes({k}, "list", d, db')
    BY <1>3, <2>1, TakesPush, TakesNothing
  <2>3. reply' \in Reply
    BY <1>1, <1>3, AnswerType
  <2> QED
    BY <2>2, <2>3, CommandStep
<1>4. CASE LPush(k)
  BY <1>2, <1>3, <1>4, SilentEvents DEF LPush
<1>5. CASE LPushX(k)
  BY <1>2, <1>3, <1>5, SilentEvents DEF LPushX
<1> QED
  BY <1>4, <1>5

LEMMA ListPopStep ==
  ASSUME TypeOK, NEW k \in Keys, LPop(k)
  PROVE  StepOK
<1>1. "LPOP" \in AllCommands
  BY DEF AllCommands, ListCommands
<1>2. CASE Refuse("LPOP", {k}, "list")
  BY <1>1, <1>2, RefusedStep
<1>3. ASSUME NEW d \in Prepared(db, {k}, "list"),
             \/ /\ d.at["list"][k] = "some"
                /\ \E p \in Popped(d, k) : db' = DelIfGone(p, "list", k)
                /\ Answer("LPOP", "value")
             \/ db' = d /\ Answer("LPOP", "nil")
      PROVE  StepOK
  <2>1. Ready({k}, "list", d)
    BY PreparedReady
  <2>2. Takes({k}, "list", d, db')
    BY <1>3, <2>1, TakesPop, TakesNothing
  <2>3. reply' \in Reply
    BY <1>1, <1>3, AnswerType
  <2> QED
    BY <2>2, <2>3, CommandStep
<1>4. \A p : Notify(DelIfGone(p, "list", k), "lpop", k) = DelIfGone(p, "list", k)
  BY SilentEvents
<1> QED
  BY <1>2, <1>3, <1>4 DEF LPop

\* BLPOP, LREM and RPOPLPUSH change lists behind the KeyMap's back.
LEMMA ListUntrackedStep ==
  ASSUME TypeOK,
         \/ \E k \in Keys : LRem(k)
         \/ \E k, l \in Keys : RPopLPush(k, l)
         \/ \E ks \in SUBSET Keys : BLPop(ks)
  PROVE  StepOK
<1>1. {"LREM", "RPOPLPUSH", "BLPOP"} \subseteq AllCommands
  BY DEF AllCommands, ListCommands
<1>2. /\ {"LREM", "RPOPLPUSH", "BLPOP"} \subseteq PartingCommands
      /\ "BLPOP" \in PhantomCommands
  BY DEF PartingCommands, PhantomCommands
<1>3. "list" \in Types /\ {"some", "empty", "absent"} \subseteq Contents
  BY DEF Types, Contents
<1>4. ASSUME NEW ks \in SUBSET Keys, NEW d \in Prepared(db, ks, "list"),
             Takes(ks, "list", d, db'), NEW c \in {"LREM", "RPOPLPUSH", "BLPOP"},
             NEW kind \in {"value", "nil", "pending"}, Answer(c, kind)
      PROVE  StepOK
  BY <1>1, <1>4, AnswerType, CommandStep
<1>5. ASSUME NEW k \in Keys, LRem(k) PROVE StepOK
  <2>1. CASE Refuse("LREM", {k}, "list")
    BY <1>1, <2>1, RefusedStep
  <2>2. ASSUME NEW d \in Prepared(db, {k}, "list"),
               \/ /\ \E c \in {"some", "empty"} : db' = Put(d, "list", k, c)
                  /\ Answer("LREM", "value")
               \/ db' = d /\ Answer("LREM", "nil")
        PROVE  StepOK
    <3>1. Ready({k}, "list", d) /\ ~Tracking
      BY <1>2, <2>2, PreparedReady, PartingAnswer
    <3>2. Takes({k}, "list", d, db')
      BY <1>3, <2>2, <3>1, TakesUntracked, TakesNothing
    <3> QED
      BY <1>4, <2>2, <3>2
  <2> QED
    BY <1>5, <2>1, <2>2 DEF LRem
<1>6. ASSUME NEW k \in Keys, NEW l \in Keys, RPopLPush(k, l) PROVE StepOK
  <2>1. CASE Refuse("RPOPLPUSH", {k, l}, "list")
    BY <1>1, <2>1, RefusedStep
  <2>2. ASSUME NEW d \in Prepared(db, {k, l}, "list"),
               \/ /\ d.at["list"][k] = "some"
                  /\ \E p \in Popped(d, k) :
                        db' = Put(DelIfGone(p, "list", k), "list", l, "some")
                  /\ Answer("RPOPLPUSH", "value")
               \/ db' = d /\ Answer("RPOPLPUSH", "nil")
        PROVE  StepOK
    <3>1. Ready({k, l}, "list", d) /\ ~Tracking
      BY <1>2, <2>2, PreparedReady, PartingAnswer
    <3>2. ASSUME NEW p \in Popped(d, k), d.at["list"][k] = "some"
          PROVE  Takes({k, l}, "list", d, Put(DelIfGone(p, "list", k), "list", l, "some"))
      <4>1. Takes({k, l}, "list", d, DelIfGone(p, "list", k))
        BY <3>1, <3>2, TakesPop
      <4>2. Takes({k, l}, "list", DelIfGone(p, "list", k),
                  Put(DelIfGone(p, "list", k), "list", l, "some"))
        BY <1>3, <3>1, <4>1, TakesReady, TakesUntracked
      <4> QED
        BY <4>1, <4>2, TakesTwice
    <3>3. Takes({k, l}, "list", d, db')
      BY <2>2, <3>1, <3>2, TakesNothing
    <3> QED
      BY <1>4, <2>2, <3>3
  <2> QED
    BY <1>6, <2>1, <2>2 DEF RPopLPush
<1>7. ASSUME NEW ks \in SUBSET Keys, BLPop(ks) PROVE StepOK
  <2>1. CASE Refuse("BLPOP", ks, "list")
    BY <1>1, <2>1, RefusedStep
  <2>2. ASSUME NEW d \in Prepared(db, ks, "list"),
               \/ \E k \in ks : db' \in Popped(d, k) /\ Answer("BLPOP", "value")
               \/ db' = d /\ Answer("BLPOP", "nil")
               \/ db' = d /\ Answer("BLPOP", "pending")
        PROVE  StepOK
    <3>1. Ready(ks, "list", d) /\ ~Tracking /\ ~Backing
      BY <1>2, <2>2, PreparedReady, PartingAnswer
    <3>2. Takes(ks, "list", d, db')
      BY <1>3, <2>2, <3>1, TakesUntracked, TakesNothing DEF Popped
    <3> QED
      BY <1>4, <2>2, <3>2
  <2> QED
    BY <1>7, <2>1, <2>2 DEF BLPop
<1> QED
  BY <1>5, <1>6, <1>7

LEMMA BRPopLPushStep ==
  ASSUME TypeOK, NEW k \in Keys, NEW l \in Keys, BRPopLPush(k, l)
  PROVE  StepOK
<1>1. "BRPOPLPUSH" \in AllCommands
  BY DEF AllCommands, ListCommands
<1>2. CASE Refuse("BRPOPLPUSH", {k, l}, "list")
  BY <1>1, <1>2, RefusedStep
<1>3. ASSUME NEW d \in Prepared(db, {k, l}, "list"),
             \/ /\ d.at["list"][k] = "some"
                /\ \E p \in Popped(d, k) : db' = Push(DelIfGone(p, "list", k), l)
                /\ Answer("BRPOPLPUSH", "value")
             \/ db' = d /\ Answer("BRPOPLPUSH", "nil")
             \/ db' = d /\ Answer("BRPOPLPUSH", "pending")
      PROVE  StepOK
  <2>1. Ready({k, l}, "list", d)
    BY PreparedReady
  <2>2. ASSUME NEW p \in Popped(d, k), d.at["list"][k] = "some"
        PROVE  Takes({k, l}, "list", d, Push(DelIfGone(p, "list", k), l))
    <3>1. Takes({k, l}, "list", d, DelIfGone(p, "list", k))
      BY <2>1, <2>2, TakesPop
    <3>2. Takes({k, l}, "list", DelIfGone(p, "list", k), Push(DelIfGone(p, "list", k), l))
      BY <3>1, TakesReady, TakesPush
    <3> QED
      BY <3>1, <3>2, TakesTwice
  <2>3. Takes({k, l}, "list", d, db')
    BY <1>3, <2>1, <2>2, TakesNothing
  <2>4. reply' \in Reply
    BY <1>1, <1>3, AnswerType
  <2> QED
    BY <2>3, <2>4, CommandStep
<1> QED
  BY <1>2, <1>3 DEF BRPopLPush

-----------------------------------------------------------------------------
(* The steps of the commands on sets.                                      *)

LEMMA TakesRemoved ==
  ASSUME NEW ks \in SUBSET Keys, NEW d, Ready(ks, "set", d), NEW k \in ks,
         NEW r \in Removed(d, k)
  PROVE  Takes(ks, "set", d, DelIfGone(r, "set", k)) 
<1>1. "set" \in Types /\ "absent" \in Contents /\ k \in Keys /\ d \in Db
  BY DEF Types, Contents, Ready
<1>2. CASE HasElements(d, "set", k) /\ r = d
  BY <1>2, TakesNothing DEF DelIfGone, Exists, HasElements
<1>3. CASE r = Put(d, "set", k, "absent")
  <2>1. ~Exists(r, "set", k)
    BY <1>1, <1>3, PutFields DEF Exists
  <2> QED
    BY <1>1, <1>3, <2>1, TakesRemove DEF DelIfGone
<1> QED
  BY <1>2, <1>3 DEF Removed

LEMMA SetMemberStep ==
  ASSUME TypeOK, NEW k \in Keys, SAdd(k) \/ SRem(k) \/ SPop(k)
  PROVE  StepOK
<1>1. {"SADD", "SREM", "SPOP"} \subseteq AllCommands
  BY DEF AllCommands, SetCommands
<1>2. ASSUME NEW c \in {"SADD", "SREM", "SPOP"}, Refuse(c, {k}, "set") PROVE StepOK
  BY <1>1, <1>2, RefusedStep
<1>3. ASSUME NEW d \in Prepared(db, {k}, "set"),
             \/ db' = d
             \/ db' = Notify(Put(d, "set", k, "some"), "set_new", k)
             \/ \E r \in Removed(d, k) : db' = DelIfGone(r, "set", k),
             NEW c \in {"SADD", "SREM", "SPOP"}, NEW kind \in {"value", "nil"},
             Answer(c, kind)
      PROVE  StepOK
  <2>1. Ready({k}, "set", d)
    BY PreparedReady
  <2>2. "set" \in Types /\ CreatedBy("set_new") = "set"
    BY DEF Types, CreatedBy
  <2>3. Takes({k}, "set", d, db')
    BY <1>3, <2>1, <2>2, TakesCreate, TakesRemoved, TakesNothing
  <2>4. reply' \in Reply
    BY <1>1, <1>3, AnswerType
  <2> QED
    BY <2>3, <2>4, CommandStep
<1>4. \A r : /\ Notify(DelIfGone(r, "set", k), "srem", k) = DelIfGone(r, "set", k)
             /\ Notify(DelIfGone(r, "set", k), "spop", k) = DelIfGone(r, "set", k)
  BY SilentEvents
<1>5. CASE SAdd(k)
  BY <1>2, <1>3, <1>5 DEF SAdd
<1>6. CASE SRem(k)
  BY <1>2, <1>3, <1>4, <1>6 DEF SRem
<1>7. CASE SPop(k)
  BY <1>2, <1>3, <1>4, <1>7 DEF SPop
<1> QED
  BY <1>5, <1>6, <1>7

LEMMA TakesStored ==
  ASSUME NEW ks \in SUBSET Keys, NEW d, Ready(ks, "set", d), NEW dest \in ks,
         NEW e \in {"sunionostore", "sinterstore"}, NEW c \in {"some", "empty"}, ~Tracking
  PROVE  Takes(ks, "set", d, Stored(d, dest, e, c))
<1> DEFINE p == Notify(d, "del", dest)
<1>1. "set" \in Types /\ CreatedBy(e) = "set"
  BY DEF Types, CreatedBy
<1>2. Takes(ks, "set", d, p)
  BY TakesForget
<1> HIDE DEF p
<1>3. Takes(ks, "set", p, Notify(Put(p, "set", dest, c), e, dest))
  BY <1>1, <1>2, TakesReady, TakesAnnounced
<1>4. Takes(ks, "set", d, Notify(Put(p, "set", dest, c), e, dest))
  BY <1>2, <1>3, TakesTwice
<1> QED
  BY <1>4 DEF Stored, p

SetLookups == {"SMEMBERS", "SUNION", "SUNIONSTORE", "SINTERSTORE", "SDIFFSTORE", "SMOVE"}

\* The frame of the commands that create sets behind the KeyMap's back.
LEMMA SetUntracked ==
  /\ SetLookups \subseteq AllCommands
  /\ SetLookups \subseteq PartingCommands
BY DEF SetLookups, AllCommands, SetCommands, PartingCommands

LEMMA SetUntrackedStep ==
  ASSUME TypeOK, NEW ks \in SUBSET Keys, NEW d \in Prepared(db, ks, "set"),
         NEW c \in SetLookups, Takes(ks, "set", d, db'),
         NEW kind \in {"value", "nil"}, Answer(c, kind)
  PROVE  StepOK
BY SetUntracked, AnswerType, CommandStep

LEMMA SetLookupStep ==
  ASSUME TypeOK, (\E k \in Keys : SMembers(k)) \/ (\E ks \in SUBSET Keys : SUnion(ks))
  PROVE  StepOK
<1>1. ASSUME NEW k \in Keys, SMembers(k) PROVE StepOK
  <2>1. "SMEMBERS" \in SetLookups
    BY DEF SetLookups
  <2>2. CASE Refuse("SMEMBERS", {k}, "set")
    BY <2>1, <2>2, SetUntracked, RefusedStep
  <2>3. ASSUME NEW d \in Prepared(db, {k}, "set"), db' = Touched(d, "set", {k}),
               Answer("SMEMBERS", "value") \/ Answer("SMEMBERS", "nil")
        PROVE  StepOK
    <3>0. ~Tracking /\ "set" \in Types
      BY <2>1, <2>3, SetUntracked, PartingAnswer DEF Types
    <3>1. Takes({k}, "set", d, db')
      BY <2>3, <3>0, PreparedReady, TakesTouched
    <3> QED
      BY <2>1, <2>3, <3>1, SetUntrackedStep
  <2> QED
    BY <1>1, <2>2, <2>3 DEF SMembers
<1>2. ASSUME NEW ks \in SUBSET Keys, SUnion(ks) PROVE StepOK
  <2>1. "SUNION" \in SetLookups
    BY DEF SetLookups
  <2>2. CASE Refuse("SUNION", ks, "set")
    BY <2>1, <2>2, SetUntracked, RefusedStep
  <2>3. ASSUME NEW d \in Prepared(db, ks, "set"), NEW seen \in SUBSET ks, db' = Touched(d, "set", seen),
               Answer("SUNION", "value")
        PROVE  StepOK
    <3>0. ~Tracking /\ "set" \in Types
      BY <2>1, <2>3, SetUntracked, PartingAnswer DEF Types
    <3>1. Takes(ks, "set", d, db')
      BY <2>3, <3>0, PreparedReady, TakesTouched
    <3> QED
      BY <2>1, <2>3, <3>1, SetUntrackedStep
  <2> QED
    BY <1>2, <2>2, <2>3 DEF SUnion
<1> QED
  BY <1>1, <1>2

\* The sources are looked up and the destination is written and announced.
LEMMA StoreStep ==
  ASSUME TypeOK, NEW ks \in SUBSET Keys, NEW dest \in ks, NEW seen \in SUBSET ks,
         NEW d \in Prepared(db, ks, "set"), NEW c \in SetLookups,
         NEW e \in {"sunionostore", "sinterstore"}, NEW content \in {"some", "empty"},
         db' = Stored(Touched(d, "set", seen), dest, e, content), Answer(c, "value")
  PROVE  StepOK
<1>1. ~Tracking /\ "set" \in Types
  BY SetUntracked, PartingAnswer DEF Types
<1>2. Takes(ks, "set", d, Touched(d, "set", seen))
  BY <1>1, PreparedReady, TakesTouched
<1>3. Takes(ks, "set", Touched(d, "set", seen), db')
  BY <1>1, <1>2, TakesReady, TakesStored
<1>4. Takes(ks, "set", d, db')
  BY <1>2, <1>3, TakesTwice
<1> QED
  BY <1>4, SetUntrackedStep

LEMMA SetStoreStep ==
  ASSUME TypeOK, NEW dest \in Keys, NEW ks \in SUBSET Keys,
         \/ SUnionStore(dest, ks)
         \/ SInterStore(dest, ks)
         \/ \E source \in Keys : SDiffStore(dest, source, ks)
  PROVE  StepOK
<1>1. {"SUNIONSTORE", "SINTERSTORE", "SDIFFSTORE"} \subseteq SetLookups
  BY DEF SetLookups
<1>2. ASSUME NEW c \in SetLookups, NEW keys, Refuse(c, keys, "set") PROVE StepOK
  BY <1>2, SetUntracked, RefusedStep
<1>3. CASE SUnionStore(dest, ks)
  <2>1. ASSUME NEW d \in Prepared(db, ks \cup {dest}, "set"),
               NEW content \in {"some", "empty"},
               db' = Stored(Touched(d, "set", ks), dest, "sunionostore", content),
               Answer("SUNIONSTORE", "value")
        PROVE  StepOK
    BY <1>1, <2>1, StoreStep
  <2> QED
    BY <1>1, <1>2, <1>3, <2>1 DEF SUnionStore
<1>4. CASE SInterStore(dest, ks)
  <2>1. ASSUME NEW d \in Prepared(db, ks \cup {dest}, "set"), NEW seen \in SUBSET ks,
               NEW content \in {"some", "empty"},
               db' = Stored(Touched(d, "set", seen), dest, "sinterstore", content),
               Answer("SINTERSTORE", "value")
        PROVE  StepOK
    <3>1. seen \in SUBSET (ks \cup {dest})
      OBVIOUS
    <3> QED
      BY <1>1, <2>1, <3>1, StoreStep
  <2> QED
    BY <1>1, <1>2, <1>4, <2>1 DEF SInterStore
<1>5. ASSUME NEW source \in Keys, SDiffStore(dest, source, ks) PROVE StepOK
  <2>1. ASSUME NEW d \in Prepared(db, ks \cup {dest, source}, "set"),
               NEW content \in {"some", "empty"},
               db' = Stored(Touched(d, "set", ks \cup {source}), dest, "sunionostore", content),
               Answer("SDIFFSTORE", "value")
        PROVE  StepOK
    <3>1. ks \cup {source} \in SUBSET (ks \cup {dest, source})
      OBVIOUS
    <3> QED
      BY <1>1, <2>1, <3>1, StoreStep
  <2> QED
    BY <1>1, <1>2, <1>5, <2>1 DEF SDiffStore
<1> QED
  BY <1>3, <1>4, <1>5

LEMMA SMoveStep ==
  ASSUME TypeOK, NEW k \in Keys, NEW l \in Keys, SMove(k, l)
  PROVE  StepOK
<1>1. "SMOVE" \in SetLookups /\ "SMOVE" \in PhantomCommands
  BY DEF SetLookups, PhantomCommands
<1>2. CASE Refuse("SMOVE", {k, l}, "set")
  BY <1>1, <1>2, SetUntracked, RefusedStep
<1>3. "set" \in Types /\ {"empty", "some"} \subseteq Contents /\ CreatedBy("set_new") = "set"
  BY DEF Types, Contents, CreatedBy
<1>4. ASSUME NEW d \in Prepared(db, {k, l}, "set"), NEW c \in {"empty", "some"},
             NEW p \in {d, Put(Put(d, "set", k, c), "set", l, "some")},
             db' = Notify(p, "set_new", l), Answer("SMOVE", "value") \/ Answer("SMOVE", "nil")
      PROVE  StepOK
  <2>1. ~Tracking /\ ~Backing /\ Ready({k, l}, "set", d)
    BY <1>1, <1>4, SetUntracked, PartingAnswer, PreparedReady
  <2>2. Takes({k, l}, "set", d, Put(d, "set", k, c))
    BY <1>3, <2>1, TakesUntracked
  <2>3. Takes({k, l}, "set", Put(d, "set", k, c), Put(Put(d, "set", k, c), "set", l, "some"))
    BY <1>3, <2>1, <2>2, TakesReady, TakesUntracked
  <2>4. Takes({k, l}, "set", d, p)
    BY <1>4, <2>1, <2>2, <2>3, TakesTwice, TakesNothing
  <2>5. Takes({k, l}, "set", p, db')
    BY <1>3, <1>4, <2>1, <2>4, TakesReady, TakesEvent
  <2>6. Takes({k, l}, "set", d, db')
    BY <2>4, <2>5, TakesTwice
  <2> QED
    BY <1>1, <1>4, <2>6, SetUntrackedStep
<1> QED
  BY <1>2, <1>4 DEF SMove

-----------------------------------------------------------------------------
(* The steps of the commands on keys of any type, of the server and of time. *)

\* A command that registers its keys with no type runs for unknown keys only.
LEMMA KeyStep ==
  ASSUME TypeOK, NEW k \in Keys, NEW l \in Keys,
         ExistsKey(k) \/ TTL(k) \/ Type(k) \/ Expire(k) \/ Persist(k) \/ RenameKey(k, l)
  PROVE  StepOK
<1>1. {"EXISTS", "TTL", "TYPE", "EXPIRE", "PERSIST", "RENAME"} \subseteq AllCommands
  BY DEF AllCommands, KeyCommands
<1>2. ASSUME NEW c \in {"EXISTS", "TTL", "TYPE", "EXPIRE", "PERSIST", "RENAME"}, NEW ks, Refuse(c, ks, "none")
      PROVE  StepOK
  BY <1>1, <1>2, RefusedStep
<1>3. ASSUME NEW ks \in SUBSET Keys, k \in ks, NEW d \in Prepared(db, ks, "none")
      PROVE  ~Tracked(d, k)
  BY <1>3, PreparedReady DEF Ready, Tracked
<1>4. ASSUME NEW ks \in SUBSET Keys, NEW d \in Prepared(db, ks, "none"), db' = d,
             NEW c \in {"EXISTS", "TTL", "TYPE", "EXPIRE", "PERSIST", "RENAME"},
             NEW kind \in {"value", "nil"}, Answer(c, kind)
      PROVE  StepOK
  <2>1. Takes(ks, "none", d, db')
    BY <1>4, PreparedReady, TakesNothing
  <2> QED
    BY <1>1, <1>4, <2>1, AnswerType, CommandStep
<1>5. CASE ExistsKey(k)
  BY <1>2, <1>4, <1>5 DEF ExistsKey
<1>5a. CASE TTL(k)
  BY <1>2, <1>4, <1>5a DEF TTL
<1>5b. CASE Type(k)
  BY <1>2, <1>4, <1>5b DEF Type
<1>6. CASE Expire(k)
  BY <1>2, <1>3, <1>4, <1>6 DEF Expire
<1>7. CASE Persist(k)
  BY <1>2, <1>3, <1>4, <1>7 DEF Persist
<1>8. CASE RenameKey(k, l)
  BY <1>2, <1>3, <1>4, <1>8 DEF RenameKey
<1> QED
  BY <1>5, <1>5a, <1>5b, <1>6, <1>7, <1>8

\* Deleting keys of any type.
LEMMA DeletingStep ==
  ASSUME TypeOK, NEW gone \in SUBSET Keys, db' = DelKeys(db, gone), reply' \in Reply
  PROVE  StepOK
<1>1. NoItem.type = "none"
  BY DEF NoItem
<1>2. db \in Db
  BY DEF TypeOK
<1>3. db' \in Db /\ \A k \in Keys : Tracked(db, k)' => db'.km[k] = db.km[k]
  BY <1>1, <1>2, DelKeysFields DEF Tracked
<1>4. Agrees(db) => Agrees(db)'
  BY <1>2, AgreesDelKeys DEF Agrees
<1>5. Backed(db) => Backed(db)'
  BY <1>2, BackedDelKeys DEF Backed, Tracked, Exists
<1> QED
  BY <1>3, <1>4, <1>5 DEF StepOK, TypeOK

LEMMA DelStep ==
  ASSUME TypeOK, NEW k \in Keys, NEW ks \in SUBSET Keys, Del(k, ks)
  PROVE  StepOK
<1>1. "DEL" \in AllCommands
  BY DEF AllCommands, KeyCommands
<1>2. CASE Refuse("DEL", {k}, "none")
  BY <1>1, <1>2, RefusedStep
<1>3. ASSUME NEW d \in Prepared(db, {k}, "none"), db' = DelKeys(d, {k} \cup ks),
             Answer("DEL", "value") \/ Answer("DEL", "nil")
      PROVE  StepOK
  <2> DEFINE own == {k}
  <2>1. PICK gone \in SUBSET own : d = DelKeys(db, gone)
    <3>1. db \in Db /\ own \in SUBSET Keys /\ d \in Prepared(db, own, "none")
      BY DEF TypeOK
    <3> QED
      BY <3>1, PreparedDb
  <2>2. db' = DelKeys(db, {k} \cup ks)
    BY <1>3, <2>1 DEF DelKeys
  <2>3. reply' \in Reply
    BY <1>1, <1>3, AnswerType
  <2> QED
    BY <2>2, <2>3, DeletingStep
<1> QED
  BY <1>2, <1>3 DEF Del

LEMMA ServerStep ==
  ASSUME TypeOK, FlushDb \/ FlushAll
  PROVE  StepOK
<1>1. "FLUSHDB" \in AllCommands /\ "FLUSHALL" \in AllCommands
  BY DEF AllCommands, ServerCommands
<1>2. reply' \in Reply
  BY <1>1, AnswerType DEF FlushDb, FlushAll
<1>3. CASE FlushDb
  BY <1>2, <1>3, DeletingStep DEF FlushDb, Flush
<1>4. CASE FlushAll
  BY <1>2, <1>4, RefuseStep DEF FlushAll
<1> QED
  BY <1>3, <1>4

LEMMA SurveyStep ==
  ASSUME TypeOK, ListKeys \/ Scan \/ RandomKey \/ DbSize \/ \E k \in Keys : Sort(k)
  PROVE  StepOK
<1>1. {"KEYS", "SCAN", "RANDOMKEY", "SORT", "DBSIZE"} \subseteq AllCommands
  BY DEF AllCommands, KeyCommands, ServerCommands
<1>2. UNCHANGED db
  BY DEF ListKeys, Scan, RandomKey, DbSize, Sort
<1>3. PICK c \in {"KEYS", "SCAN", "RANDOMKEY", "SORT", "DBSIZE"}, kind \in {"value", "nil"} :
        Answer(c, kind)
  BY DEF ListKeys, Scan, RandomKey, DbSize, Sort
<1> QED
  BY <1>1, <1>2, <1>3, AnswerType, RefuseStep

LEMMA TickStep ==
  ASSUME TypeOK, Tick
  PROVE  StepOK
<1>1. db \in Db /\ db' = Aged(db) /\ reply' \in Reply
  BY DEF TypeOK, Tick, NoReply, Reply
<1>2. db'.at = db.at
  BY <1>1 DEF Aged, Db
<1>3. db'.km = [k \in Keys |-> [db.km[k] EXCEPT !.left = IF @ = 0 THEN 0 ELSE @ - 1]]
  BY <1>1 DEF Aged, Db
<1>4. ASSUME NEW k \in Keys
      PROVE  db'.km[k] \in Item /\ db'.km[k].type = db.km[k].type
  <2> DEFINE left == db.km[k].left
  <2>1. db.km[k] \in Item
    BY <1>1 DEF Db
  <2>2. left \in 0 .. MaxLeft /\ (IF left = 0 THEN 0 ELSE left - 1) \in 0 .. MaxLeft
    BY <2>1, MaxLeftAssumption DEF Item
  <2>3. db'.km[k] = [db.km[k] EXCEPT !.left = IF left = 0 THEN 0 ELSE left - 1]
    BY <1>3
  <2> HIDE DEF left
  <2> QED
    BY <2>1, <2>2, <2>3 DEF Item
<1>5. db' \in Db
  BY <1>1, <1>2, <1>3, <1>4 DEF Aged, Db
<1>6. Agrees(db) => Agrees(db)'
  BY <1>2, <1>4 DEF Agrees
<1>7. Backed(db) => Backed(db)'
  BY <1>2, <1>4 DEF Backed, Tracked, Exists
<1> QED
  BY <1>1, <1>4, <1>5, <1>6, <1>7 DEF StepOK, TypeOK

-----------------------------------------------------------------------------
(* The theorems.                                                           *)

LEMMA Step ==
  ASSUME TypeOK, [Next]_vars
  PROVE  StepOK
<1>1. ASSUME NEW k \in Keys,
             \/ Set(k) \/ SetNX(k) \/ AppendTo(k) \/ SetRange(k) \/ Get(k) \/ Incr(k)
             \/ LPush(k) \/ LPushX(k) \/ LPop(k) \/ LRem(k) \/ LLen(k) \/ LSet(k)
             \/ SAdd(k) \/ SRem(k) \/ SPop(k) \/ SCard(k) \/ SMembers(k) \/ SRandMember(k)
             \/ HSet(k) \/ HGet(k) \/ HDel(k) \/ HScan(k) \/ PFAdd(k)
             \/ ZAdd(k) \/ ZIncrBy(k) \/ ZRange(k) \/ ZRem(k) \/ ZScan(k)
             \/ ExistsKey(k) \/ TTL(k) \/ Type(k) \/ Expire(k) \/ Persist(k)
      PROVE  StepOK
  BY <1>1, HSetStep, ContainerTouchStep, ContainerRemovalStep, ContainerReadStep, PFAddStep,
     ZAddStep, ZIncrByStep, StringWriteStep, StringPutStep, ReadStep, ListPushStep, ListPopStep,
     ListUntrackedStep, SetMemberStep, SetLookupStep, KeyStep
<1>2. ASSUME NEW k \in Keys, NEW l \in Keys,
             BitOp(k, l) \/ RPopLPush(k, l) \/ BRPopLPush(k, l) \/ SMove(k, l) \/ RenameKey(k, l)
      PROVE  StepOK
  BY <1>2, StringPutStep, ListUntrackedStep, BRPopLPushStep, SMoveStep, KeyStep
<1>3. ASSUME NEW ks \in SUBSET Keys,
             MSet(ks) \/ MSetNX(ks) \/ MGet(ks) \/ BLPop(ks) \/ SUnion(ks) \/ PFCount(ks)
      PROVE  StepOK
  BY <1>3, PFCountStep, StringsWriteStep, MGetStep, ListUntrackedStep, SetLookupStep
<1>4. ASSUME NEW k \in Keys, NEW ks \in SUBSET Keys,
             \/ SUnionStore(k, ks) \/ SInterStore(k, ks) \/ PFMerge(k, ks)
             \/ ZUnionStore(k, ks) \/ ZInterStore(k, ks) \/ Del(k, ks) \/ HMSet(k, ks)
             \/ \E source \in Keys : SDiffStore(k, source, ks)
      PROVE  StepOK
  BY <1>4, SetStoreStep, PFMergeStep, ZStoreStep, DelStep, HMSetStep
<1>5. CASE FlushDb \/ FlushAll
  BY <1>5, ServerStep
<1>6. CASE Tick
  BY <1>6, TickStep
<1>7. CASE ListKeys \/ Scan \/ RandomKey \/ DbSize \/ \E k \in Keys : Sort(k)
  BY <1>7, SurveyStep
<1>8. CASE UNCHANGED vars
  BY <1>8, RefuseStep DEF vars, TypeOK
<1> QED
  BY <1>1, <1>2, <1>3, <1>4, <1>5, <1>6, <1>7, <1>8 DEF Next

LEMMA InitOK == Init => TypeOK /\ KeyMapAgrees /\ KnownKeysExist
<1>1. NoItem \in Item /\ NoItem.type = "none" /\ "none" \notin Types
  BY FreshItems DEF NoItem, Types
<1> QED
  BY <1>1 DEF Init, TypeOK, KeyMapAgrees, Agrees, KnownKeysExist, Backed, Tracked, EmptyDb, Db,
              Contents, Reply, NoReply

\* The database stays a database, whatever the commands and their order.
THEOREM KeySpaceTypes == Spec => []TypeOK
<1>1. TypeOK /\ [Next]_vars => TypeOK'
  BY Step DEF StepOK
<1> QED
  BY <1>1, InitOK, PTL DEF Spec

\* No command of any client changes the type of a key that is known: each is
\* refused by commandMatchesContainer or touches the items of its keys only.
THEOREM TypesNeverChange == Spec => TypesAreStable
<1>1. TypeOK /\ [Next]_vars
        => [\A k \in Keys : Tracked(db, k) /\ Tracked(db, k)'
               => db'.km[k].type = db.km[k].type]_vars
  BY Step DEF StepOK
<1> QED
  BY <1>1, KeySpaceTypes, PTL DEF Spec, TypesAreStable

\* Whatever was done before, no command but the parting ones takes the KeyMap
\* and the maps from agreement to disagreement.
THEOREM TrackingIsComplete == Spec => OnlyTheseLoseTrack
<1>1. TypeOK /\ [Next]_vars
        => [KeyMapAgrees /\ reply'.cmd \notin PartingCommands => KeyMapAgrees']_vars
  BY Step DEF StepOK, Tracking, KeyMapAgrees
<1> QED
  BY <1>1, KeySpaceTypes, PTL DEF Spec, OnlyTheseLoseTrack

\* No command but the phantom ones leaves a known key without a value.
THEOREM PhantomsHaveTwoSources == Spec => OnlyTheseLeavePhantoms
<1>1. TypeOK /\ [Next]_vars
        => [KnownKeysExist /\ reply'.cmd \notin PhantomCommands => KnownKeysExist']_vars
  BY Step DEF StepOK, Backing, KnownKeysExist
<1> QED
  BY <1>1, KeySpaceTypes, PTL DEF Spec, OnlyTheseLeavePhantoms

-----------------------------------------------------------------------------
(* Without the phantom commands, known keys have values.                   *)

LEMMA NamedAnswer ==
  ASSUME \E c \in Commands : \E kind : Answer(c, kind)
  PROVE  reply'.cmd \in Commands
BY DEF Answer

\* A step answers a command that clients send, the clock aside.
LEMMA Answered ==
  ASSUME Next
  PROVE  reply'.cmd \in Commands \cup {"none"}
<1>1. ASSUME NEW k \in Keys,
             \/ Set(k) \/ SetNX(k) \/ AppendTo(k) \/ SetRange(k) \/ Get(k) \/ Incr(k)
             \/ LPush(k) \/ LPushX(k) \/ LPop(k) \/ LRem(k) \/ LLen(k) \/ LSet(k)
      PROVE  reply'.cmd \in Commands
  BY <1>1 DEF Set, SetNX, AppendTo, SetRange, Get, Incr, LPush, LPushX, LPop, LRem, LLen, LSet,
              Read, Look, Refuse, Answer
<1>2. ASSUME NEW k \in Keys,
             \/ SAdd(k) \/ SRem(k) \/ SPop(k) \/ SCard(k) \/ SMembers(k) \/ SRandMember(k)
             \/ HSet(k) \/ HGet(k) \/ HDel(k) \/ HScan(k) \/ PFAdd(k)
             \/ ZAdd(k) \/ ZIncrBy(k) \/ ZRange(k) \/ ZRem(k) \/ ZScan(k)
      PROVE  reply'.cmd \in Commands
  BY <1>2 DEF SAdd, SRem, SPop, SCard, SMembers, SRandMember, HSet, HGet, HDel, HScan, PFAdd,
              ZAdd, ZIncrBy, ZRange, ZRem, ZScan, Read, Look, Refuse, Answer
<1>3. ASSUME NEW k \in Keys,
             ExistsKey(k) \/ TTL(k) \/ Type(k) \/ Expire(k) \/ Persist(k) \/ Sort(k)
      PROVE  reply'.cmd \in Commands
  <2>1. CASE ExistsKey(k) \/ TTL(k) \/ Type(k) \/ Sort(k)
    BY <2>1 DEF ExistsKey, TTL, Type, Sort, Refuse, Answer
  <2>2. CASE Expire(k)
    <3>1. "EXPIRE" \in Commands /\ \E kind : Answer("EXPIRE", kind)
      BY <2>2, Zenon DEF Expire, Refuse
    <3> QED
      BY <3>1, NamedAnswer
  <2>3. CASE Persist(k)
    <3>1. "PERSIST" \in Commands /\ \E kind : Answer("PERSIST", kind)
      BY <2>3, Zenon DEF Persist, Refuse
    <3> QED
      BY <3>1, NamedAnswer
  <2> QED
    BY <1>3, <2>1, <2>2, <2>3
<1>4. ASSUME NEW k \in Keys, NEW l \in Keys,
             BitOp(k, l) \/ RPopLPush(k, l) \/ BRPopLPush(k, l) \/ SMove(k, l) \/ RenameKey(k, l)
      PROVE  reply'.cmd \in Commands
  BY <1>4 DEF BitOp, RPopLPush, BRPopLPush, SMove, RenameKey, Refuse, Answer
<1>5. ASSUME NEW ks \in SUBSET Keys,
             MSet(ks) \/ MSetNX(ks) \/ MGet(ks) \/ BLPop(ks) \/ SUnion(ks) \/ PFCount(ks)
      PROVE  reply'.cmd \in Commands
  BY <1>5 DEF MSet, MSetNX, MGet, BLPop, SUnion, PFCount, Look, Refuse, Answer
<1>6. ASSUME NEW k \in Keys, NEW ks \in SUBSET Keys,
             \/ SUnionStore(k, ks) \/ SInterStore(k, ks) \/ PFMerge(k, ks)
             \/ ZUnionStore(k, ks) \/ ZInterStore(k, ks) \/ Del(k, ks) \/ HMSet(k, ks)
             \/ \E source \in Keys : SDiffStore(k, source, ks)
      PROVE  reply'.cmd \in Commands
  <2>1. CASE SUnionStore(k, ks) \/ SInterStore(k, ks) \/ \E source \in Keys : SDiffStore(k, source, ks)
    <3>1. \E c \in {"SUNIONSTORE", "SINTERSTORE", "SDIFFSTORE"} \cap Commands : \E kind : Answer(c, kind)
      BY <2>1, Zenon DEF SUnionStore, SInterStore, SDiffStore, Refuse
    <3> QED
      BY <3>1, NamedAnswer
  <2>2. CASE ZUnionStore(k, ks) \/ ZInterStore(k, ks)
    <3>1. \E c \in {"ZUNIONSTORE", "ZINTERSTORE"} \cap Commands : \E kind : Answer(c, kind)
      BY <2>2, Zenon DEF ZUnionStore, ZInterStore, Refuse
    <3> QED
      BY <3>1, NamedAnswer
  <2>3. CASE Del(k, ks) \/ HMSet(k, ks)
    BY <2>3 DEF Del, HMSet, Refuse, Answer
  <2>4. CASE PFMerge(k, ks)
    BY <2>4 DEF PFMerge, Refuse, Answer
  <2> QED
    BY <1>6, <2>1, <2>2, <2>3, <2>4
<1>7. CASE FlushDb \/ FlushAll \/ ListKeys \/ Scan \/ RandomKey \/ DbSize
  BY <1>7 DEF FlushDb, FlushAll, ListKeys, Scan, RandomKey, DbSize, Answer
<1>8. CASE Tick
  BY <1>8 DEF Tick, NoReply
<1> QED
  BY <1>1, <1>2, <1>3, <1>4, <1>5, <1>6, <1>7, <1>8 DEF Next

\* As long as no client sends BLPOP or SMOVE, every key that the KeyMap knows is
\* in the map of its type, whatever else was done, in whatever order.
THEOREM KnownKeysHaveValues ==
  ASSUME Commands \cap PhantomCommands = {}
  PROVE  Spec => []KnownKeysExist
<1>1. "none" \notin PhantomCommands
  BY DEF PhantomCommands
<1>2. TypeOK /\ KnownKeysExist /\ [Next]_vars => KnownKeysExist'
  <2> SUFFICES ASSUME TypeOK, KnownKeysExist, [Next]_vars
               PROVE  KnownKeysExist'
    OBVIOUS
  <2>1. CASE Next
    BY <1>1, <2>1, Step, Answered DEF StepOK, Backing, KnownKeysExist
  <2>2. CASE UNCHANGED vars
    BY <2>2 DEF vars, KnownKeysExist
  <2> QED
    BY <2>1, <2>2
<1> QED
  BY <1>2, InitOK, KeySpaceTypes, PTL DEF Spec

-----------------------------------------------------------------------------
(* Expired keys.                                                           *)

LEMMA ExpiredIsGone ==
  ASSUME NEW d \in Db, NEW k \in Keys, MustBeExpired(d.km[k]),
         NEW t, NEW p \in Prepared(d, {k}, t)
  PROVE  \A u \in Types : ~Exists(p, u, k)
<1>1. PICK gone \in SUBSET {k} : p = DelKeys(d, gone) /\ k \in gone
  BY DEF Prepared, DelIfExpired
<1> QED
  BY <1>1 DEF DelKeys, Exists

\* A key whose time has run out is treated as a key that is not there, whatever
\* has become of the database.
THEOREM NoReadIsStale == Spec => NoStaleReads
<1>1. ASSUME TypeOK, NEW k \in Keys, MustBeExpired(db.km[k])
      PROVE  /\ Get(k) \/ Incr(k) => reply'.kind # "value"
             /\ SetNX(k) => reply'.kind # "nil"
  <2>1. ASSUME NEW d \in Prepared(db, {k}, "string")
        PROVE  ~Exists(d, "string", k)
    BY <1>1, <2>1, ExpiredIsGone DEF TypeOK, Types
  <2>2. ASSUME Get(k) \/ Incr(k)
        PROVE  reply'.kind # "value"
    BY <2>1, <2>2 DEF Get, Incr, Read, Look, Refuse, Answer
  <2>3. ASSUME SetNX(k)
        PROVE  reply'.kind # "nil"
    BY <2>1, <2>3 DEF SetNX, Refuse, Answer
  <2> QED
    BY <2>2, <2>3
<1>2. TypeOK /\ [Next]_vars
        => [\A k \in Keys : MustBeExpired(db.km[k]) =>
               /\ Get(k) \/ Incr(k) => reply'.kind # "value"
               /\ SetNX(k) => reply'.kind # "nil"]_vars
  BY <1>1
<1> QED
  BY <1>2, KeySpaceTypes, PTL DEF Spec, NoStaleReads
=============================================================================
