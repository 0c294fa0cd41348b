------------------------------ MODULE KeySpace ------------------------------
(***************************************************************************)
(* The commands on keys, as the worker executes them one after the other   *)
(* on one database: those on strings, lists, sets and keys of any type and *)
(* those of the server, and with Containers the rest (the execute of each  *)
(* command class).                                                         *)
(***************************************************************************)
EXTENDS Containers

-----------------------------------------------------------------------------
(* Strings.                                                                *)

\* The items a string can get: none of its own, or a timeout.  SETEX with a
\* timeout of zero adds an item that never expires.
StringItems ==
    {Fresh("string")} \cup [type : {"string"}, expiry : {"sec"}, left : 0 .. MaxLeft]
                      \cup [type : {"string"}, expiry : {"overflow"}, left : {0}]

\* StringMap::set and the event of the commands that fire "set".
SetString(d, k) == Notify(Put(d, "string", k, "some"), "set", k)

\* SET, SETEX, PSETEX and GETSET.  SET with NX or XX has six tokens, and
\* extractExpirationNum refuses all but three or five.
Set(k) ==
    /\ "SET" \in Commands
    /\ \/ Refuse("SET", {k}, "string")
       \/ \E d \in Prepared(db, {k}, "string"), item \in StringItems :
             \/ db' = Add(SetString(d, k), k, item) /\ Answer("SET", "value")
             \/ db' = d /\ Answer("SET", "nil")

SetNX(k) ==
    /\ "SETNX" \in Commands
    /\ \/ Refuse("SETNX", {k}, "string")
       \/ \E d \in Prepared(db, {k}, "string") :
             IF Exists(d, "string", k)
                THEN db' = d /\ Answer("SETNX", "nil")
                ELSE db' = SetString(d, k) /\ Answer("SETNX", "value")

\* The loop of MSET over its keys.
SetStrings(d, ks) ==
    [km |-> [k \in Keys |-> IF k \in ks THEN Fresh("string") ELSE d.km[k]],
     at |-> [d.at EXCEPT !["string"] = [k \in Keys |-> IF k \in ks THEN "some" ELSE @[k]]]]

MSet(ks) ==
    /\ "MSET" \in Commands
    /\ \/ Refuse("MSET", ks, "string")
       \/ \E d \in Prepared(db, ks, "string") :
             db' = SetStrings(d, ks) /\ Answer("MSET", "value")

MSetNX(ks) ==
    /\ "MSETNX" \in Commands
    /\ \/ Refuse("MSETNX", ks, "string")
       \/ \E d \in Prepared(db, ks, "string") :
             IF \E k \in ks : Exists(d, "string", k)
                THEN db' = d /\ Answer("MSETNX", "nil")
                ELSE db' = SetStrings(d, ks) /\ Answer("MSETNX", "value")

\* APPEND fires an event that the KeyMap does not know.
AppendTo(k) ==
    /\ "APPEND" \in Commands
    /\ \/ Refuse("APPEND", {k}, "string")
       \/ \E d \in Prepared(db, {k}, "string") :
             /\ db' = Notify(Put(d, "string", k, "some"), "append", k)
             /\ Answer("APPEND", "value")

\* SETRANGE, whose event the KeyMap does not know, and SETBIT, which fires none.
SetRange(k) ==
    /\ "SETRANGE" \in Commands
    /\ \/ Refuse("SETRANGE", {k}, "string")
       \/ \E d \in Prepared(db, {k}, "string") :
             /\ db' = Notify(Put(d, "string", k, "some"), "setrange", k)
             /\ Answer("SETRANGE", "value")

\* BITOP writes its destination without an event.
BitOp(dest, source) ==
    /\ "BITOP" \in Commands
    /\ \/ Refuse("BITOP", {dest, source}, "string")
       \/ \E d \in Prepared(db, {dest, source}, "string") :
             /\ db' = Put(d, "string", dest, "some")
             /\ Answer("BITOP", "value")

\* GET, STRLEN, GETRANGE, BITCOUNT, BITPOS and GETBIT.
Get(k) == Read("GET", "string", k)

\* INCR and its variants, which throw on a key that is missing, and rewrite the
\* value of one that is not; the KeyMap does not know their events.
Incr(k) == Read("INCR", "string", k)

MGet(ks) ==
    /\ "MGET" \in Commands
    /\ \/ Refuse("MGET", ks, "string")
       \/ \E d \in Prepared(db, ks, "string") : db' = d /\ Answer("MGET", "value")

-----------------------------------------------------------------------------
(* Lists.                                                                  *)

\* ListMap::push, and list_new when the length has become one.
Push(d, k) ==
    IF d.at["list"][k] = "some"
       THEN d
       ELSE Notify(Put(d, "list", k, "some"), "list_new", k)

\* ListMap::pop of a list that has elements: it may have been the last one.
Popped(d, k) == {d, Put(d, "list", k, "absent")}

\* LPUSH and RPUSH.
LPush(k) ==
    /\ "LPUSH" \in Commands
    /\ \/ Refuse("LPUSH", {k}, "list")
       \/ \E d \in Prepared(db, {k}, "list") :
             /\ db' = Notify(Push(d, k), "lpush", k)
             /\ Answer("LPUSH", "value")

\* LPUSHX and RPUSHX.
LPushX(k) ==
    /\ "LPUSHX" \in Commands
    /\ \/ Refuse("LPUSHX", {k}, "list")
       \/ \E d \in Prepared(db, {k}, "list") :
             IF Exists(d, "list", k)
                THEN db' = Notify(Push(d, k), "lpush", k) /\ Answer("LPUSHX", "value")
                ELSE db' = d /\ Answer("LPUSHX", "nil")

\* LPOP and RPOP.  The pop of an empty list throws.
LPop(k) ==
    /\ "LPOP" \in Commands
    /\ \/ Refuse("LPOP", {k}, "list")
       \/ \E d \in Prepared(db, {k}, "list") :
             IF d.at["list"][k] = "some"
                THEN /\ \E p \in Popped(d, k) : db' = Notify(DelIfGone(p, "list", k), "lpop", k)
                     /\ Answer("LPOP", "value")
                ELSE db' = d /\ Answer("LPOP", "nil")

\* LREM removes elements and leaves the list, empty or not, without an event.
LRem(k) ==
    /\ "LREM" \in Commands
    /\ \/ Refuse("LREM", {k}, "list")
       \/ \E d \in Prepared(db, {k}, "list") :
             IF d.at["list"][k] = "some"
                THEN /\ \E c \in {"some", "empty"} : db' = Put(d, "list", k, c)
                     /\ Answer("LREM", "value")
                ELSE db' = d /\ Answer("LREM", "nil")

\* LLEN and LINDEX.
LLen(k) == Read("LLEN", "list", k)

\* LRANGE, and LSET, LINSERT and LTRIM, which never empty a list.
LSet(k) == Read("LSET", "list", k)

\* The destination is pushed to without list_new, and its lpush names the source.
RPopLPush(source, dest) ==
    /\ "RPOPLPUSH" \in Commands
    /\ \/ Refuse("RPOPLPUSH", {source, dest}, "list")
       \/ \E d \in Prepared(db, {source, dest}, "list") :
             IF d.at["list"][source] = "some"
                THEN /\ \E p \in Popped(d, source) :
                          db' = Put(DelIfGone(p, "list", source), "list", dest, "some")
                     /\ Answer("RPOPLPUSH", "value")
                ELSE db' = d /\ Answer("RPOPLPUSH", "nil")

\* BLPOP and BRPOP pop the first list that has elements, without an event.
\* They answer at once, with nothing, when the server has been up for longer
\* than their timeout: a command carries the time its prototype was made.
BLPop(ks) ==
    /\ "BLPOP" \in Commands
    /\ \/ Refuse("BLPOP", ks, "list")
       \/ \E d \in Prepared(db, ks, "list") :
             \/ \E k \in {x \in ks : d.at["list"][x] = "some"} :
                   db' \in Popped(d, k) /\ Answer("BLPOP", "value")
             \/ db' = d /\ Answer("BLPOP", "nil")
             \/ /\ \A k \in ks : d.at["list"][k] # "some"
                /\ db' = d /\ Answer("BLPOP", "pending")

BRPopLPush(source, dest) ==
    /\ "BRPOPLPUSH" \in Commands
    /\ \/ Refuse("BRPOPLPUSH", {source, dest}, "list")
       \/ \E d \in Prepared(db, {source, dest}, "list") :
             \/ db' = d /\ Answer("BRPOPLPUSH", "nil")
             \/ IF d.at["list"][source] = "some"
                   THEN /\ \E p \in Popped(d, source) :
                             db' = Push(DelIfGone(p, "list", source), dest)
                        /\ Answer("BRPOPLPUSH", "value")
                   ELSE db' = d /\ Answer("BRPOPLPUSH", "pending")

-----------------------------------------------------------------------------
(* Sets.                                                                   *)

\* SetMap::rem: a set without members is erased.
Removed(d, k) ==
    IF HasElements(d, "set", k)
       THEN {d, Put(d, "set", k, "absent")}
       ELSE {Put(d, "set", k, "absent")}

\* Each new member fires set_new, and the first one of a set is new.
SAdd(k) ==
    /\ "SADD" \in Commands
    /\ \/ Refuse("SADD", {k}, "set")
       \/ \E d \in Prepared(db, {k}, "set") :
             /\ \/ db' = Notify(Put(d, "set", k, "some"), "set_new", k)
                \/ HasElements(d, "set", k) /\ db' = d
             /\ Answer("SADD", "value")

SRem(k) ==
    /\ "SREM" \in Commands
    /\ \/ Refuse("SREM", {k}, "set")
       \/ \E d \in Prepared(db, {k}, "set") :
             /\ \E r \in Removed(d, k) : db' = Notify(DelIfGone(r, "set", k), "srem", k)
             /\ Answer("SREM", "value")

SPop(k) ==
    /\ "SPOP" \in Commands
    /\ \/ Refuse("SPOP", {k}, "set")
       \/ \E d \in Prepared(db, {k}, "set") :
             IF HasElements(d, "set", k)
                THEN /\ \E r \in Removed(d, k) : db' = Notify(DelIfGone(r, "set", k), "spop", k)
                     /\ Answer("SPOP", "value")
                ELSE db' = d /\ Answer("SPOP", "nil")

\* SCARD, SRANDMEMBER and SSCAN look before they index.
SCard(k) == Read("SCARD", "set", k)

SRandMember(k) == Read("SRANDMEMBER", "set", k)

\* SMEMBERS and SISMEMBER do not.
SMembers(k) ==
    /\ "SMEMBERS" \in Commands
    /\ \/ Refuse("SMEMBERS", {k}, "set")
       \/ \E d \in Prepared(db, {k}, "set") :
             /\ db' = Touched(d, "set", {k})
             /\ Answer("SMEMBERS", IF HasElements(d, "set", k) THEN "value" ELSE "nil")

\* SUNION and SDIFF touch all their keys; SINTER may stop early.
SUnion(ks) ==
    /\ "SUNION" \in Commands
    /\ \/ Refuse("SUNION", ks, "set")
       \/ \E d \in Prepared(db, ks, "set"), seen \in SUBSET ks :
             /\ seen # {}
             /\ db' = Touched(d, "set", seen)
             /\ Answer("SUNION", "value")

\* The *STORE commands write the destination in place.  The del they may fire
\* first is undone by the event that follows, whose item is there even when
\* the destination ends up without members.
Stored(d, dest, e, c) == Notify(Put(Notify(d, "del", dest), "set", dest, c), e, dest)

\* The union is inserted into what the destination holds already.
SUnionStore(dest, ks) ==
    /\ "SUNIONSTORE" \in Commands
    /\ \/ Refuse("SUNIONSTORE", ks \cup {dest}, "set")
       \/ \E d \in Prepared(db, ks \cup {dest}, "set") :
             LET c == IF \E k \in ks \cup {dest} : HasElements(d, "set", k) THEN "some" ELSE "empty"
             IN  /\ db' = Stored(Touched(d, "set", ks), dest, "sunionostore", c)
                 /\ Answer("SUNIONSTORE", "value")

\* SINTERSTORE; sources after the one that empties the result are not touched.
\* A destination that is also a source has been overwritten by the time it is
\* looked at, so that its members do not matter unless it comes first.
SInterStore(dest, ks) ==
    /\ "SINTERSTORE" \in Commands
    /\ \/ Refuse("SINTERSTORE", ks \cup {dest}, "set")
       \/ \E d \in Prepared(db, ks \cup {dest}, "set"), seen \in SUBSET ks, c \in {"empty", "some"} :
             /\ seen # {}
             /\ c = "some" => \A k \in ks : HasElements(d, "set", k) \/ (k = dest /\ ks # {dest})
             /\ c = "empty" => \A k \in ks : HasElements(d, "set", k) => ks # {k}
             /\ db' = Stored(Touched(d, "set", seen), dest, "sinterstore", c)
             /\ Answer("SINTERSTORE", "value")

\* SDIFFSTORE announces its result as a union's, which makes no difference.
SDiffStore(dest, source, ks) ==
    /\ "SDIFFSTORE" \in Commands
    /\ \/ Refuse("SDIFFSTORE", ks \cup {dest, source}, "set")
       \/ \E d \in Prepared(db, ks \cup {dest, source}, "set"), c \in {"empty", "some"} :
             /\ c = "some" => HasElements(d, "set", source) /\ source \notin ks
             /\ c = "empty" => \/ ~HasElements(d, "set", source)
                               \/ \E k \in ks : HasElements(d, "set", k) \/ k = dest
             /\ db' = Stored(Touched(d, "set", ks \cup {source}), dest, "sunionostore", c)
             /\ Answer("SDIFFSTORE", "value")

\* SMOVE moves nothing unless both sets are there, leaves the source without
\* members rather than erase it, and fires set_new for the destination always.
SMove(source, dest) ==
    /\ "SMOVE" \in Commands
    /\ \/ Refuse("SMOVE", {source, dest}, "set")
       \/ \E d \in Prepared(db, {source, dest}, "set") :
             \/ /\ db' = Notify(d, "set_new", dest)
                /\ Answer("SMOVE", "nil")
             \/ /\ HasElements(d, "set", source) /\ Exists(d, "set", dest)
                /\ \E c \in {"empty", "some"} :
                      db' = Notify(Put(Put(d, "set", source, c), "set", dest, "some"),
                                   "set_new", dest)
                /\ Answer("SMOVE", "value")

-----------------------------------------------------------------------------
(* Keys of any type.  These commands register their keys with type "none". *)

\* Only the first key is registered.  The others are removed whatever they are.
Del(k, others) ==
    /\ "DEL" \in Commands
    /\ \/ Refuse("DEL", {k}, "none")
       \/ \E d \in Prepared(db, {k}, "none") :
             /\ db' = DelKeys(d, {k} \cup others)
             /\ Answer("DEL", IF \E x \in {k} \cup others : Tracked(d, x) THEN "value" ELSE "nil")

\* EXISTS asks the KeyMap.
ExistsKey(k) ==
    /\ "EXISTS" \in Commands
    /\ \/ Refuse("EXISTS", {k}, "none")
       \/ \E d \in Prepared(db, {k}, "none") :
             db' = d /\ Answer("EXISTS", IF Tracked(d, k) THEN "value" ELSE "nil")

\* TTL and PTTL, whose answer for an unknown key is -2, ask it too.
TTL(k) ==
    /\ "TTL" \in Commands
    /\ \/ Refuse("TTL", {k}, "none")
       \/ \E d \in Prepared(db, {k}, "none") :
             db' = d /\ Answer("TTL", IF Tracked(d, k) THEN "value" ELSE "nil")

\* TYPE asks the maps.
Type(k) ==
    /\ "TYPE" \in Commands
    /\ \/ Refuse("TYPE", {k}, "none")
       \/ \E d \in Prepared(db, {k}, "none") :
             /\ db' = d
             /\ Answer("TYPE", IF \E t \in Types : Exists(d, t, k) THEN "value" ELSE "nil")

\* EXPIRE and its variants; the time counts from the creation of the item.
Expire(k) ==
    /\ "EXPIRE" \in Commands
    /\ \/ Refuse("EXPIRE", {k}, "none")
       \/ \E d \in Prepared(db, {k}, "none") :
             IF Tracked(d, k)
                THEN /\ \E e \in {"sec", "overflow"}, n \in 0 .. MaxLeft :
                          db' = [d EXCEPT !.km[k] = [@ EXCEPT !.expiry = e, !.left = n]]
                     /\ Answer("EXPIRE", "value")
                ELSE db' = d /\ Answer("EXPIRE", "nil")

Persist(k) ==
    /\ "PERSIST" \in Commands
    /\ \/ Refuse("PERSIST", {k}, "none")
       \/ \E d \in Prepared(db, {k}, "none") :
             IF Tracked(d, k) /\ d.km[k].expiry # "never"
                THEN /\ db' = [d EXCEPT !.km[k] = [@ EXCEPT !.expiry = "never", !.left = 0]]
                     /\ Answer("PERSIST", "value")
                ELSE db' = d /\ Answer("PERSIST", "nil")

\* RENAME and RENAMENX, which also refuses a new name that is taken.
RenameKey(k, new) ==
    /\ "RENAME" \in Commands
    /\ \/ Refuse("RENAME", {k, new}, "none")
       \/ \E d \in Prepared(db, {k, new}, "none") :
             IF k # new /\ Tracked(d, k)
                THEN \/ db' \in Rename(d, k, new) /\ Answer("RENAME", "value")
                     \/ Tracked(d, new) /\ db' = d /\ Answer("RENAME", "nil")
                ELSE db' = d /\ Answer("RENAME", "nil")

-----------------------------------------------------------------------------
(* Commands that register no key: nothing expires before they execute.      *)

\* KEYS asks for the keys older than time zero, and so for none; it has no key to
\* expire for the same reason.
ListKeys ==
    /\ "KEYS" \in Commands
    /\ UNCHANGED db
    /\ Answer("KEYS", "nil")

\* SCAN leaves out the keys that are as new as its own beginning.
Scan ==
    /\ "SCAN" \in Commands
    /\ UNCHANGED db
    /\ \/ Answer("SCAN", "nil")
       \/ \E k \in Keys : Tracked(db, k) /\ Answer("SCAN", "value")

RandomKey ==
    /\ "RANDOMKEY" \in Commands
    /\ UNCHANGED db
    /\ Answer("RANDOMKEY", IF \E k \in Keys : Tracked(db, k) THEN "value" ELSE "nil")

\* SORT of a list or a set sorts a copy; its STORE stores nothing.  It throws for
\* a phantom, and for the limits and numbers that it cannot use.
Sort(k) ==
    /\ "SORT" \in Commands
    /\ UNCHANGED db
    /\ \/ Answer("SORT", "nil")
       \/ /\ db.km[k].type \in {"list", "set"} /\ HasElements(db, db.km[k].type, k)
          /\ Answer("SORT", "value")

-----------------------------------------------------------------------------
(* The server.                                                             *)

FlushDb ==
    /\ "FLUSHDB" \in Commands
    /\ db' = Flush(db)
    /\ Answer("FLUSHDB", "value")

\* Database::flush compares FLUSH_ALL, which is -1, with the size of a vector:
\* converted to unsigned it is too large, and the flush throws.
FlushAll ==
    /\ "FLUSHALL" \in Commands
    /\ UNCHANGED db
    /\ Answer("FLUSHALL", "nil")

DbSize ==
    /\ "DBSIZE" \in Commands
    /\ UNCHANGED db
    /\ Answer("DBSIZE", IF \E k \in Keys : Tracked(db, k) THEN "value" ELSE "nil")

\* Time passes between commands.
Tick ==
    /\ \E k \in Keys : db.km[k].left > 0
    /\ db' = Aged(db)
    /\ reply' = NoReply

Next ==
    \/ \E k \in Keys :
          \/ Set(k) \/ SetNX(k) \/ AppendTo(k) \/ SetRange(k) \/ Get(k) \/ Incr(k)
          \/ LPush(k) \/ LPushX(k) \/ LPop(k) \/ LRem(k) \/ LLen(k) \/ LSet(k)
          \/ SAdd(k) \/ SRem(k) \/ SPop(k) \/ SCard(k) \/ SMembers(k) \/ SRandMember(k)
          \/ HSet(k) \/ HGet(k) \/ HDel(k) \/ HScan(k) \/ PFAdd(k)
          \/ ZAdd(k) \/ ZIncrBy(k) \/ ZRange(k) \/ ZRem(k) \/ ZScan(k)
          \/ ExistsKey(k) \/ TTL(k) \/ Type(k) \/ Expire(k) \/ Persist(k)
    \/ \E k, l \in Keys :
          \/ BitOp(k, l) \/ RPopLPush(k, l) \/ BRPopLPush(k, l) \/ SMove(k, l)
          \/ RenameKey(k, l)
    \/ \E ks \in SUBSET Keys \ {{}} :
          \/ MSet(ks) \/ MSetNX(ks) \/ MGet(ks) \/ BLPop(ks) \/ SUnion(ks) \/ PFCount(ks)
          \/ \E k \in Keys :
                \/ SUnionStore(k, ks) \/ SInterStore(k, ks) \/ PFMerge(k, ks)
                \/ ZUnionStore(k, ks) \/ ZInterStore(k, ks)
    \/ \E k \in Keys, ks \in SUBSET Keys :
          \/ Del(k, ks) \/ HMSet(k, ks)
          \/ \E source \in Keys : SDiffStore(k, source, ks)
    \/ \E k \in Keys : Sort(k)
    \/ ListKeys \/ Scan \/ RandomKey \/ DbSize
    \/ FlushDb \/ FlushAll
    \/ Tick

Spec == Init /\ [][Next]_vars

-----------------------------------------------------------------------------
(* Properties.                                                             *)

\* KeyMap::notify: "When a new key is added/delete in Database - make sure to
\* add/delete them into/from keyMap as well".  The KeyMap and the maps agree
\* until one of the parting commands: any other keeps them together, through
\* expiry, deletion and flushes.
KeyMapAgrees == Agrees(db)

OnlyTheseLoseTrack ==
    [][KeyMapAgrees /\ reply'.cmd \notin PartingCommands => KeyMapAgrees']_vars

\* EXISTS, and the type check of every command, take the KeyMap's word for it: a
\* key that it knows has a value in the map of its type, or an empty container,
\* until one of the phantom commands.
KnownKeysExist == Backed(db)

OnlyTheseLeavePhantoms ==
    [][KnownKeysExist /\ reply'.cmd \notin PhantomCommands => KnownKeysExist']_vars

\* No command changes a key from one type to another: a key that is known keeps
\* its type until it is forgotten (commandMatchesContainer guards every event).
TypesAreStable ==
    [][\A k \in Keys :
          Tracked(db, k) /\ Tracked(db, k)' => db'.km[k].type = db.km[k].type]_vars

\* A key whose time has run out is as good as gone, though it is still in the
\* KeyMap and in its map, for the expired keys are deleted before a command
\* executes (Command::deleteExpiredKeys): it is not read, INCR does not count on
\* from it, and SETNX is not kept from setting it.
NoStaleReads ==
    [][\A k \in Keys : MustBeExpired(db.km[k]) =>
          /\ Get(k) \/ Incr(k) => reply'.kind # "value"
          /\ SetNX(k) => reply'.kind # "nil"]_vars

-----------------------------------------------------------------------------
(* Statements of the repository that the code does not keep.               *)

\* Commands.h says of isKeyTypeValid that it "Checks if the key that this command
\* is going to operate on can be operated by this command".  DEL, EXISTS, TTL,
\* EXPIRE, PERSIST and RENAME can operate on keys of every type.
KeyCommandsAreAccepted ==
    reply.cmd \in KeyCommands => reply.kind # "wrongtype"

=============================================================================
