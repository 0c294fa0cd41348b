----------------------------- MODULE Containers -----------------------------
(***************************************************************************)
(* The commands on hashes, HyperLogLogs and sorted sets, as far as the     *)
(* KeyMap and the presence of values go (HashCmds.cpp, HLLCmds.cpp,        *)
(* SortedSetCmds.cpp and the maps under them).  Their maps create an entry *)
(* whenever they look one up, and no command but DEL and a flush removes   *)
(* one.                                                                    *)
(***************************************************************************)
EXTENDS CommandFrame

-----------------------------------------------------------------------------
(* Hashes.                                                                 *)

\* HSET and HSETNX.  newKey is true when the hash has no field with the name of
\* its own key: for every new hash, and for most others, announced once more.
HSet(k) ==
    /\ "HSET" \in Commands
    /\ \/ Refuse("HSET", {k}, "hash")
       \/ \E d \in Prepared(db, {k}, "hash") :
             /\ \/ db' = Notify(Put(d, "hash", k, "some"), "hash_new", k)
                \/ HasElements(d, "hash", k) /\ db' = d
             /\ Answer("HSET", "value")

\* HMSET registers every other token, and so its values, as if they were keys.
\* It has looked its hash up when it throws for a field without a value.
HMSet(k, values) ==
    /\ "HMSET" \in Commands
    /\ \/ Refuse("HMSET", {k} \cup values, "hash")
       \/ \E d \in Prepared(db, {k} \cup values, "hash") :
             \/ /\ db' = Touched(d, "hash", {k})
                /\ Answer("HMSET", "nil")
             \/ /\ \/ db' = Notify(Put(d, "hash", k, "some"), "hash_new", k)
                   \/ HasElements(d, "hash", k) /\ db' = d
                /\ Answer("HMSET", "value")

\* HGET, HEXISTS, HGETALL, HKEYS, HVALS, HMGET and HLEN; HINCRBY and its variant
\* too, which throw for a field that is missing.
HGet(k) ==
    /\ "HGET" \in Commands
    /\ \/ Refuse("HGET", {k}, "hash")
       \/ \E d \in Prepared(db, {k}, "hash") :
             /\ db' = Touched(d, "hash", {k})
             /\ \/ Answer("HGET", "nil")
                \/ HasElements(d, "hash", k) /\ Answer("HGET", "value")

\* HDEL deletes from the first token on: its key is deleted as a field before it
\* asks whether there is such a field, and so it always fires del.
HDel(k) ==
    /\ "HDEL" \in Commands
    /\ \/ Refuse("HDEL", {k}, "hash")
       \/ \E d \in Prepared(db, {k}, "hash") :
             \E c \in {"empty"} \cup IF HasElements(d, "hash", k) THEN {"some"} ELSE {} :
                /\ db' = Notify(Notify(Put(d, "hash", k, c), "del", k), "hdel", k)
                /\ \/ Answer("HDEL", "nil")
                   \/ HasElements(d, "hash", k) /\ Answer("HDEL", "value")

HScan(k) == Read("HSCAN", "hash", k)

-----------------------------------------------------------------------------
(* HyperLogLogs.  An "empty" one was made by operator[], with fewer         *)
(* registers than PFADD and PFMERGE make, and keeps them: the library       *)
(* refuses to merge two that differ.                                       *)

PFAdd(k) ==
    /\ "PFADD" \in Commands
    /\ \/ Refuse("PFADD", {k}, "hll")
       \/ \E d \in Prepared(db, {k}, "hll") :
             /\ db' = IF Exists(d, "hll", k)
                         THEN d
                         ELSE Notify(Put(d, "hll", k, "some"), "hll_new", k)
             /\ \E kind \in {"value", "nil"} : Answer("PFADD", kind)

\* The keys of ks whose registers, once they have been looked up, are not c's.
Unlike(d, ks, c) ==
    {k \in ks : (IF Exists(d, "hll", k) THEN d.at["hll"][k] ELSE "empty") # c}

\* What a merge of the keys of ks into one with the registers of c looks up: it
\* throws at the first key that is unlike, and looks no further.
LookedUp(d, ks, c) ==
    IF Unlike(d, ks, c) = {}
       THEN {ks}
       ELSE {seen \in SUBSET ks : Cardinality(seen \cap Unlike(d, ks, c)) = 1}

Merged(d, ks, c) == {Touched(d, "hll", seen) : seen \in LookedUp(d, ks, c)}

\* PFCOUNT of one key looks first.
PFCount(ks) ==
    /\ "PFCOUNT" \in Commands
    /\ \/ Refuse("PFCOUNT", ks, "hll")
       \/ \E d \in Prepared(db, ks, "hll") :
             \/ /\ \E k \in Keys : ks = {k} /\ Look("PFCOUNT", "hll", k, d)
             \/ /\ db' \in Merged(d, ks, "some")
                /\ Answer("PFCOUNT", IF Unlike(d, ks, "some") = {} THEN "value" ELSE "nil")

\* PFMERGE announces its destination only when nothing was thrown.
PFMerge(dest, ks) ==
    /\ "PFMERGE" \in Commands
    /\ \/ Refuse("PFMERGE", ks \cup {dest}, "hll")
       \/ \E d \in Prepared(db, ks \cup {dest}, "hll") :
             LET c == IF Exists(d, "hll", dest) THEN d.at["hll"][dest] ELSE "some"
                 made == Put(d, "hll", dest, c)
             IN  \E m \in Merged(made, ks, c) :
                    IF Unlike(made, ks, c) = {}
                       THEN db' = Notify(m, "hll_new", dest) /\ Answer("PFMERGE", "value")
                       ELSE db' = m /\ Answer("PFMERGE", "nil")

-----------------------------------------------------------------------------
(* Sorted sets; SortedSets has their elements.                             *)

\* Each new member fires z_new, and the first one of a set is new.  A later
\* score that is no number, or a member that only one of the set's two indexes
\* has, makes ZADD fail with what it has added so far.
ZAdd(k) ==
    /\ "ZADD" \in Commands
    /\ \/ Refuse("ZADD", {k}, "zset")
       \/ \E d \in Prepared(db, {k}, "zset") :
             /\ \/ db' = Notify(Put(d, "zset", k, "some"), "z_new", k)
                \/ Exists(d, "zset", k) /\ db' = d
             /\ \E kind \in {"value", "nil"} : Answer("ZADD", kind)

\* ZINCRBY adds a member that is missing, and the KeyMap does not know its event.
ZIncrBy(k) ==
    /\ "ZINCRBY" \in Commands
    /\ \/ Refuse("ZINCRBY", {k}, "zset")
       \/ \E d \in Prepared(db, {k}, "zset") :
             \/ /\ db' = Notify(Put(d, "zset", k, "some"), "zincr", k)
                /\ Answer("ZINCRBY", "value")
             \/ Exists(d, "zset", k) /\ db' = d /\ Answer("ZINCRBY", "nil")

\* ZRANGE, ZREVRANGE, ZSCORE, ZRANK, ZREVRANK, ZCOUNT, ZLEXCOUNT, ZCARD and the
\* ranges by score and by member.
ZRange(k) ==
    /\ "ZRANGE" \in Commands
    /\ \/ Refuse("ZRANGE", {k}, "zset")
       \/ \E d \in Prepared(db, {k}, "zset") :
             /\ db' = Touched(d, "zset", {k})
             /\ \/ Answer("ZRANGE", "nil")
                \/ HasElements(d, "zset", k) /\ Answer("ZRANGE", "value")

\* ZREM and its variants by rank, score and member ask for the key when they
\* have just looked it up, so that they never fire del.
ZRem(k) ==
    /\ "ZREM" \in Commands
    /\ \/ Refuse("ZREM", {k}, "zset")
       \/ \E d \in Prepared(db, {k}, "zset") :
             \E c \in {"empty"} \cup IF HasElements(d, "zset", k) THEN {"some"} ELSE {} :
                /\ db' = Notify(DelIfGone(Put(d, "zset", k, c), "zset", k), "zrem", k)
                /\ \/ Answer("ZREM", "nil")
                   \/ HasElements(d, "zset", k) /\ Answer("ZREM", "value")

\* The destination is announced whether it has elements or not; a del that was
\* fired for it before makes no difference.  seen are the sources looked up.
ZStored(d, dest, seen, e, c) ==
    Notify(Put(Touched(DelIfGone(d, "zset", dest), "zset", seen), "zset", dest, c), e, dest)

\* Only the destination is registered, unless there are more than three sources.
\* It is reset before the sources are read, and may be one of them.
ZUnionStore(dest, ks) ==
    /\ "ZUNIONSTORE" \in Commands
    /\ \/ Refuse("ZUNIONSTORE", {dest}, "zset")
       \/ \E d \in Prepared(db, {dest}, "zset") :
             LET c == IF \E k \in ks \ {dest} : HasElements(d, "zset", k) THEN "some" ELSE "empty"
             IN  /\ db' = ZStored(d, dest, ks, "zunionstore", c)
                 /\ Answer("ZUNIONSTORE", IF c = "some" THEN "value" ELSE "nil")

\* The sources are read before the destination is written.  Each element is
\* given up at the first source without it, so at most one of the sources that
\* have no elements is looked up.
ZInterStore(dest, ks) ==
    /\ "ZINTERSTORE" \in Commands
    /\ \/ Refuse("ZINTERSTORE", {dest}, "zset")
       \/ \E d \in Prepared(db, {dest}, "zset") :
             LET full == {k \in ks : HasElements(d, "zset", k)}
             IN  \E c \in {"empty", "some"}, seen \in SUBSET (ks \ full) :
                    /\ c = "some" => full = ks
                    /\ c = "empty" => full # ks \/ Cardinality(ks) > 1
                    /\ Cardinality(seen) <= 1
                    /\ seen = {} => full = ks \/ Cardinality(full) > 1
                    /\ db' = ZStored(d, dest, seen, "zinterstore", c)
                    /\ Answer("ZINTERSTORE", IF c = "some" THEN "value" ELSE "nil")

ZScan(k) == Read("ZSCAN", "zset", k)
=============================================================================
