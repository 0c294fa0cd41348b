------------------------------- MODULE KeyMap -------------------------------
(***************************************************************************)
(* One database, an InMemoryData: the maps that hold the values, one per   *)
(* container type, and the KeyMap that is to know the type of every key    *)
(* (KeysMap.cpp, InMemoryData.cpp, CommandContext.cpp).                    *)
(*                                                                         *)
(* A value is abstracted to whether its map has an entry for the key and   *)
(* whether that entry has elements.  A database is a record, and what the  *)
(* code does to it an operator from databases to databases.                *)
(***************************************************************************)
EXTENDS Naturals

CONSTANTS
    Keys,     \* the keys clients use
    MaxLeft   \* bound: the longest timeout, in ticks of the clock

ASSUME MaxLeftAssumption == MaxLeft \in Nat

Types == {"string", "set", "zset", "list", "hash", "hll"}

\* An entry may be there without elements: some handlers leave empty
\* containers behind, others create them by looking.
Contents == {"absent", "empty", "some"}

\* KeyMap::Item.  "sec" expires when no time is left.  "overflow" is a time in
\* milliseconds, or too large a time: isExpired overflows its int on them, and
\* its answer depends on the wrapped value.
Item ==
    [type : Types \cup {"none"}, expiry : {"never", "sec", "overflow"}, left : 0 .. MaxLeft]

Db == [km : [Keys -> Item], at : [Types -> [Keys -> Contents]]]

\* The item a key without one stands for (getContainerType answers NONE).
NoItem == [type |-> "none", expiry |-> "never", left |-> 0]

Fresh(t) == [type |-> t, expiry |-> "never", left |-> 0]

EmptyDb ==
    [km |-> [k \in Keys |-> NoItem], at |-> [t \in Types |-> [k \in Keys |-> "absent"]]]

-----------------------------------------------------------------------------
(* The maps.                                                               *)

\* keyExists of the map for type t.
Exists(d, t, k) == d.at[t][k] # "absent"

Put(d, t, k, c) == [d EXCEPT !.at[t][k] = c]

-----------------------------------------------------------------------------
(* KeyMap.                                                                 *)

Tracked(d, k) == d.km[k].type # "none"

Add(d, k, item) == [d EXCEPT !.km[k] = item]

DelOnlyFromKeyMap(d, k) == Add(d, k, NoItem)

\* Mutant of DelKeys: the KeyMap keeps its items.
DelFromMaps(d, ks) ==
    [d EXCEPT !.at = [t \in Types |-> [k \in Keys |-> IF k \in ks THEN "absent" ELSE @[t][k]]]]

\* delKey on every key of ks: from all the maps and from the KeyMap itself.
DelKeys(d, ks) ==
    [km |-> [k \in Keys |-> IF k \in ks THEN NoItem ELSE d.km[k]],
     at |-> [t \in Types |->
                [k \in Keys |-> IF k \in ks THEN "absent" ELSE d.at[t][k]]]]

Flush(d) == DelKeys(d, Keys)

\* Mutant of CreatedBy: the event of new HyperLogLogs is not handled.
CreatedByMost(e) ==
    CASE e = "set" -> "string"
      [] e \in {"z_new", "zunionstore", "zinterstore"} -> "zset"
      [] e = "hash_new" -> "hash"
      [] OTHER -> "none"

\* The type of the item that notify adds on an event, if it adds one.
CreatedBy(e) ==
    CASE e = "set" -> "string"
      [] e \in {"set_new", "sinterstore", "sdiffstore", "sunionostore"} -> "set"
      [] e \in {"z_new", "zunionstore", "zinterstore"} -> "zset"
      [] e = "list_new" -> "list"
      [] e = "hash_new" -> "hash"
      [] e = "hll_new" -> "hll"
      [] OTHER -> "none"

\* KeyMap::notify, which FIRE_EVENT reaches before the command goes on.
Notify(d, e, k) ==
    CASE e = "del" -> DelOnlyFromKeyMap(d, k)
      [] CreatedBy(e) # "none" -> Add(d, k, Fresh(CreatedBy(e)))
      [] OTHER -> d

\* RENAME: the first map that holds the key swaps the value over.  The item
\* follows it; what other maps hold under the new name stays there.
Rename(d, k, new) ==
    LET moved(t) == [d EXCEPT !.at[t] = [@ EXCEPT ![new] = d.at[t][k], ![k] = "absent"],
                              !.km = [@ EXCEPT ![new] = d.km[k], ![k] = NoItem]]
        holders == {t \in Types : Exists(d, t, k)}
    IN  IF holders = {} THEN {d} ELSE {moved(t) : t \in holders}

-----------------------------------------------------------------------------
(* Expiry.                                                                 *)

MustBeExpired(item) == item.expiry = "sec" /\ item.left = 0

MayBeExpired(item) == MustBeExpired(item) \/ item.expiry = "overflow"

\* Mutant of DelIfExpired: the expired keys are not deleted.
KeepExpired(d, ks) == {d}

\* delIfExpired on every key of ks: the databases it can leave.
DelIfExpired(d, ks) ==
    {DelKeys(d, gone) : gone \in
        {g \in SUBSET ks : \A k \in ks :
            /\ k \in g => MayBeExpired(d.km[k])
            /\ MustBeExpired(d.km[k]) => k \in g}}

\* Mutant of Aged: the clock does not stop at the timeout.
AgedBelowZero(d) ==
    [d EXCEPT !.km = [k \in Keys |-> [d.km[k] EXCEPT !.left = @ - 1]]]

\* A second passes.
Aged(d) ==
    [d EXCEPT !.km = [k \in Keys |-> [d.km[k] EXCEPT !.left = IF @ = 0 THEN 0 ELSE @ - 1]]]

-----------------------------------------------------------------------------
(* CommandCtx: what executeEndToEnd does around every command.             *)

\* Mutant of Matches: the type is not checked.
MatchesAny(d, ks, t) == TRUE

\* commandMatchesContainer: each key the command registers is unknown to the
\* KeyMap or of the command's own type.  The commands on keys of any type
\* register "none", so it lets them through for unknown keys only.
Matches(d, ks, t) == \A k \in ks : d.km[k].type \in {"none", t}

\* The databases in which a command of type t on the keys ks can start to
\* execute: none when it is refused, without the expired keys otherwise.
Prepared(d, ks, t) == IF Matches(d, ks, t) THEN DelIfExpired(d, ks) ELSE {}
=============================================================================
