----------------------------- MODULE SortedSets -----------------------------
(***************************************************************************)
(* Sorted sets, element by element (SortedSetMap.cpp and the commands of   *)
(* SortedSetCmds.cpp).  A sorted set has two indexes: a map from members   *)
(* to scores and a skip list of items sorted by score, then by member.     *)
(* Lookups by member use the map, those by rank, score or order the list.  *)
(*                                                                         *)
(* Members are numbers, ordered as their strings are.  Limits are in       *)
(* halves: an exclusive limit, which the code moves by an epsilon, is an   *)
(* odd number, and a limit beyond all scores stands for an infinite one.   *)
(* A missing entry is an empty set: Containers tells the two apart.        *)
(***************************************************************************)
EXTENDS Integers, FiniteSets, SequencesExt

CONSTANTS
    Keys,       \* the keys of the sorted sets
    Members,    \* their members
    MaxScore,   \* bound: the highest score
    Weights,    \* the weights that unions and intersections are given
    MaxArgs,    \* bound: the most pairs of a ZADD, and sources of a union
    MaxRank     \* bound: the highest rank asked for, from either end

ASSUME MembersAssumption == Members \subseteq Nat /\ IsFiniteSet(Members)
ASSUME MaxScoreAssumption == MaxScore \in Nat
ASSUME WeightsAssumption == Weights \subseteq Nat
ASSUME BoundsAssumption == MaxArgs \in Nat /\ MaxRank \in Nat

VARIABLES
    sets,      \* the sorted sets
    crashed    \* the process has ended: the skip list was used out of its range

vars == <<sets, crashed>>

Scores == 0 .. MaxScore

Items == Scores \X Members

Maps == UNION {[ms -> Scores] : ms \in SUBSET Members}

TypeOK ==
    /\ sets \in [Keys -> [map : Maps, list : SUBSET Items]]
    /\ crashed \in BOOLEAN

EmptySet == [map |-> [m \in {} |-> 0], list |-> {}]

Init ==
    /\ sets = [k \in Keys |-> EmptySet]
    /\ crashed = FALSE

-----------------------------------------------------------------------------
(* The indexes.                                                            *)

Less(i, j) == i[1] < j[1] \/ (i[1] = j[1] /\ i[2] < j[2])

\* The skip list, item by item: each is preceded by those that are less.
Sorted(list) ==
    [n \in 1 .. Cardinality(list) |->
        CHOOSE i \in list : Cardinality({j \in list : Less(j, i)}) = n - 1]

ItemsOf(map) == {<<map[m], m>> : m \in DOMAIN map}

Without(map, ms) == [m \in DOMAIN map \ ms |-> map[m]]

\* Mutant of With: the member and the score are swapped.
WithSwapped(map, m, s) == [x \in DOMAIN map \cup {s} |-> IF x = s THEN m ELSE map[x]]

With(map, m, s) == [x \in DOMAIN map \cup {m} |-> IF x = m THEN s ELSE map[x]]

\* Mutant of Before: an item at the limit is passed over.
BeforeOrAt(lower, limit, x) == 2 * x <= limit

\* What bound's comparison says of an item whose score, or member, is x.
Before(lower, limit, x) == IF lower THEN 2 * x < limit ELSE ~(limit < 2 * x)

\* The binary search of bound, over the scores (f = 1) or the members (f = 2) of
\* a list: how many items it takes to be before the limit.
Bound(l, f, lower, limit) ==
    LET stretches == {s \in (0 .. Len(l)) \X (0 .. Len(l)) : s[1] + s[2] <= Len(l)}
        search[s \in stretches] ==
            LET first == s[1]
                count == s[2]
                step == count \div 2
            IN  IF count = 0
                   THEN first
                   ELSE IF Before(lower, limit, l[first + step + 1][f])
                           THEN search[<<first + step + 1, count - (step + 1)>>]
                           ELSE search[<<first, step>>]
    IN  search[<<0, Len(l)>>]

Lower(l, f, min) == Bound(l, f, TRUE, min)
Upper(l, f, max) == Bound(l, f, FALSE, max)

\* Mutant of Insert: an update leaves the old item in the list.
InsertOver(s, m, score) ==
    [set |-> [map |-> With(s.map, m, score), list |-> s.list \cup {<<score, m>>}], ok |-> TRUE]

\* Mutant of Insert: an update erases the old item and adds none.
InsertLost(s, m, score) ==
    IF m \in DOMAIN s.map
       THEN [set |-> [map |-> With(s.map, m, score), list |-> s.list \ {<<s.map[m], m>>}],
             ok |-> TRUE]
       ELSE [set |-> [map |-> With(s.map, m, score), list |-> s.list \cup {<<score, m>>}],
             ok |-> TRUE]

\* insert: the new set, and whether the list took the item.  A member that the
\* map lacks may be in the list; an update has erased the old item when the list
\* refuses the new one.
Insert(s, m, score) ==
    LET old == IF m \in DOMAIN s.map THEN {<<s.map[m], m>>} ELSE {}
        rest == s.list \ old
    IN  CASE old = {<<score, m>>} -> [set |-> s, ok |-> TRUE]
          [] old # {<<score, m>>} /\ <<score, m>> \in rest ->
                [set |-> [s EXCEPT !.list = rest], ok |-> FALSE]
          [] OTHER ->
                [set |-> [map |-> With(s.map, m, score), list |-> rest \cup {<<score, m>>}],
                 ok |-> TRUE]

\* rem of some members.
Removed(s, ms) ==
    LET gone == ms \cap DOMAIN s.map
    IN  [map |-> Without(s.map, gone), list |-> s.list \ {<<s.map[m], m>> : m \in gone}]

-----------------------------------------------------------------------------
(* Reads.                                                                  *)

\* normalizeIndexes, which counts negative indexes from the end.
Index(i, len) == IF i < 0 THEN (IF len + i < 0 THEN 0 ELSE len + i) ELSE i
Normalized(start, end, len) ==
    [start |-> Index(IF start >= len THEN len ELSE start, len),
     end |-> Index(IF end >= len THEN len - 1 ELSE end, len)]

Rank(s, m) ==
    IF <<s.map[m], m>> \in s.list
       THEN Cardinality({i \in s.list : Less(i, <<s.map[m], m>>)})
       ELSE Cardinality(s.list)

Count(l, f, min, max) == Upper(l, f, max) - Lower(l, f, min)

\* rangeByScore (f = 1) and rangeByLex (f = 2).  The count of LIMIT is cut off
\* before its offset is skipped.
RangeBy(l, f, min, max, offset, count, reverse) ==
    LET lower == Lower(l, f, min)
        upper == Upper(l, f, max)
        from == IF count < upper - lower /\ reverse THEN upper - count ELSE lower
        to == IF count < upper - lower /\ ~reverse THEN lower + count ELSE upper
    IN  IF reverse
           THEN Reverse(SubSeq(l, from + 1, to - offset))
           ELSE SubSeq(l, from + offset + 1, to)

-----------------------------------------------------------------------------
(* Unions and intersections of the sets of ks, weighted by ws.             *)

Aggregates == {"SUM", "MIN", "MAX"}

Combine(agg, a, b) ==
    CASE agg = "SUM" -> a + b
      [] agg = "MIN" -> IF b < a THEN b ELSE a
      [] agg = "MAX" -> IF a < b THEN b ELSE a

\* Mutant of Met: the minimum is taken with zero when the member is new.
MetZero(acc, agg, m, x) == Combine(agg, IF m \in DOMAIN acc THEN acc[m] ELSE 0, x)

\* A member of one more source meets the union so far.
Met(acc, agg, m, x) == IF m \in DOMAIN acc THEN Combine(agg, acc[m], x) ELSE x

\* uni: the destination is reset first, so that a source of the same name is
\* the union so far.
Union(dest, ks, ws, agg) ==
    LET source(acc, i) == IF ks[i] = dest THEN acc ELSE sets[ks[i]].map
        add(acc, i) ==
            [m \in DOMAIN acc \cup DOMAIN source(acc, i) |->
                IF m \in DOMAIN source(acc, i)
                   THEN Met(acc, agg, m, source(acc, i)[m] * ws[i])
                   ELSE acc[m]]
    IN  FoldLeft(add, EmptySet.map, [i \in DOMAIN ks |-> i])

\* intersect: the first weight counts once for every further source.
Intersection(ks, ws, agg) ==
    LET shared == {m \in DOMAIN sets[ks[1]].map :
                      \A i \in DOMAIN ks : m \in DOMAIN sets[ks[i]].map}
        further == [i \in 1 .. Len(ks) - 1 |-> i + 1]
        score(m) ==
            LET meet(x, i) == Combine(agg, x * ws[1], sets[ks[i]].map[m] * ws[i])
            IN  FoldLeft(meet, sets[ks[1]].map[m], further)
    IN  [m \in shared |-> score(m)]

-----------------------------------------------------------------------------
(* The commands.                                                           *)

\* The bound on scores: nothing is stored that exceeds it.
Bounded(map) == \A m \in DOMAIN map : map[m] \in Scores

\* ZADD stops at the first pair that cannot be inserted, and keeps what it has
\* added before.  A score that is no number stops it likewise, as if the pairs
\* had ended there.
Added(s, pairs) ==
    LET add(acc, p) == IF acc.ok THEN Insert(acc.set, p[2], p[1]) ELSE acc
    IN  FoldLeft(add, [set |-> s, ok |-> TRUE], pairs).set

ZAdd(k, pairs) ==
    /\ sets' = [sets EXCEPT ![k] = Added(@, pairs)]
    /\ UNCHANGED crashed

ZIncrBy(k, m, by) ==
    LET s == sets[k]
        score == IF m \in DOMAIN s.map THEN s.map[m] + by ELSE by
    IN  /\ score \in Scores
        /\ sets' = [sets EXCEPT ![k] = Insert(s, m, score).set]
        /\ UNCHANGED crashed

\* ZREM takes every other token for a member.
ZRem(k, ms) ==
    /\ sets' = [sets EXCEPT ![k] = Removed(@, ms)]
    /\ UNCHANGED crashed

\* remByRank from first to last.  A list without items and an index before the
\* front are undefined behaviour, as is a range that ends before it begins:
\* nothing is removed, or the process ends.
RemByRank(k, first, last) ==
    LET l == Sorted(sets[k].list)
        doomed == {l[i + 1] : i \in first .. last}
    IN  IF l # <<>> /\ 0 <= last /\ first <= last + 1
           THEN /\ sets' = [sets EXCEPT ![k] =
                               [map |-> Without(@.map, {i[2] : i \in doomed}),
                                list |-> @.list \ doomed]]
                /\ UNCHANGED crashed
           ELSE /\ crashed' \in BOOLEAN
                /\ UNCHANGED sets

\* ZREMRANGEBYRANK: the indexes are normalized with the size of the map.
ZRemByRank(k, start, stop) ==
    LET range == Normalized(start, stop, Cardinality(DOMAIN sets[k].map))
    IN  RemByRank(k, range.start, range.end)

\* ZREMRANGEBYSCORE and ZREMRANGEBYLEX.
ZRemBy(k, f, min, max) ==
    LET l == Sorted(sets[k].list)
    IN  RemByRank(k, Lower(l, f, min), Upper(l, f, max) - 1)

ZUnionStore(dest, ks, ws, agg) ==
    LET map == Union(dest, ks, ws, agg)
    IN  /\ Bounded(map)
        /\ sets' = [sets EXCEPT ![dest] = [map |-> map, list |-> ItemsOf(map)]]
        /\ UNCHANGED crashed

\* ZINTERSTORE replaces the map of its destination and adds to its list.
ZInterStore(dest, ks, ws, agg) ==
    LET map == Intersection(ks, ws, agg)
    IN  /\ Bounded(map)
        /\ sets' = [sets EXCEPT ![dest] = [map |-> map, list |-> @.list \cup ItemsOf(map)]]
        /\ UNCHANGED crashed

\* delKey: DEL, the expiry of a key and the flushes.
DelKey(k) ==
    /\ sets' = [sets EXCEPT ![k] = EmptySet]
    /\ UNCHANGED crashed

Rename(k, new) ==
    /\ k # new
    /\ sets' = [sets EXCEPT ![new] = sets[k], ![k] = EmptySet]
    /\ UNCHANGED crashed

\* ZREVRANGE of a set without members reads before the front of its list.
ZRevRange(k) ==
    /\ sets[k].list = {}
    /\ crashed' \in BOOLEAN
    /\ UNCHANGED sets

-----------------------------------------------------------------------------
(* Small sets of arguments.                                                *)

Limits == -1 .. 2 * MaxScore + 1
LexLimits == UNION {2 * m - 1 .. 2 * m + 1 : m \in Members}
Ranks == - MaxRank .. MaxRank
Pairs == UNION {[1 .. n -> Items] : n \in 1 .. MaxArgs}
Sources == UNION {[1 .. n -> Keys] : n \in 1 .. MaxArgs}
WeightsOf(ks) == [DOMAIN ks -> Weights]

Next ==
    /\ ~crashed
    /\ \/ \E k \in Keys :
             \/ \E pairs \in Pairs : ZAdd(k, pairs)
             \/ \E m \in Members, by \in -1 .. MaxScore : ZIncrBy(k, m, by)
             \/ \E ms \in SUBSET Members : ZRem(k, ms)
             \/ \E start, stop \in Ranks : ZRemByRank(k, start, stop)
             \/ \E min, max \in Limits : ZRemBy(k, 1, min, max)
             \/ \E min, max \in LexLimits : ZRemBy(k, 2, min, max)
             \/ \E ks \in Sources : \E ws \in WeightsOf(ks), agg \in Aggregates :
                   ZUnionStore(k, ks, ws, agg) \/ ZInterStore(k, ks, ws, agg)
             \/ \E new \in Keys : Rename(k, new)
             \/ DelKey(k)
             \/ ZRevRange(k)

Spec == Init /\ [][Next]_vars

-----------------------------------------------------------------------------
(* Properties.                                                             *)

Aligned(s) == s.list = ItemsOf(s.map)

\* ZRANGE and ZREMRANGEBYRANK take the size of the map for that of the list: even
\* when the two disagree, the list has an item for every member of the map, so
\* that no rank below the size of the map is out of the list's range.
MembersAreListed ==
    \A k \in Keys : \A m \in DOMAIN sets[k].map : \E i \in sets[k].list : i[2] = m

\* Only ZINTERSTORE into a set that has elements makes the indexes disagree; every
\* other command keeps them together in the sets where they are.
OnlyIntersectionsMisalign ==
    [][\A k \in Keys :
          (\A l \in Keys : Aligned(sets[l]))
            /\ ~Aligned(sets'[k])
          => \E ks \in Sources : \E ws \in WeightsOf(ks), agg \in Aggregates :
                ZInterStore(k, ks, ws, agg)]_vars

WithinLimits(items, f, min, max) == {i \in items : min <= 2 * i[f] /\ 2 * i[f] <= max}

\* The reads of a list, and the removals, take from it what they should of the items
\* that it should have.
Exact(list, items, f, min, max) ==
    LET l == Sorted(list)
        within == Sorted(WithinLimits(items, f, min, max))
    IN  /\ Count(l, f, min, max) = Len(within)
        /\ RangeBy(l, f, min, max, 0, Len(l), FALSE) = within
        /\ RangeBy(l, f, min, max, 0, 1, TRUE)
              = SubSeq(Reverse(within), 1, IF within = <<>> THEN 0 ELSE 1)
        /\ SubSeq(l, Lower(l, f, min) + 1, Upper(l, f, max)) = within

ReadsAreExact(s) ==
    /\ \A min, max \in Limits : min <= max => Exact(s.list, ItemsOf(s.map), 1, min, max)
    /\ (\A i, j \in s.list : i[1] = j[1])
         => \A min, max \in LexLimits : min <= max => Exact(s.list, ItemsOf(s.map), 2, min, max)
    /\ \A m \in DOMAIN s.map : Sorted(s.list)[Rank(s, m) + 1] = <<s.map[m], m>>

\* Where the indexes agree, the binary search finds by score exactly the members
\* whose scores are within the limits, inclusive, exclusive or infinite, and so do
\* the removals; by member it does when all the scores are equal.  The rank of a
\* member is its place in the list.
RangesAreExact == \A k \in Keys : Aligned(sets[k]) => ReadsAreExact(sets[k])

\* The aggregate of the weighted scores of a member in the sources that have it.
Aggregate(agg, scores, is) ==
    CASE agg = "SUM" -> MapThenSumSet(LAMBDA i : scores[i], is)
      [] agg = "MIN" -> Min({scores[i] : i \in is})
      [] agg = "MAX" -> Max({scores[i] : i \in is})

Having(ks, m) == {i \in DOMAIN ks : m \in DOMAIN sets[ks[i]].map}

Total(ks, ws, agg, m) ==
    Aggregate(agg, [i \in Having(ks, m) |-> sets[ks[i]].map[m] * ws[i]], Having(ks, m))

UnionAddsUp(dest, ks, ws, agg) ==
    Union(dest, ks, ws, agg)
      = [m \in {x \in Members : Having(ks, x) # {}} |-> Total(ks, ws, agg, m)]

IntersectionAddsUp(ks, ws, agg) ==
    Intersection(ks, ws, agg)
      = [m \in {x \in Members : Having(ks, x) = {1, 2}} |-> Total(ks, ws, agg, m)]

\* A union has the members of all its sources and an intersection of two those
\* that they share, with the aggregate of their weighted scores, unless the
\* destination is itself a source.
CombinationsAreExact ==
    \A ks \in Sources : \A ws \in WeightsOf(ks), agg \in Aggregates :
        /\ \A dest \in Keys \ ToSet(ks) : UnionAddsUp(dest, ks, ws, agg)
        /\ Len(ks) = 2 => IntersectionAddsUp(ks, ws, agg)

=============================================================================
