-------------------------- MODULE SortedSetsProofs --------------------------
(***************************************************************************)
(* Theorems about SortedSets, for any keys, members, scores and weights,   *)
(* and commands with any number of arguments.                              *)
(***************************************************************************)
EXTENDS SortedSets, RecursionProofs, FiniteSetTheorems, SequenceTheorems

-----------------------------------------------------------------------------
(* Pairs that are added one after the other.                               *)

SortedSet == [map : Maps, list : SUBSET Items]

\* What every insertion keeps, all of a ZADD keep.
LEMMA AddedStays ==
  ASSUME NEW n \in Nat, NEW pairs \in [1 .. n -> Items], NEW G, NEW z \in G,
         \A s \in G, p \in Items : /\ Insert(s, p[2], p[1]).set \in G
                                   /\ Insert(s, p[2], p[1]) = [set |-> Insert(s, p[2], p[1]).set,
                                                               ok |-> Insert(s, p[2], p[1]).ok]
                                   /\ Insert(s, p[2], p[1]).ok \in BOOLEAN
  PROVE  Added(z, pairs) \in G
<1> DEFINE T == [set : G, ok : BOOLEAN]
           base == [set |-> z, ok |-> TRUE]
           op(acc, p) == IF acc.ok THEN Insert(acc.set, p[2], p[1]) ELSE acc
           F == [q \in T \X (1 .. n) |-> op(q[1], pairs[q[2]])]
           D == SUBSET DOMAIN pairs
           Fix(h) == h = [s \in D |-> IF s = {}
                                         THEN base
                                         ELSE op(h[s \ {Max(s)}], pairs[Max(s)])]
           fold == CHOOSE h : Fix(h)
<1>1. DOMAIN pairs = 1 .. n /\ D = SUBSET (1 .. n)
  OBVIOUS
<1>2. base \in T
  OBVIOUS
<1>3. ASSUME NEW acc \in T, NEW p \in Items PROVE op(acc, p) \in T
  <2>1. acc.set \in G /\ acc.ok \in BOOLEAN
    OBVIOUS
  <2>2. CASE acc.ok
    <3> DEFINE new == Insert(acc.set, p[2], p[1])
    <3>1. new.set \in G /\ new = [set |-> new.set, ok |-> new.ok] /\ new.ok \in BOOLEAN
      BY <2>1
    <3> HIDE DEF new
    <3>2. new \in T
      BY <3>1
    <3> QED
      BY <2>2, <3>2 DEF new
  <2>3. CASE ~acc.ok
    BY <2>3
  <2> QED
    BY <2>1, <2>2, <2>3
<1>4. F \in [T \X (1 .. n) -> T]
  <2> HIDE DEF op, T
  <2> QED
    BY <1>3
<1>5. \A s \in D : s # {} => Max(s) \in 1 .. n /\ s \ {Max(s)} \in D
  BY <1>1, Greatest
<1>6. \E h : Fix(h)
  <2>1. PICK g : Folding(g, n, T, base, F)
    <3> HIDE DEF T, base, F
    <3> QED
      BY <1>2, <1>4, FoldExists
  <2>2. g \in [D -> T] /\ \A s \in D : g[s] = IF s = {} THEN base ELSE F[<<g[s \ {Max(s)}], Max(s)>>]
    BY <1>1, <2>1 DEF Folding
  <2>3. ASSUME NEW s \in D
        PROVE  g[s] = IF s = {} THEN base ELSE op(g[s \ {Max(s)}], pairs[Max(s)])
    <3>1. CASE s = {}
      BY <2>2, <3>1
    <3>2. CASE s # {}
      <4>1. <<g[s \ {Max(s)}], Max(s)>> \in T \X (1 .. n)
        BY <1>5, <2>2, <3>2
      <4> HIDE DEF op, T, D
      <4>2. F[<<g[s \ {Max(s)}], Max(s)>>] = op(g[s \ {Max(s)}], pairs[Max(s)])
        BY <4>1
      <4> QED
        BY <2>2, <3>2, <4>2
    <3> QED
      BY <3>1, <3>2
  <2>4. Fix(g)
    <3> HIDE DEF op, T, D, base
    <3> QED
      BY <2>2, <2>3
  <2> QED
    BY <2>4
<1>7. Fix(fold)
  <2> HIDE DEF Fix
  <2> QED
    BY <1>6, Zenon
<1>8. Added(z, pairs) = fold[DOMAIN pairs].set
  BY Zenon DEF Added, FoldLeft, MapThenFoldSet
<1> HIDE DEF fold
<1>9. \A s \in D : fold[s] = IF s = {} THEN base ELSE op(fold[s \ {Max(s)}], pairs[Max(s)])
  <2> DEFINE e(s) == IF s = {} THEN base ELSE op(fold[s \ {Max(s)}], pairs[Max(s)])
  <2>1. fold = [s \in D |-> e(s)]
    BY <1>7, Zenon
  <2> HIDE DEF e
  <2>2. \A s \in D : fold[s] = e(s)
    BY <2>1
  <2> QED
    BY <2>2 DEF e
<1>10. \A s \in SUBSET (1 .. n) : s # {} /\ fold[s \ {Max(s)}] \in T => fold[s] \in T
  <2> HIDE DEF op, T
  <2> QED
    BY <1>1, <1>3, <1>5, <1>9
<1>11. fold[{}] \in T
  BY <1>2, <1>9
<1>12. fold[1 .. n] \in T
  <2> HIDE DEF T
  <2> QED
    BY <1>10, <1>11, FoldStays
<1> QED
  BY <1>1, <1>8, <1>12

-----------------------------------------------------------------------------
(* What the commands do to one set.                                        *)

\* A member of the map has an item in the list, of its score or of another.
Listed(s) == \A m \in DOMAIN s.map : \E i \in s.list : i[2] = m

LEMMA MapsAre ==
  /\ \A f \in Maps : DOMAIN f \in SUBSET Members /\ f \in [DOMAIN f -> Scores]
  /\ \A ms \in SUBSET Members : \A f \in [ms -> Scores] : f \in Maps
BY DEF Maps

LEMMA SetOfTwo ==
  ASSUME NEW map \in Maps, NEW list \in SUBSET Items
  PROVE  [map |-> map, list |-> list] \in SortedSet
BY DEF SortedSet

\* The items of a map.
LEMMA ItemsAre ==
  ASSUME NEW map \in Maps
  PROVE  /\ ItemsOf(map) \in SUBSET Items
         /\ \A i \in Items : i \in ItemsOf(map) <=> i[2] \in DOMAIN map /\ map[i[2]] = i[1]
<1>1. DOMAIN map \in SUBSET Members /\ \A m \in DOMAIN map : map[m] \in Scores
  BY MapsAre
<1>2. ItemsOf(map) \in SUBSET Items
  BY <1>1 DEF ItemsOf, Items
<1>3. ASSUME NEW i \in Items, i \in ItemsOf(map) PROVE i[2] \in DOMAIN map /\ map[i[2]] = i[1]
  BY <1>3 DEF ItemsOf
<1>4. ASSUME NEW i \in Items, i[2] \in DOMAIN map, map[i[2]] = i[1] PROVE i \in ItemsOf(map)
  <2>1. i = <<i[1], i[2]>>
    BY DEF Items
  <2>2. i = <<map[i[2]], i[2]>>
    BY <1>4, <2>1
  <2> QED
    BY <1>4, <2>2 DEF ItemsOf
<1> QED
  BY <1>2, <1>3, <1>4

LEMMA WithIs ==
  ASSUME NEW map \in Maps, NEW m \in Members, NEW x \in Scores
  PROVE  /\ With(map, m, x) \in Maps
         /\ DOMAIN With(map, m, x) = DOMAIN map \cup {m}
         /\ With(map, m, x)[m] = x
         /\ \A y \in DOMAIN map : y # m => With(map, m, x)[y] = map[y]
<1>1. DOMAIN map \cup {m} \in SUBSET Members /\ \A y \in DOMAIN map : map[y] \in Scores
  BY MapsAre
<1>2. With(map, m, x) \in [DOMAIN map \cup {m} -> Scores]
  BY <1>1 DEF With
<1>3. With(map, m, x) \in Maps
  BY <1>1, <1>2, MapsAre
<1> QED
  BY <1>3 DEF With

LEMMA WithoutIs ==
  ASSUME NEW map \in Maps, NEW ms
  PROVE  /\ Without(map, ms) \in Maps
         /\ DOMAIN Without(map, ms) = DOMAIN map \ ms
         /\ \A y \in DOMAIN map \ ms : Without(map, ms)[y] = map[y]
<1>1. DOMAIN map \ ms \in SUBSET Members /\ \A y \in DOMAIN map : map[y] \in Scores
  BY MapsAre
<1>2. Without(map, ms) \in [DOMAIN map \ ms -> Scores]
  BY <1>1 DEF Without
<1>3. Without(map, ms) \in Maps
  BY <1>1, <1>2, MapsAre
<1> QED
  BY <1>3 DEF Without

\* What an insertion does in each of its cases.
LEMMA InsertCases ==
  ASSUME NEW s \in SortedSet, NEW m \in Members, NEW x \in Scores
  PROVE  LET old == IF m \in DOMAIN s.map THEN {<<s.map[m], m>>} ELSE {}
             r == Insert(s, m, x)
         IN  \/ /\ old = {<<x, m>>}
                /\ r = [set |-> s, ok |-> TRUE]
             \/ /\ old # {<<x, m>>} /\ <<x, m>> \in s.list \ old
                /\ r = [set |-> [map |-> s.map, list |-> s.list \ old], ok |-> FALSE]
             \/ /\ old # {<<x, m>>} /\ <<x, m>> \notin s.list \ old
                /\ r = [set |-> [map |-> With(s.map, m, x), list |-> (s.list \ old) \cup {<<x, m>>}],
                        ok |-> TRUE]
<1> DEFINE old == IF m \in DOMAIN s.map THEN {<<s.map[m], m>>} ELSE {}
           r == Insert(s, m, x)
<1> HIDE DEF old
<1>1. [s EXCEPT !.list = s.list \ old] = [map |-> s.map, list |-> s.list \ old]
  BY DEF SortedSet
<1>2. CASE old = {<<x, m>>}
  <2>1. r = [set |-> s, ok |-> TRUE]
    BY <1>2 DEF Insert, old
  <2> QED
    BY <1>2, <2>1 DEF old
<1>3. CASE old # {<<x, m>>} /\ <<x, m>> \in s.list \ old
  <2>1. r = [set |-> [s EXCEPT !.list = s.list \ old], ok |-> FALSE]
    BY <1>3 DEF Insert, old
  <2> QED
    BY <1>1, <1>3, <2>1 DEF old
<1>4. CASE old # {<<x, m>>} /\ <<x, m>> \notin s.list \ old
  <2>1. r = [set |-> [map |-> With(s.map, m, x), list |-> (s.list \ old) \cup {<<x, m>>}],
             ok |-> TRUE]
    BY <1>4 DEF Insert, old
  <2> QED
    BY <1>4, <2>1 DEF old
<1> QED
  BY <1>2, <1>3, <1>4

LEMMA InsertTyped ==
  ASSUME NEW s \in SortedSet, NEW m \in Members, NEW x \in Scores
  PROVE  LET r == Insert(s, m, x)
         IN  r = [set |-> r.set, ok |-> r.ok] /\ r.set \in SortedSet /\ r.ok \in BOOLEAN
<1> DEFINE old == IF m \in DOMAIN s.map THEN {<<s.map[m], m>>} ELSE {}
           r == Insert(s, m, x)
<1>1. s.map \in Maps /\ s.list \in SUBSET Items /\ <<x, m>> \in Items
  BY DEF SortedSet, Items
<1>2. With(s.map, m, x) \in Maps
  BY <1>1, WithIs
<1>3. /\ [map |-> s.map, list |-> s.list \ old] \in SortedSet
      /\ [map |-> With(s.map, m, x), list |-> (s.list \ old) \cup {<<x, m>>}] \in SortedSet
  BY <1>1, <1>2, SetOfTwo
<1> HIDE DEF old, r
<1>4. CASE r = [set |-> s, ok |-> TRUE]
  BY <1>4 DEF r
<1>5. CASE r = [set |-> [map |-> s.map, list |-> s.list \ old], ok |-> FALSE]
  BY <1>3, <1>5 DEF r
<1>6. CASE r = [set |-> [map |-> With(s.map, m, x), list |-> (s.list \ old) \cup {<<x, m>>}],
                ok |-> TRUE]
  BY <1>3, <1>6 DEF r
<1> QED
  BY <1>4, <1>5, <1>6, InsertCases DEF r, old

\* An insertion, even one that the list refuses, leaves an item of each member.
LEMMA InsertListed ==
  ASSUME NEW s \in SortedSet, NEW m \in Members, NEW x \in Scores, Listed(s)
  PROVE  Listed(Insert(s, m, x).set)
<1> DEFINE old == IF m \in DOMAIN s.map THEN {<<s.map[m], m>>} ELSE {}
           r == Insert(s, m, x)
<1>1. s.map \in Maps
  BY DEF SortedSet
<1>2. \A i \in old : i[2] = m
  OBVIOUS
<1>3. <<x, m>>[2] = m
  OBVIOUS
<1>4. ASSUME NEW y \in DOMAIN s.map, y # m PROVE \E i \in s.list \ old : i[2] = y
  BY <1>2, <1>4 DEF Listed
<1> HIDE DEF old, r
<1>5. CASE r = [set |-> s, ok |-> TRUE]
  BY <1>5 DEF r
<1>6. CASE /\ <<x, m>> \in s.list \ old
           /\ r = [set |-> [map |-> s.map, list |-> s.list \ old], ok |-> FALSE]
  BY <1>3, <1>4, <1>6 DEF r, Listed
<1>7. CASE r = [set |-> [map |-> With(s.map, m, x), list |-> (s.list \ old) \cup {<<x, m>>}],
                ok |-> TRUE]
  <2>1. ASSUME NEW y \in DOMAIN With(s.map, m, x)
        PROVE  \E i \in (s.list \ old) \cup {<<x, m>>} : i[2] = y
    <3>1. DOMAIN With(s.map, m, x) = DOMAIN s.map \cup {m}
      BY <1>1, WithIs, Zenon
    <3>2. y = m \/ (y \in DOMAIN s.map /\ y # m)
      BY <3>1
    <3> QED
      BY <1>3, <1>4, <3>2
  <2> QED
    BY <1>7, <2>1 DEF r, Listed
<1> QED
  BY <1>5, <1>6, <1>7, InsertCases DEF r, old

\* Where the indexes agree, the list refuses nothing, and they agree afterwards.
LEMMA InsertAligned ==
  ASSUME NEW s \in SortedSet, NEW m \in Members, NEW x \in Scores, Aligned(s)
  PROVE  Aligned(Insert(s, m, x).set)
<1> DEFINE old == IF m \in DOMAIN s.map THEN {<<s.map[m], m>>} ELSE {}
           r == Insert(s, m, x)
           map == With(s.map, m, x)
           list == (s.list \ old) \cup {<<x, m>>}
<1>1. s.map \in Maps /\ s.list \in SUBSET Items /\ <<x, m>> \in Items
      /\ <<x, m>>[1] = x /\ <<x, m>>[2] = m
  BY DEF SortedSet, Items
<1>2. \A i \in Items : i \in s.list <=> i[2] \in DOMAIN s.map /\ s.map[i[2]] = i[1]
  BY <1>1, ItemsAre DEF Aligned
<1>3. CASE r = [set |-> s, ok |-> TRUE]
  BY <1>3
<1>4. CASE old # {<<x, m>>} /\ <<x, m>> \in s.list \ old
  <2>1. m \in DOMAIN s.map /\ s.map[m] = x
    BY <1>1, <1>2, <1>4
  <2> QED
    BY <1>4, <2>1
<1>5. CASE r = [set |-> [map |-> map, list |-> list], ok |-> TRUE]
  <2>1. /\ map \in Maps /\ DOMAIN map = DOMAIN s.map \cup {m} /\ map[m] = x
        /\ \A y \in DOMAIN s.map : y # m => map[y] = s.map[y]
    <3> DEFINE f == s.map
    <3>1. f \in Maps
      BY <1>1
    <3> HIDE DEF f
    <3>2. /\ With(f, m, x) \in Maps
          /\ DOMAIN With(f, m, x) = DOMAIN f \cup {m}
          /\ With(f, m, x)[m] = x
          /\ \A y \in DOMAIN f : y # m => With(f, m, x)[y] = f[y]
      BY <3>1, WithIs
    <3> QED
      BY <3>2 DEF f
  <2>2. list \in SUBSET Items
    BY <1>1
  <2> HIDE DEF map
  <2>3. ASSUME NEW i \in Items PROVE i \in list <=> i \in ItemsOf(map)
    <3>1. i = <<i[1], i[2]>>
      BY DEF Items
    <3>2. i \in ItemsOf(map) <=> i[2] \in DOMAIN map /\ map[i[2]] = i[1]
      BY <2>1, ItemsAre
    <3>3. CASE i[2] = m
      <4>1. i \in s.list => i \in old
        <5> SUFFICES ASSUME i \in s.list PROVE i \in old
          OBVIOUS
        <5>1. m \in DOMAIN s.map /\ s.map[m] = i[1]
          BY <1>2, <3>3
        <5> QED
          BY <3>1, <3>3, <5>1
      <4>2. i \in list <=> i = <<x, m>>
        BY <4>1
      <4>3. i = <<x, m>> <=> i[1] = x
        BY <3>1, <3>3
      <4> QED
        BY <2>1, <3>2, <3>3, <4>2, <4>3
    <3>4. CASE i[2] # m
      <4>1. i \notin old /\ i # <<x, m>>
        BY <1>1, <3>4
      <4>2. i \in list <=> i \in s.list
        BY <4>1
      <4> HIDE DEF list
      <4> QED
        BY <1>2, <2>1, <3>2, <3>4, <4>2
    <3> QED
      BY <3>3, <3>4
  <2>4. ItemsOf(map) \in SUBSET Items
    BY <2>1, ItemsAre
  <2> HIDE DEF list
  <2>5. list = ItemsOf(map)
    BY <2>2, <2>3, <2>4
  <2>6. r.set.list = list /\ r.set.map = map
    BY <1>5
  <2> QED
    BY <2>5, <2>6 DEF Aligned
<1> QED
  BY <1>3, <1>4, <1>5, InsertCases

\* A ZADD of any number of pairs.
LEMMA AddedKeeps ==
  ASSUME NEW n \in Nat, NEW pairs \in [1 .. n -> Items], NEW z \in SortedSet
  PROVE  /\ Added(z, pairs) \in SortedSet
         /\ Listed(z) => Listed(Added(z, pairs))
         /\ Aligned(z) => Aligned(Added(z, pairs))
<1>1. \A p \in Items : p[1] \in Scores /\ p[2] \in Members
  BY DEF Items
<1>2. \A s \in SortedSet, p \in Items :
         /\ Insert(s, p[2], p[1]).set \in SortedSet
         /\ Insert(s, p[2], p[1]) = [set |-> Insert(s, p[2], p[1]).set,
                                     ok |-> Insert(s, p[2], p[1]).ok]
         /\ Insert(s, p[2], p[1]).ok \in BOOLEAN
  BY <1>1, InsertTyped
<1>3. Added(z, pairs) \in SortedSet
  BY <1>2, AddedStays
<1>4. ASSUME Listed(z) PROVE Listed(Added(z, pairs))
  <2> DEFINE G == {s \in SortedSet : Listed(s)}
  <2>1. \A s \in G, p \in Items : Insert(s, p[2], p[1]).set \in G
    BY <1>1, <1>2, InsertListed
  <2>2. z \in G
    BY <1>4
  <2>3. \A s \in G : s \in SortedSet
    OBVIOUS
  <2>4. \A s \in G, p \in Items :
           /\ Insert(s, p[2], p[1]).set \in G
           /\ Insert(s, p[2], p[1]) = [set |-> Insert(s, p[2], p[1]).set,
                                       ok |-> Insert(s, p[2], p[1]).ok]
           /\ Insert(s, p[2], p[1]).ok \in BOOLEAN
    <3> HIDE DEF G
    <3> QED
      BY <1>2, <2>1, <2>3
  <2>5. Added(z, pairs) \in G
    <3> HIDE DEF G
    <3> QED
      BY <2>2, <2>4, AddedStays
  <2> QED
    BY <2>5
<1>5. ASSUME Aligned(z) PROVE Aligned(Added(z, pairs))
  <2> DEFINE G == {s \in SortedSet : Aligned(s)}
  <2>1. \A s \in G, p \in Items : Insert(s, p[2], p[1]).set \in G
    BY <1>1, <1>2, InsertAligned
  <2>2. z \in G
    BY <1>5
  <2>3. \A s \in G : s \in SortedSet
    OBVIOUS
  <2>4. \A s \in G, p \in Items :
           /\ Insert(s, p[2], p[1]).set \in G
           /\ Insert(s, p[2], p[1]) = [set |-> Insert(s, p[2], p[1]).set,
                                       ok |-> Insert(s, p[2], p[1]).ok]
           /\ Insert(s, p[2], p[1]).ok \in BOOLEAN
    <3> HIDE DEF G
    <3> QED
      BY <1>2, <2>1, <2>3
  <2>5. Added(z, pairs) \in G
    <3> HIDE DEF G
    <3> QED
      BY <2>2, <2>4, AddedStays
  <2> QED
    BY <2>5
<1> QED
  BY <1>3, <1>4, <1>5

\* What is left when members, and some items, are taken from the indexes: whichever
\* items these are, if all of theirs are of those members and, for the indexes to
\* agree, if all that the members had are among them.
LEMMA TakenKeeps ==
  ASSUME NEW s \in SortedSet, NEW ms, NEW gone,
         \A i \in gone \cap s.list : i[2] \in ms
  PROVE  LET r == [map |-> Without(s.map, ms), list |-> s.list \ gone]
         IN  /\ r \in SortedSet
             /\ Listed(s) => Listed(r)
             /\ Aligned(s) /\ (\A i \in s.list : i[2] \in ms => i \in gone) => Aligned(r)
<1> DEFINE map == Without(s.map, ms)
           list == s.list \ gone
           r == [map |-> map, list |-> list]
<1>1. s.map \in Maps /\ s.list \in SUBSET Items
  BY DEF SortedSet
<1>2. /\ map \in Maps /\ DOMAIN map = DOMAIN s.map \ ms
      /\ \A y \in DOMAIN s.map \ ms : map[y] = s.map[y]
  BY <1>1, WithoutIs, Zenon
<1>3. r \in SortedSet
  <2> HIDE DEF map
  <2> QED
    BY <1>1, <1>2, SetOfTwo
<1>4. r.map = map /\ r.list = list
  OBVIOUS
<1> HIDE DEF map, r
<1>5. ASSUME Listed(s) PROVE Listed(r)
  <2>1. ASSUME NEW y \in DOMAIN map PROVE \E i \in list : i[2] = y
    <3>1. PICK i \in s.list : i[2] = y
      BY <1>2, <1>5 DEF Listed
    <3>2. i \notin gone
      BY <1>2, <3>1
    <3> QED
      BY <3>1, <3>2
  <2> QED
    BY <1>4, <2>1 DEF Listed
<1>6. ASSUME Aligned(s), \A i \in s.list : i[2] \in ms => i \in gone PROVE Aligned(r)
  <2>1. \A i \in Items : i \in s.list <=> i[2] \in DOMAIN s.map /\ s.map[i[2]] = i[1]
    BY <1>1, <1>6, ItemsAre DEF Aligned
  <2>2. ASSUME NEW i \in Items PROVE i \in list <=> i \in ItemsOf(map)
    <3>1. i \in ItemsOf(map) <=> i[2] \in DOMAIN map /\ map[i[2]] = i[1]
      BY <1>2, ItemsAre
    <3>2. i \in list <=> i \in s.list /\ i[2] \notin ms
      BY <1>6
    <3> HIDE DEF list
    <3> QED
      BY <1>2, <2>1, <3>1, <3>2
  <2>3. ItemsOf(map) \in SUBSET Items /\ list \in SUBSET Items
    BY <1>1, <1>2, ItemsAre
  <2> HIDE DEF list
  <2>4. list = ItemsOf(map)
    BY <2>2, <2>3
  <2> QED
    BY <1>4, <2>4 DEF Aligned
<1> QED
  BY <1>3, <1>5, <1>6 DEF r, map

\* ZREM.
LEMMA RemovedKeeps ==
  ASSUME NEW s \in SortedSet, NEW ms
  PROVE  /\ Removed(s, ms) \in SortedSet
         /\ Listed(s) => Listed(Removed(s, ms))
         /\ Aligned(s) => Aligned(Removed(s, ms))
<1> DEFINE those == ms \cap DOMAIN s.map
           gone == {<<s.map[m], m>> : m \in those}
<1>1. Removed(s, ms) = [map |-> Without(s.map, those), list |-> s.list \ gone]
  BY DEF Removed
<1>2. \A i \in gone \cap s.list : i[2] \in those
  OBVIOUS
<1>3. ASSUME Aligned(s), NEW i \in s.list, i[2] \in those PROVE i \in gone
  <2>1. \E m \in DOMAIN s.map : i = <<s.map[m], m>>
    BY <1>3 DEF Aligned, ItemsOf
  <2> QED
    BY <1>3, <2>1
<1> HIDE DEF those, gone
<1> QED
  BY <1>1, <1>2, <1>3, TakenKeeps

-----------------------------------------------------------------------------
(* The list in its order.                                                  *)

\* How many items of a list come before one.
Below(list, i) == {j \in list : Less(j, i)}

LEMMA ItemsAreFinite == IsFiniteSet(Items)
<1>1. IsFiniteSet(Scores)
  BY MaxScoreAssumption, FS_Interval DEF Scores
<1> QED
  BY <1>1, MembersAssumption, FS_Product DEF Items

LEMMA LessOrders ==
  /\ \A i \in Items : i[1] \in Nat /\ i[2] \in Nat /\ ~Less(i, i)
  /\ \A i, j \in Items : i = j \/ Less(i, j) \/ Less(j, i)
  /\ \A i, j, k \in Items : Less(i, j) /\ Less(j, k) => Less(i, k)
<1>1. \A i \in Items : i[1] \in Nat /\ i[2] \in Nat /\ i = <<i[1], i[2]>>
  <2>1. \A i \in Items : i[1] \in Scores /\ i[2] \in Members /\ i = <<i[1], i[2]>>
    BY DEF Items
  <2>2. \A x \in Scores : x \in Nat
    BY MaxScoreAssumption DEF Scores
  <2> QED
    BY <2>1, <2>2, MembersAssumption
<1>2. \A i, j \in Items : i[1] = j[1] /\ i[2] = j[2] => i = j
  <2>1. ASSUME NEW i \in Items, NEW j \in Items, i[1] = j[1], i[2] = j[2] PROVE i = j
    <3>1. i = <<i[1], i[2]>> /\ j = <<j[1], j[2]>>
      BY <1>1
    <3> QED
      BY <2>1, <3>1
  <2> QED
    BY <2>1
<1> QED
  BY <1>1, <1>2 DEF Less

LEMMA BelowGrows ==
  ASSUME NEW list \in SUBSET Items, NEW i \in list, NEW j \in list, Less(i, j)
  PROVE  Cardinality(Below(list, i)) < Cardinality(Below(list, j))
<1>1. IsFiniteSet(list)
  BY ItemsAreFinite, FS_Subset
<1>2. IsFiniteSet(Below(list, i)) /\ IsFiniteSet(Below(list, j))
  <2>1. Below(list, i) \in SUBSET list /\ Below(list, j) \in SUBSET list
    BY DEF Below
  <2> QED
    BY <1>1, <2>1, FS_Subset
<1>3. Below(list, i) \in SUBSET Below(list, j)
  BY LessOrders DEF Below
<1>4. i \in Below(list, j) /\ i \notin Below(list, i)
  BY LessOrders DEF Below
<1>5. /\ Cardinality(Below(list, i)) <= Cardinality(Below(list, j))
      /\ Cardinality(Below(list, i)) # Cardinality(Below(list, j))
  BY <1>2, <1>3, <1>4, FS_Subset
<1>6. Cardinality(Below(list, i)) \in Nat /\ Cardinality(Below(list, j)) \in Nat
  BY <1>2, FS_CardinalityType
<1> QED
  BY <1>5, <1>6

\* As many ranks as items.
LEMMA RanksAre ==
  ASSUME NEW n \in Nat
  PROVE  IsFiniteSet(0 .. n - 1) /\ Cardinality(0 .. n - 1) = n
BY FS_Interval

\* Sorted finds an item for each place, and each item has one.
LEMMA SortedIs ==
  ASSUME NEW list \in SUBSET Items
  PROVE  LET l == Sorted(list)
             len == Cardinality(list)
         IN  /\ len \in Nat /\ l \in [1 .. len -> list]
             /\ \A n \in 1 .. len : Cardinality(Below(list, l[n])) = n - 1
             /\ \A i \in list : /\ Cardinality(Below(list, i)) \in 0 .. len - 1
                                /\ l[Cardinality(Below(list, i)) + 1] = i
<1> DEFINE l == Sorted(list)
           len == Cardinality(list)
           rank == [i \in list |-> Cardinality(Below(list, i))]
           P(n, i) == i \in list /\ Cardinality(Below(list, i)) = n - 1
<1>1. IsFiniteSet(list) /\ len \in Nat
  BY ItemsAreFinite, FS_Subset, FS_CardinalityType
<1>2. ASSUME NEW i \in list PROVE rank[i] \in 0 .. len - 1
  <2>1. Below(list, i) \in SUBSET list /\ i \notin Below(list, i)
    BY LessOrders DEF Below
  <2>2. /\ IsFiniteSet(Below(list, i)) /\ Cardinality(Below(list, i)) <= len
        /\ Cardinality(Below(list, i)) # len
    BY <1>1, <2>1, FS_Subset
  <2>3. Cardinality(Below(list, i)) \in Nat
    BY <2>2, FS_CardinalityType
  <2> QED
    BY <1>1, <2>2, <2>3
<1>3. rank \in [list -> 0 .. len - 1]
  BY <1>2
<1>4. \A i, j \in list : rank[i] = rank[j] => i = j
  <2>1. ASSUME NEW i \in list, NEW j \in list, i # j PROVE rank[i] # rank[j]
    <3>1. Less(i, j) \/ Less(j, i)
      BY <2>1, LessOrders
    <3>2. rank[i] < rank[j] \/ rank[j] < rank[i]
      BY <3>1, BelowGrows
    <3>3. rank[i] \in Int /\ rank[j] \in Int
      BY <1>3
    <3> HIDE DEF rank
    <3> QED
      BY <3>2, <3>3
  <2> QED
    BY <2>1
<1> HIDE DEF rank
<1>5. rank \in Surjection(list, 0 .. len - 1)
  <2>1. rank \in Injection(list, 0 .. len - 1)
    BY <1>3, <1>4 DEF Injection, IsInjective
  <2>2. IsFiniteSet(0 .. len - 1) /\ Cardinality(0 .. len - 1) = len
    BY <1>1, RanksAre
  <2>3. Cardinality(list) = Cardinality(0 .. len - 1)
                <=> rank \in Surjection(list, 0 .. len - 1)
    BY <2>1, <2>2, FS_Injection
  <2> QED
    BY <2>2, <2>3
<1>6. \A n \in 1 .. len : \E i : P(n, i)
  <2>1. ASSUME NEW n \in 1 .. len PROVE \E i : P(n, i)
    <3>1. n - 1 \in 0 .. len - 1
      BY <1>1
    <3>2. PICK i \in list : rank[i] = n - 1
      BY <1>5, <3>1 DEF Surjection
    <3>3. Cardinality(Below(list, i)) = n - 1
      BY <3>2 DEF rank
    <3> QED
      BY <3>3
  <2> QED
    BY <2>1
<1>7. \A n \in 1 .. len : P(n, CHOOSE i : P(n, i))
  BY <1>6
<1>8. l = [n \in 1 .. len |-> CHOOSE i : P(n, i)]
  <2> DEFINE c(n) == CHOOSE i \in list : Cardinality({j \in list : Less(j, i)}) = n - 1
             d(n) == CHOOSE i : P(n, i)
  <2>1. l = [n \in 1 .. len |-> c(n)]
    BY Zenon DEF Sorted
  <2>2. \A n \in 1 .. len : c(n) = d(n)
    BY DEF Below
  <2> HIDE DEF l, len, c, d
  <2>3. l = [n \in 1 .. len |-> d(n)]
    BY <2>1, <2>2
  <2> QED
    BY <2>3 DEF d
<1> HIDE DEF l, P
<1>9. \A n \in 1 .. len : P(n, l[n])
  BY <1>7, <1>8
<1>10. l \in [1 .. len -> list] /\ \A n \in 1 .. len : Cardinality(Below(list, l[n])) = n - 1
  BY <1>8, <1>9 DEF P
<1>11. ASSUME NEW i \in list PROVE l[Cardinality(Below(list, i)) + 1] = i
  <2>1. rank[i] \in 0 .. len - 1 /\ rank[i] = Cardinality(Below(list, i))
    BY <1>3 DEF rank
  <2>2. rank[i] + 1 \in 1 .. len /\ (rank[i] + 1) - 1 = rank[i]
    BY <1>1, <2>1
  <2>3. l[rank[i] + 1] \in list /\ Cardinality(Below(list, l[rank[i] + 1])) = rank[i]
    BY <1>10, <2>2
  <2>4. rank[l[rank[i] + 1]] = rank[i]
    BY <2>3 DEF rank
  <2> QED
    BY <1>4, <2>1, <2>3, <2>4
<1>12. \A i \in list : Cardinality(Below(list, i)) \in 0 .. len - 1
  BY <1>3 DEF rank
<1> QED
  BY <1>1, <1>10, <1>11, <1>12 DEF l

LEMMA SortedOrder ==
  ASSUME NEW list \in SUBSET Items, NEW m \in 1 .. Cardinality(list),
         NEW n \in 1 .. Cardinality(list)
  PROVE  Less(Sorted(list)[m], Sorted(list)[n]) <=> m < n
<1> DEFINE l == Sorted(list)
           rank(i) == Cardinality(Below(list, i))
<1>1. /\ Cardinality(list) \in Nat /\ l[m] \in list /\ l[n] \in list
      /\ rank(l[m]) = m - 1 /\ rank(l[n]) = n - 1
  BY SortedIs
<1>2. m \in Int /\ n \in Int
  BY <1>1
<1> HIDE DEF l
<1>3. /\ Less(l[m], l[n]) => m - 1 < n - 1
      /\ Less(l[n], l[m]) => n - 1 < m - 1
  BY <1>1, BelowGrows
<1>4. l[m] = l[n] => m - 1 = n - 1
  BY <1>1
<1>5. l[m] = l[n] \/ Less(l[m], l[n]) \/ Less(l[n], l[m])
  BY <1>1, LessOrders
<1> QED
  BY <1>2, <1>3, <1>4, <1>5 DEF l

\* Whatever is in the order of a list, and goes over all of it, is the list sorted.
LEMMA SortedOnly ==
  ASSUME NEW W \in SUBSET Items, NEW N \in Nat, NEW q \in [1 .. N -> W],
         \A i \in W : \E n \in 1 .. N : q[n] = i,
         \A m, n \in 1 .. N : m < n => Less(q[m], q[n])
  PROVE  Cardinality(W) = N /\ Sorted(W) = q
<1>1. \A m, n \in 1 .. N : q[m] = q[n] => m = n
  <2>1. ASSUME NEW m \in 1 .. N, NEW n \in 1 .. N, m # n PROVE q[m] # q[n]
    <3>1. m < n \/ n < m
      BY <2>1
    <3>2. Less(q[m], q[n]) \/ Less(q[n], q[m])
      BY <3>1
    <3>3. q[m] \in Items /\ q[n] \in Items
      OBVIOUS
    <3> QED
      BY <3>2, <3>3, LessOrders
  <2> QED
    BY <2>1
<1>2. q \in Bijection(1 .. N, W)
  BY <1>1 DEF Bijection, Injection, Surjection, IsInjective
<1>3. Cardinality(W) = N
  <2>1. IsFiniteSet(1 .. N) /\ Cardinality(1 .. N) = N
    BY FS_Interval
  <2> QED
    BY <1>2, <2>1, FS_Bijection DEF ExistsBijection
<1>4. ASSUME NEW n \in 1 .. N PROVE Cardinality(Below(W, q[n])) = n - 1
  <2> DEFINE r == [m \in 1 .. n - 1 |-> q[m]]
  <2>1. \A m \in 1 .. N : Less(q[m], q[n]) <=> m < n
    <3>1. ASSUME NEW m \in 1 .. N, ~ m < n PROVE ~ Less(q[m], q[n])
      <4>1. m = n \/ n < m
        BY <3>1
      <4>2. q[m] = q[n] \/ Less(q[n], q[m])
        BY <4>1
      <4>3. q[m] \in Items /\ q[n] \in Items
        OBVIOUS
      <4> QED
        BY <4>2, <4>3, LessOrders
    <3> QED
      BY <3>1
  <2>2. 1 .. n - 1 \in SUBSET (1 .. N) /\ \A m \in 1 .. N : m < n <=> m \in 1 .. n - 1
    OBVIOUS
  <2>3. r \in [1 .. n - 1 -> Below(W, q[n])]
    BY <2>1, <2>2 DEF Below
  <2>4. \A i \in Below(W, q[n]) : \E m \in 1 .. n - 1 : r[m] = i
    BY <2>1, <2>2 DEF Below
  <2>5. \A k, m \in 1 .. n - 1 : r[k] = r[m] => k = m
    BY <1>1, <2>2
  <2> HIDE DEF r
  <2>6. r \in Bijection(1 .. n - 1, Below(W, q[n]))
    BY <2>3, <2>4, <2>5 DEF Bijection, Injection, Surjection, IsInjective
  <2>7. IsFiniteSet(1 .. n - 1) /\ Cardinality(1 .. n - 1) = n - 1
    BY FS_Interval
  <2> QED
    BY <2>6, <2>7, FS_Bijection DEF ExistsBijection
<1>5. ASSUME NEW n \in 1 .. N PROVE Sorted(W)[n] = q[n]
  <2>1. Sorted(W)[Cardinality(Below(W, q[n])) + 1] = q[n]
    BY SortedIs
  <2>2. Cardinality(Below(W, q[n])) + 1 = n
    BY <1>4
  <2> QED
    BY <2>1, <2>2
<1>6. Sorted(W) \in [1 .. N -> W]
  BY <1>3, SortedIs
<1> QED
  BY <1>3, <1>5, <1>6

\* A part of the list, sorted, is that part of the list sorted.
LEMMA SortedPart ==
  ASSUME NEW list \in SUBSET Items, NEW a \in Nat, NEW b \in Nat,
         a <= b, b <= Cardinality(list)
  PROVE  LET l == Sorted(list)
             W == {l[n] : n \in a + 1 .. b}
         IN  Cardinality(W) = b - a /\ Sorted(W) = SubSeq(l, a + 1, b)
<1> DEFINE l == Sorted(list)
           W == {l[n] : n \in a + 1 .. b}
           q == SubSeq(l, a + 1, b)
<1>1. Cardinality(list) \in Nat /\ l \in [1 .. Cardinality(list) -> list]
  BY SortedIs
<1>2. \A m, n \in 1 .. Cardinality(list) : m < n => Less(l[m], l[n])
  BY SortedOrder
<1> HIDE DEF l
<1>3. q = [n \in 1 .. b - a |-> l[n + a]]
  <2>1. l \in Seq(list) /\ Len(l) = Cardinality(list)
    BY <1>1
  <2>2. a + 1 \in 1 .. Len(l) + 1 /\ b \in (a + 1) - 1 .. Len(l)
    BY <1>1, <2>1
  <2>3. /\ q \in Seq(list) /\ Len(q) = b - (a + 1) + 1
        /\ \A n \in 1 .. b - (a + 1) + 1 : q[n] = l[(a + 1) + n - 1]
    BY <2>1, <2>2, SubSeqProperties
  <2>4. b - (a + 1) + 1 = b - a /\ \A n \in 1 .. b - a : (a + 1) + n - 1 = n + a
    OBVIOUS
  <2> HIDE DEF q
  <2>5. q = [n \in 1 .. Len(q) |-> q[n]]
    BY <2>3
  <2> QED
    BY <2>3, <2>4, <2>5
<1>4. b - a \in Nat /\ \A n \in 1 .. b - a : n + a \in 1 .. Cardinality(list) /\ n + a \in a + 1 .. b
  BY <1>1
<1>5. W \in SUBSET Items
  <2>1. a + 1 .. b \in SUBSET (1 .. Cardinality(list))
    BY <1>1
  <2> QED
    BY <1>1, <2>1
<1>6. q \in [1 .. b - a -> W]
  BY <1>3, <1>4
<1>7. \A i \in W : \E n \in 1 .. b - a : q[n] = i
  <2>1. ASSUME NEW m \in a + 1 .. b PROVE \E n \in 1 .. b - a : q[n] = l[m]
    <3>1. m - a \in 1 .. b - a /\ (m - a) + a = m
      OBVIOUS
    <3> QED
      BY <1>3, <3>1
  <2> QED
    BY <2>1
<1>8. \A m, n \in 1 .. b - a : m < n => Less(q[m], q[n])
  <2>1. ASSUME NEW m \in 1 .. b - a, NEW n \in 1 .. b - a, m < n PROVE Less(q[m], q[n])
    <3>1. m + a < n + a
      BY <2>1
    <3> QED
      BY <1>2, <1>3, <1>4, <3>1
  <2> QED
    BY <2>1
<1> HIDE DEF q, W
<1>9. Cardinality(W) = b - a /\ Sorted(W) = q
  BY <1>4, <1>5, <1>6, <1>7, <1>8, SortedOnly
<1> QED
  BY <1>9 DEF q, W, l

-----------------------------------------------------------------------------
(* The binary search.                                                      *)

LEMMA Halves ==
  ASSUME NEW n \in Nat, n # 0
  PROVE  n \div 2 \in 0 .. n - 1
OBVIOUS

\* The stretches of a list: where one begins and how many items it has.
Stretches(len) == {s \in (0 .. len) \X (0 .. len) : s[1] + s[2] <= len}

LEMMA StretchesAre ==
  ASSUME NEW len \in Nat
  PROVE  /\ \A s \in Stretches(len) : /\ s[1] \in 0 .. len /\ s[2] \in 0 .. len
                                      /\ s[1] + s[2] <= len
         /\ \A i, n \in 0 .. len : i + n <= len => <<i, n>> \in Stretches(len)
BY DEF Stretches

\* h is how far a search of a stretch gets, p being the places whose items
\* are before the limit.
Search(h, len, p) ==
    \A s \in Stretches(len) :
        LET step == s[2] \div 2
        IN  h[s] = IF s[2] = 0
                      THEN s[1]
                      ELSE IF s[1] + step + 1 \in p
                              THEN h[<<s[1] + step + 1, s[2] - (step + 1)>>]
                              ELSE h[<<s[1], step>>]

\* A stretch is halved within itself.
LEMMA HalfStretches ==
  ASSUME NEW len \in Nat, NEW s \in Stretches(len), s[2] # 0
  PROVE  LET step == s[2] \div 2
         IN  /\ step \in 0 .. s[2] - 1
             /\ s[1] + step + 1 \in 1 .. len
             /\ s[2] - (step + 1) \in 0 .. s[2] - 1
             /\ <<s[1] + step + 1, s[2] - (step + 1)>> \in Stretches(len)
             /\ <<s[1], step>> \in Stretches(len)
<1> DEFINE step == s[2] \div 2
<1>1. s[1] \in 0 .. len /\ s[2] \in 0 .. len /\ s[1] + s[2] <= len
  BY StretchesAre
<1>2. step \in 0 .. s[2] - 1
  BY <1>1, Halves
<1> HIDE DEF step
<1>3. /\ s[1] + step + 1 \in 1 .. len
      /\ s[2] - (step + 1) \in 0 .. s[2] - 1
      /\ (s[1] + step + 1) + (s[2] - (step + 1)) <= len
      /\ s[1] + step <= len
  BY <1>1, <1>2
<1>4. /\ <<s[1] + step + 1, s[2] - (step + 1)>> \in Stretches(len)
      /\ <<s[1], step>> \in Stretches(len)
  BY <1>1, <1>2, <1>3, StretchesAre
<1> QED
  BY <1>2, <1>3, <1>4 DEF step

LEMMA SearchExists ==
  ASSUME NEW len \in Nat, NEW p
  PROVE  \E h : h \in [Stretches(len) -> 0 .. len] /\ Search(h, len, p)
<1> DEFINE D == Stretches(len)
           V == 0 .. len
           size == [s \in D |-> s[2]]
           body(g, s) == IF s[2] = 0
                            THEN s[1]
                            ELSE IF s[1] + s[2] \div 2 + 1 \in p
                                    THEN g[<<s[1] + s[2] \div 2 + 1, s[2] - (s[2] \div 2 + 1)>>]
                                    ELSE g[<<s[1], s[2] \div 2>>]
           B == [q \in [D -> V] \X D |-> body(q[1], q[2])]
<1>1. size \in [D -> 0 .. len]
  BY StretchesAre
<1>2. ASSUME NEW g \in [D -> V], NEW s \in D PROVE body(g, s) \in V
  <2> HIDE DEF D
  <2>1. CASE s[2] = 0
    BY <2>1, StretchesAre DEF D
  <2>2. CASE s[2] # 0
    BY <2>2, HalfStretches DEF D
  <2> QED
    BY <2>1, <2>2
<1>3. B \in [[D -> V] \X D -> V]
  <2> HIDE DEF body, D, V
  <2> QED
    BY <1>2
<1>4. ASSUME NEW g \in [D -> V], NEW s \in D PROVE B[<<g, s>>] = body(g, s)
  <2> HIDE DEF body, D, V
  <2> QED
    OBVIOUS
<1>5. ASSUME NEW g \in [D -> V], NEW h \in [D -> V], NEW s \in D,
             \A u \in D : size[u] < size[s] => g[u] = h[u]
      PROVE  body(g, s) = body(h, s)
  <2>1. CASE s[2] = 0
    BY <2>1
  <2>2. CASE s[2] # 0
    <3> DEFINE u == <<s[1] + s[2] \div 2 + 1, s[2] - (s[2] \div 2 + 1)>>
               w == <<s[1], s[2] \div 2>>
    <3>1. u \in D /\ w \in D
      BY <2>2, HalfStretches
    <3>2. u[2] < s[2] /\ w[2] < s[2]
      <4>1. /\ s[2] \div 2 \in 0 .. s[2] - 1
            /\ s[2] - (s[2] \div 2 + 1) \in 0 .. s[2] - 1
        BY <2>2, HalfStretches
      <4>2. s[2] \in Nat
        BY StretchesAre
      <4> QED
        BY <4>1, <4>2
    <3> HIDE DEF u, w
    <3>3. size[u] < size[s] /\ size[w] < size[s]
      BY <3>1, <3>2
    <3>4. g[u] = h[u] /\ g[w] = h[w]
      BY <1>5, <3>1, <3>3
    <3> QED
      BY <2>2, <3>4 DEF u, w
  <2> QED
    BY <2>1, <2>2
<1> HIDE DEF B, size, body, D, V
<1>6. Recursion(D, V, len, size, B)
  BY <1>1, <1>3, <1>4, <1>5 DEF Recursion
<1>7. 0 \in V
  BY DEF V
<1>8. PICK h : Solves(h, D, V, B)
  BY <1>6, <1>7, RecursionExists
<1>9. h \in [D -> V] /\ \A s \in D : h[s] = body(h, s)
  BY <1>4, <1>8 DEF Solves
<1>10. Search(h, len, p)
  BY <1>9 DEF Search, body, D
<1> QED
  BY <1>9, <1>10 DEF D, V

\* Bound is such a search of the whole list.
LEMMA BoundSearches ==
  ASSUME NEW l, Len(l) \in Nat, NEW f, NEW lower, NEW limit
  PROVE  \E h : /\ Search(h, Len(l), {i \in 1 .. Len(l) : Before(lower, limit, l[i][f])})
                /\ Bound(l, f, lower, limit) = h[<<0, Len(l)>>]
<1> DEFINE D == {s \in (0 .. Len(l)) \X (0 .. Len(l)) : s[1] + s[2] <= Len(l)}
           p == {i \in 1 .. Len(l) : Before(lower, limit, l[i][f])}
           body(h, s) == IF s[2] = 0
                            THEN s[1]
                            ELSE IF Before(lower, limit, l[s[1] + s[2] \div 2 + 1][f])
                                    THEN h[<<s[1] + s[2] \div 2 + 1, s[2] - (s[2] \div 2 + 1)>>]
                                    ELSE h[<<s[1], s[2] \div 2>>]
           Fix(h) == h = [s \in D |-> body(h, s)]
           search == CHOOSE h : Fix(h)
<1>1. Bound(l, f, lower, limit) = search[<<0, Len(l)>>]
  BY Zenon DEF Bound
<1>2. D = Stretches(Len(l))
  BY DEF Stretches
<1>3. ASSUME NEW h, NEW s \in D
      PROVE  body(h, s) = IF s[2] = 0
                             THEN s[1]
                             ELSE IF s[1] + s[2] \div 2 + 1 \in p
                                     THEN h[<<s[1] + s[2] \div 2 + 1, s[2] - (s[2] \div 2 + 1)>>]
                                     ELSE h[<<s[1], s[2] \div 2>>]
  <2>1. CASE s[2] = 0
    BY <2>1
  <2>2. CASE s[2] # 0
    <3>1. s[1] + s[2] \div 2 + 1 \in 1 .. Len(l)
      BY <1>2, <2>2, HalfStretches
    <3>2. s[1] + s[2] \div 2 + 1 \in p <=> Before(lower, limit, l[s[1] + s[2] \div 2 + 1][f])
      BY <3>1
    <3> HIDE DEF p
    <3> QED
      BY <2>2, <3>2
  <2> QED
    BY <2>1, <2>2
<1> HIDE DEF D, p, body
<1>4. PICK g : g \in [D -> 0 .. Len(l)] /\ Search(g, Len(l), p)
  BY <1>2, SearchExists
<1>5. \A s \in D : g[s] = body(g, s)
  BY <1>2, <1>3, <1>4 DEF Search
<1>6. Fix(g)
  BY <1>4, <1>5
<1>7. Fix(search)
  <2> HIDE DEF Fix
  <2> QED
    BY <1>6, Zenon
<1> HIDE DEF search
<1>8. \A s \in D : search[s] = body(search, s)
  <2> DEFINE e(s) == body(search, s)
  <2>1. search = [s \in D |-> e(s)]
    BY <1>7, Zenon
  <2> HIDE DEF e
  <2>2. \A s \in D : search[s] = e(s)
    BY <2>1
  <2> QED
    BY <2>2 DEF e
<1>9. Search(search, Len(l), p)
  BY <1>2, <1>3, <1>8 DEF Search
<1> QED
  BY <1>1, <1>9 DEF p

\* A search stays in the list, and finds where the items before the limit end.
LEMMA SearchFinds ==
  ASSUME NEW len \in Nat, NEW p, NEW h, Search(h, len, p)
  PROVE  /\ h[<<0, len>>] \in 0 .. len
         /\ \A c \in 0 .. len :
               (\A i \in 1 .. len : i \in p <=> i <= c) => h[<<0, len>>] = c
<1> DEFINE Within(s) == /\ h[s] \in s[1] .. s[1] + s[2]
                        /\ \A c \in s[1] .. s[1] + s[2] :
                              (\A i \in 1 .. len : i \in p <=> i <= c) => h[s] = c
           Done == {n \in Nat : \A s \in Stretches(len) : s[2] <= n => Within(s)}
<1>1. ASSUME NEW s \in Stretches(len), s[2] = 0 PROVE Within(s)
  <2>1. s[1] \in 0 .. len /\ h[s] = s[1]
    BY <1>1, StretchesAre DEF Search
  <2> QED
    BY <1>1, <2>1
<1>2. 0 \in Done
  <2>1. \A s \in Stretches(len) : s[2] <= 0 => s[2] = 0
    BY StretchesAre
  <2> HIDE DEF Within
  <2> QED
    BY <1>1, <2>1
<1>3. ASSUME NEW n \in Nat, n \in Done PROVE n + 1 \in Done
  <2>1. ASSUME NEW s \in Stretches(len), s[2] <= n + 1, s[2] # 0 PROVE Within(s)
    <3> DEFINE step == s[2] \div 2
               u == <<s[1] + step + 1, s[2] - (step + 1)>>
               w == <<s[1], step>>
    <3>1. s[1] \in 0 .. len /\ s[2] \in 0 .. len /\ s[1] + s[2] <= len
      BY StretchesAre
    <3>2. /\ step \in 0 .. s[2] - 1
          /\ s[1] + step + 1 \in 1 .. len
          /\ s[2] - (step + 1) \in 0 .. s[2] - 1
          /\ u \in Stretches(len)
          /\ w \in Stretches(len)
      BY <2>1, HalfStretches
    <3>3. h[s] = IF s[1] + step + 1 \in p THEN h[u] ELSE h[w]
      BY <2>1 DEF Search
    <3>4. u[1] = s[1] + step + 1 /\ u[2] = s[2] - (step + 1) /\ w[1] = s[1] /\ w[2] = step
      OBVIOUS
    <3> HIDE DEF step, u, w
    <3>5. u[2] <= n /\ w[2] <= n
      BY <2>1, <3>1, <3>2, <3>4
    <3>6. Within(u) /\ Within(w)
      <4> HIDE DEF Within
      <4> QED
        BY <1>3, <3>2, <3>5
    <3>7. u[1] + u[2] = s[1] + s[2] /\ w[1] + w[2] <= s[1] + s[2]
      BY <3>1, <3>2, <3>4
    <3>8. CASE s[1] + step + 1 \in p
      <4>1. h[s] = h[u] /\ h[u] \in u[1] .. s[1] + s[2]
        BY <3>3, <3>6, <3>7, <3>8
      <4>2. h[s] \in s[1] .. s[1] + s[2]
        BY <3>1, <3>2, <3>4, <4>1
      <4>3. ASSUME NEW c \in s[1] .. s[1] + s[2], \A i \in 1 .. len : i \in p <=> i <= c
            PROVE  h[s] = c
        <5>1. s[1] + step + 1 <= c
          BY <3>2, <3>8, <4>3
        <5>2. c \in u[1] .. u[1] + u[2]
          BY <3>1, <3>2, <3>4, <3>7, <5>1
        <5> QED
          BY <3>6, <4>1, <4>3, <5>2
      <4> QED
        BY <4>2, <4>3
    <3>9. CASE s[1] + step + 1 \notin p
      <4>1. h[s] = h[w] /\ h[w] \in s[1] .. s[1] + step
        BY <3>3, <3>4, <3>6, <3>9
      <4>2. h[s] \in s[1] .. s[1] + s[2]
        BY <3>1, <3>2, <4>1
      <4>3. ASSUME NEW c \in s[1] .. s[1] + s[2], \A i \in 1 .. len : i \in p <=> i <= c
            PROVE  h[s] = c
        <5>1. ~ (s[1] + step + 1 <= c)
          BY <3>2, <3>9, <4>3
        <5>2. c \in w[1] .. w[1] + w[2]
          BY <3>1, <3>2, <3>4, <5>1
        <5> QED
          BY <3>6, <4>1, <4>3, <5>2
      <4> QED
        BY <4>2, <4>3
    <3> QED
      BY <3>8, <3>9
  <2> HIDE DEF Within
  <2> QED
    BY <1>1, <2>1
<1>4. len \in Done
  <2> HIDE DEF Done
  <2> QED
    BY <1>2, <1>3, Inductive
<1>5. <<0, len>> \in Stretches(len)
  BY StretchesAre
<1>6. Within(<<0, len>>)
  <2> HIDE DEF Within
  <2> QED
    BY <1>4, <1>5
<1> QED
  BY <1>6

\* A bound is in the list or at its end, whatever the limit.
LEMMA BoundWithin ==
  ASSUME NEW l, Len(l) \in Nat, NEW f, NEW lower, NEW limit
  PROVE  Bound(l, f, lower, limit) \in 0 .. Len(l)
<1> DEFINE p == {i \in 1 .. Len(l) : Before(lower, limit, l[i][f])}
<1>1. PICK h : Search(h, Len(l), p) /\ Bound(l, f, lower, limit) = h[<<0, Len(l)>>]
  BY BoundSearches
<1> HIDE DEF p
<1> QED
  BY <1>1, SearchFinds

\* If what is before the limit is the beginning of the list, the bound is its end.
LEMMA BoundFinds ==
  ASSUME NEW l, Len(l) \in Nat, NEW f, NEW lower, NEW limit, NEW c \in 0 .. Len(l),
         \A i \in 1 .. Len(l) : Before(lower, limit, l[i][f]) <=> i <= c
  PROVE  Bound(l, f, lower, limit) = c
<1> DEFINE p == {i \in 1 .. Len(l) : Before(lower, limit, l[i][f])}
<1>1. PICK h : Search(h, Len(l), p) /\ Bound(l, f, lower, limit) = h[<<0, Len(l)>>]
  BY BoundSearches
<1>2. \A i \in 1 .. Len(l) : i \in p <=> i <= c
  OBVIOUS
<1> HIDE DEF p
<1> QED
  BY <1>1, <1>2, SearchFinds

-----------------------------------------------------------------------------
(* The removals by rank.                                                   *)

\* What a removal of the ranks from first to last leaves.
LEMMA RanksKeep ==
  ASSUME NEW s \in SortedSet, NEW first \in Int, NEW last \in Int
  PROVE  LET l == Sorted(s.list)
             doomed == {l[i + 1] : i \in first .. last}
             r == [map |-> Without(s.map, {i[2] : i \in doomed}), list |-> s.list \ doomed]
         IN  /\ r \in SortedSet
             /\ Listed(s) => Listed(r)
             /\ Aligned(s) /\ 0 <= first /\ last < Cardinality(s.list) => Aligned(r)
<1> DEFINE l == Sorted(s.list)
           doomed == {l[i + 1] : i \in first .. last}
           ms == {i[2] : i \in doomed}
<1>1. s.list \in SUBSET Items
  BY DEF SortedSet
<1>2. \A i \in doomed \cap s.list : i[2] \in ms
  OBVIOUS
<1>3. ASSUME Aligned(s), 0 <= first, last < Cardinality(s.list),
             NEW i \in s.list, i[2] \in ms
      PROVE  i \in doomed
  <2>1. PICK j \in doomed : j[2] = i[2]
    BY <1>3
  <2>2. PICK n \in first .. last : j = l[n + 1]
    BY <2>1
  <2>3. Cardinality(s.list) \in Nat /\ l \in [1 .. Cardinality(s.list) -> s.list]
    BY <1>1, SortedIs
  <2>4. j \in s.list
    <3>1. n + 1 \in 1 .. Cardinality(s.list)
      BY <1>3, <2>3
    <3> HIDE DEF l
    <3> QED
      BY <2>2, <2>3, <3>1
  <2>5. \A k \in s.list : \E m \in DOMAIN s.map : k = <<s.map[m], m>>
    BY <1>3 DEF Aligned, ItemsOf
  <2>6. i = j
    BY <2>1, <2>4, <2>5
  <2> QED
    BY <2>1, <2>6
<1> HIDE DEF doomed, ms
<1>4. LET r == [map |-> Without(s.map, ms), list |-> s.list \ doomed]
      IN  /\ r \in SortedSet
          /\ Listed(s) => Listed(r)
          /\ Aligned(s) /\ (\A i \in s.list : i[2] \in ms => i \in doomed) => Aligned(r)
  BY <1>2, TakenKeeps
<1> QED
  BY <1>3, <1>4 DEF doomed, ms, l

\* The indexes of a range by rank are in the list.
LEMMA NormalizedRange ==
  ASSUME NEW start \in Int, NEW end \in Int, NEW len \in Nat
  PROVE  LET range == Normalized(start, end, len)
         IN  /\ range.start \in Nat /\ range.end \in Int
             /\ len # 0 => range.end < len
BY DEF Normalized, Index

\* Where the indexes agree, they have the same size.
LEMMA AlignedSizes ==
  ASSUME NEW s \in SortedSet, Aligned(s)
  PROVE  Cardinality(DOMAIN s.map) = Cardinality(s.list)
<1> DEFINE b == [m \in DOMAIN s.map |-> <<s.map[m], m>>]
<1>1. DOMAIN s.map \in SUBSET Members
  BY MapsAre DEF SortedSet
<1>2. IsFiniteSet(DOMAIN s.map)
  BY <1>1, MembersAssumption, FS_Subset
<1>3. s.list = {<<s.map[m], m>> : m \in DOMAIN s.map}
  BY DEF Aligned, ItemsOf
<1>4. b \in [DOMAIN s.map -> s.list] /\ \A i \in s.list : \E m \in DOMAIN s.map : b[m] = i
  BY <1>3
<1>5. \A m, n \in DOMAIN s.map : b[m] = b[n] => m = n
  OBVIOUS
<1> HIDE DEF b
<1>6. b \in Bijection(DOMAIN s.map, s.list)
  BY <1>4, <1>5 DEF Bijection, Injection, Surjection, IsInjective
<1> QED
  BY <1>2, <1>6, FS_Bijection DEF ExistsBijection

-----------------------------------------------------------------------------
(* Unions and intersections.                                               *)

\* What a union is before it is known to be in bounds.
Partial == UNION {[ms -> Nat] : ms \in SUBSET Members}

LEMMA PartialAre ==
  /\ \A f \in Partial : DOMAIN f \in SUBSET Members /\ f \in [DOMAIN f -> Nat]
  /\ \A ms \in SUBSET Members : \A f \in [ms -> Nat] : f \in Partial
BY DEF Partial

LEMMA PartialBounded ==
  ASSUME NEW f \in Partial, Bounded(f)
  PROVE  f \in Maps
<1>1. DOMAIN f \in SUBSET Members /\ f \in [DOMAIN f -> Nat]
  BY PartialAre
<1>2. f \in [DOMAIN f -> Scores]
  BY <1>1 DEF Bounded
<1> QED
  BY <1>1, <1>2, MapsAre

LEMMA CombineIs ==
  ASSUME NEW agg \in Aggregates, NEW a \in Nat, NEW b \in Nat
  PROVE  Combine(agg, a, b) \in Nat
BY DEF Combine, Aggregates

\* One more source of a union, whose values so far are acc.
Source(dest, ks, acc, i) == IF ks[i] = dest THEN acc ELSE sets[ks[i]].map

Joined(dest, ks, ws, agg, acc, i) ==
    [m \in DOMAIN acc \cup DOMAIN Source(dest, ks, acc, i) |->
        IF m \in DOMAIN Source(dest, ks, acc, i)
           THEN Met(acc, agg, m, Source(dest, ks, acc, i)[m] * ws[i])
           ELSE acc[m]]

\* The sets of a state have scores that are natural numbers.
LEMMA SetsAre ==
  ASSUME TypeOK, NEW k \in Keys
  PROVE  /\ DOMAIN sets[k].map \in SUBSET Members
         /\ sets[k].map \in [DOMAIN sets[k].map -> Nat]
<1>1. sets[k].map \in Maps
  BY DEF TypeOK
<1>2. \A x \in Scores : x \in Nat
  BY MaxScoreAssumption DEF Scores
<1> QED
  BY <1>1, <1>2, MapsAre

LEMMA JoinedIs ==
  ASSUME TypeOK, NEW dest \in Keys, NEW n \in Nat, NEW ks \in [1 .. n -> Keys],
         NEW ws \in [1 .. n -> Weights], NEW agg \in Aggregates,
         NEW acc \in Partial, NEW i \in 1 .. n
  PROVE  Joined(dest, ks, ws, agg, acc, i) \in Partial
<1> DEFINE source == Source(dest, ks, acc, i)
<1>1. DOMAIN acc \in SUBSET Members /\ acc \in [DOMAIN acc -> Nat]
  BY PartialAre
<1>2. DOMAIN source \in SUBSET Members /\ source \in [DOMAIN source -> Nat]
  BY <1>1, SetsAre DEF Source
<1> HIDE DEF source
<1>3. ASSUME NEW m \in DOMAIN source PROVE Met(acc, agg, m, source[m] * ws[i]) \in Nat
  <2> DEFINE x == source[m] * ws[i]
  <2>1. x \in Nat
    <3>1. source[m] \in Nat /\ ws[i] \in Nat
      BY <1>2, WeightsAssumption
    <3> QED
      BY <3>1
  <2> HIDE DEF x
  <2>2. Met(acc, agg, m, x) \in Nat
    BY <1>1, <2>1, CombineIs DEF Met
  <2> QED
    BY <2>2 DEF x
<1>4. Joined(dest, ks, ws, agg, acc, i) \in [DOMAIN acc \cup DOMAIN source -> Nat]
  BY <1>1, <1>3 DEF Joined, source
<1> QED
  BY <1>1, <1>2, <1>4, PartialAre

\* The loop of a union: u has its values after each number of sources.
Unites(u, n, dest, ks, ws, agg) ==
    /\ u[0] = EmptySet.map
    /\ \A i \in 1 .. n : u[i] = Joined(dest, ks, ws, agg, u[i - 1], i)

LEMMA PrefixIs ==
  ASSUME NEW n \in Nat, NEW i \in 1 .. n
  PROVE  /\ 1 .. i \in SUBSET (1 .. n) /\ 1 .. i # {}
         /\ Max(1 .. i) = i /\ (1 .. i) \ {i} = 1 .. i - 1
<1>1. 1 .. i \in SUBSET (1 .. n) /\ 1 .. i # {} /\ i \in 1 .. i
  OBVIOUS
<1>2. Max(1 .. i) \in 1 .. i /\ \A y \in 1 .. i : y <= Max(1 .. i)
  BY <1>1, Greatest
<1>3. Max(1 .. i) = i
  BY <1>1, <1>2
<1>4. (1 .. i) \ {i} = 1 .. i - 1
  OBVIOUS
<1> QED
  BY <1>1, <1>3, <1>4

LEMMA UnionUnites ==
  ASSUME TypeOK, NEW dest \in Keys, NEW n \in Nat, NEW ks \in [1 .. n -> Keys],
         NEW ws \in [1 .. n -> Weights], NEW agg \in Aggregates
  PROVE  \E u : Unites(u, n, dest, ks, ws, agg) /\ Union(dest, ks, ws, agg) = u[n]
<1> DEFINE op(acc, i) == Joined(dest, ks, ws, agg, acc, i)
           is == [i \in DOMAIN ks |-> i]
           base == EmptySet.map
           F == [q \in Partial \X (1 .. n) |-> op(q[1], is[q[2]])]
           D == SUBSET DOMAIN is
           Fix(h) == h = [s \in D |-> IF s = {}
                                         THEN base
                                         ELSE op(h[s \ {Max(s)}], is[Max(s)])]
           fold == CHOOSE h : Fix(h)
<1>1. DOMAIN is = 1 .. n /\ D = SUBSET (1 .. n) /\ \A i \in 1 .. n : is[i] = i
  OBVIOUS
<1>2. base \in Partial
  <2>1. base \in [{} -> Nat] /\ {} \in SUBSET Members
    BY DEF EmptySet
  <2> QED
    BY <2>1, PartialAre
<1>3. \A acc \in Partial, i \in 1 .. n : op(acc, i) \in Partial
  BY JoinedIs
<1> HIDE DEF op
<1>4. F \in [Partial \X (1 .. n) -> Partial]
  BY <1>1, <1>3
<1>5. \A s \in D : s # {} => Max(s) \in 1 .. n /\ s \ {Max(s)} \in D
  BY <1>1, Greatest
<1>6. \E h : Fix(h)
  <2>1. PICK g : Folding(g, n, Partial, base, F)
    <3> HIDE DEF base, F
    <3> QED
      BY <1>2, <1>4, FoldExists
  <2>2. g \in [D -> Partial]
        /\ \A s \in D : g[s] = IF s = {} THEN base ELSE F[<<g[s \ {Max(s)}], Max(s)>>]
    BY <1>1, <2>1 DEF Folding
  <2>3. ASSUME NEW s \in D
        PROVE  g[s] = IF s = {} THEN base ELSE op(g[s \ {Max(s)}], is[Max(s)])
    <3>1. CASE s = {}
      BY <2>2, <3>1
    <3>2. CASE s # {}
      <4>1. <<g[s \ {Max(s)}], Max(s)>> \in Partial \X (1 .. n)
        BY <1>5, <2>2, <3>2
      <4> HIDE DEF D, is
      <4>2. F[<<g[s \ {Max(s)}], Max(s)>>] = op(g[s \ {Max(s)}], is[Max(s)])
        BY <4>1
      <4> QED
        BY <2>2, <3>2, <4>2
    <3> QED
      BY <3>1, <3>2
  <2>4. Fix(g)
    <3> HIDE DEF D, base, is
    <3> QED
      BY <2>2, <2>3
  <2> QED
    BY <2>4
<1>7. Fix(fold)
  <2> HIDE DEF Fix
  <2> QED
    BY <1>6, Zenon
<1>8. Union(dest, ks, ws, agg) = fold[DOMAIN is]
  BY Zenon DEF Union, FoldLeft, MapThenFoldSet, op, Joined, Source
<1> HIDE DEF fold
<1>9. \A s \in D : fold[s] = IF s = {} THEN base ELSE op(fold[s \ {Max(s)}], is[Max(s)])
  <2> DEFINE e(s) == IF s = {} THEN base ELSE op(fold[s \ {Max(s)}], is[Max(s)])
  <2>1. fold = [s \in D |-> e(s)]
    BY <1>7, Zenon
  <2> HIDE DEF e
  <2>2. \A s \in D : fold[s] = e(s)
    BY <2>1
  <2> QED
    BY <2>2 DEF e
<1> DEFINE u == [i \in 0 .. n |-> fold[1 .. i]]
<1>10. u[0] = base /\ u[n] = fold[DOMAIN is]
  <2>1. 1 .. 0 = {} /\ {} \in D
    OBVIOUS
  <2>2. u[0] = fold[1 .. 0] /\ u[n] = fold[1 .. n]
    OBVIOUS
  <2>3. fold[{}] = base
    BY <1>9, <2>1
  <2> QED
    BY <1>1, <2>1, <2>2, <2>3
<1>11. ASSUME NEW i \in 1 .. n PROVE u[i] = op(u[i - 1], i)
  <2>1. /\ 1 .. i \in SUBSET (1 .. n) /\ 1 .. i # {}
        /\ Max(1 .. i) = i /\ (1 .. i) \ {i} = 1 .. i - 1
    BY PrefixIs
  <2>4. fold[1 .. i] = op(fold[1 .. i - 1], i)
    BY <1>1, <1>9, <2>1
  <2>5. u[i] = fold[1 .. i] /\ u[i - 1] = fold[1 .. i - 1]
    OBVIOUS
  <2> QED
    BY <2>4, <2>5
<1> HIDE DEF u
<1>12. Unites(u, n, dest, ks, ws, agg)
  BY <1>10, <1>11 DEF Unites, op
<1> QED
  BY <1>8, <1>10, <1>12

LEMMA UnitedIs ==
  ASSUME TypeOK, NEW dest \in Keys, NEW n \in Nat, NEW ks \in [1 .. n -> Keys],
         NEW ws \in [1 .. n -> Weights], NEW agg \in Aggregates,
         NEW u, Unites(u, n, dest, ks, ws, agg)
  PROVE  \A i \in 0 .. n : u[i] \in Partial
<1> DEFINE Done == {k \in Nat : k <= n => u[k] \in Partial}
<1>1. 0 \in Done
  <2>1. EmptySet.map \in [{} -> Nat] /\ {} \in SUBSET Members
    BY DEF EmptySet
  <2> QED
    BY <2>1, PartialAre DEF Unites
<1>2. ASSUME NEW k \in Nat, k \in Done PROVE k + 1 \in Done
  <2> SUFFICES ASSUME k + 1 <= n PROVE u[k + 1] \in Partial
    OBVIOUS
  <2>1. k + 1 \in 1 .. n /\ (k + 1) - 1 = k
    OBVIOUS
  <2>2. u[k] \in Partial
    BY <1>2
  <2>3. u[k + 1] = Joined(dest, ks, ws, agg, u[k], k + 1)
    BY <2>1 DEF Unites
  <2> QED
    BY <2>1, <2>2, <2>3, JoinedIs
<1>3. ASSUME NEW i \in 0 .. n PROVE i \in Done
  <2> HIDE DEF Done
  <2> QED
    BY <1>1, <1>2, Inductive
<1> QED
  BY <1>3

LEMMA UnionIs ==
  ASSUME TypeOK, NEW dest \in Keys, NEW n \in Nat, NEW ks \in [1 .. n -> Keys],
         NEW ws \in [1 .. n -> Weights], NEW agg \in Aggregates
  PROVE  Union(dest, ks, ws, agg) \in Partial
<1>1. PICK u : Unites(u, n, dest, ks, ws, agg) /\ Union(dest, ks, ws, agg) = u[n]
  BY UnionUnites
<1>2. u[n] \in Partial
  BY <1>1, UnitedIs
<1> QED
  BY <1>1, <1>2

LEMMA IntersectionIs ==
  ASSUME TypeOK, NEW n \in Nat \ {0}, NEW ks \in [1 .. n -> Keys], NEW ws, NEW agg,
         Bounded(Intersection(ks, ws, agg))
  PROVE  Intersection(ks, ws, agg) \in Maps
<1> DEFINE shared == {m \in DOMAIN sets[ks[1]].map :
                         \A i \in DOMAIN ks : m \in DOMAIN sets[ks[i]].map}
           map == Intersection(ks, ws, agg)
<1>1. shared \in SUBSET Members
  <2>1. sets[ks[1]].map \in Maps
    BY DEF TypeOK
  <2> QED
    BY <2>1, MapsAre
<1>2. map = [m \in shared |-> map[m]]
  <2> DEFINE score(m) == FoldLeft(LAMBDA x, i : Combine(agg, x * ws[1], sets[ks[i]].map[m] * ws[i]),
                                  sets[ks[1]].map[m], [i \in 1 .. Len(ks) - 1 |-> i + 1])
  <2>1. map = [m \in shared |-> score(m)]
    BY Zenon DEF Intersection
  <2> HIDE DEF score, map, shared
  <2> QED
    BY <2>1
<1> HIDE DEF map, shared
<1>3. \A m \in DOMAIN map : map[m] \in Scores
  BY DEF Bounded, map
<1>4. map \in [shared -> Scores]
  BY <1>2, <1>3
<1> QED
  BY <1>1, <1>4, MapsAre DEF map

-----------------------------------------------------------------------------
(* The steps.                                                              *)

\* What a step keeps.
KeptTypes == TypeOK'
KeptMembers == MembersAreListed => MembersAreListed'
KeptOrder == (\A k \in Keys : Aligned(sets[k])) => \A k \in Keys : Aligned(sets'[k])

LEMMA TypesOfSets == sets \in [Keys -> SortedSet] /\ crashed \in BOOLEAN <=> TypeOK
BY DEF TypeOK, SortedSet

LEMMA SameSets ==
  ASSUME TypeOK, UNCHANGED sets, crashed' \in BOOLEAN
  PROVE  KeptTypes /\ KeptMembers /\ KeptOrder
BY DEF KeptTypes, KeptMembers, KeptOrder, TypeOK, MembersAreListed

\* A step that makes r of the set of k.
LEMMA OneSet ==
  ASSUME TypeOK, NEW k \in Keys, NEW r \in SortedSet,
         sets' = [sets EXCEPT ![k] = r], crashed' \in BOOLEAN,
         Listed(sets[k]) => Listed(r)
  PROVE  /\ KeptTypes /\ KeptMembers
         /\ (Aligned(sets[k]) => Aligned(r)) => KeptOrder
         /\ \A l \in Keys : l # k => sets'[l] = sets[l]
<1>1. sets \in [Keys -> SortedSet]
  BY TypesOfSets
<1>2. /\ sets' \in [Keys -> SortedSet] /\ sets'[k] = r
      /\ \A l \in Keys : l # k => sets'[l] = sets[l]
  BY <1>1
<1>3. KeptTypes
  BY <1>2 DEF KeptTypes, TypeOK, SortedSet
<1>4. KeptMembers
  BY <1>2 DEF KeptMembers, MembersAreListed, Listed
<1>5. (Aligned(sets[k]) => Aligned(r)) => KeptOrder
  BY <1>2 DEF KeptOrder
<1> QED
  BY <1>2, <1>3, <1>4, <1>5

LEMMA EmptySetIs == EmptySet \in SortedSet /\ Listed(EmptySet) /\ Aligned(EmptySet)
<1>1. EmptySet.map \in [{} -> Scores] /\ {} \in SUBSET Members /\ DOMAIN EmptySet.map = {}
  BY DEF EmptySet
<1>2. EmptySet.map \in Maps
  BY <1>1, MapsAre
<1>3. EmptySet \in SortedSet
  BY <1>2 DEF EmptySet, SortedSet
<1> QED
  BY <1>1, <1>3 DEF Listed, Aligned, ItemsOf, EmptySet

LEMMA ZAddStep ==
  ASSUME TypeOK, NEW k \in Keys, NEW pairs \in Pairs, ZAdd(k, pairs)
  PROVE  KeptTypes /\ KeptMembers /\ KeptOrder
<1>1. PICK n \in Nat : pairs \in [1 .. n -> Items]
  BY BoundsAssumption DEF Pairs
<1>2. sets[k] \in SortedSet
  BY TypesOfSets
<1>3. /\ Added(sets[k], pairs) \in SortedSet
      /\ Listed(sets[k]) => Listed(Added(sets[k], pairs))
      /\ Aligned(sets[k]) => Aligned(Added(sets[k], pairs))
  BY <1>1, <1>2, AddedKeeps
<1>4. sets' = [sets EXCEPT ![k] = Added(sets[k], pairs)] /\ crashed' \in BOOLEAN
  BY DEF ZAdd, TypeOK
<1> QED
  BY <1>3, <1>4, OneSet

LEMMA ZIncrByStep ==
  ASSUME TypeOK, NEW k \in Keys, NEW m \in Members, NEW by, ZIncrBy(k, m, by)
  PROVE  KeptTypes /\ KeptMembers /\ KeptOrder
<1>1. sets[k] \in SortedSet
  BY TypesOfSets
<1>2. PICK x \in Scores : sets' = [sets EXCEPT ![k] = Insert(sets[k], m, x).set]
  BY DEF ZIncrBy
<1>3. crashed' \in BOOLEAN
  BY DEF ZIncrBy, TypeOK
<1>4. /\ Insert(sets[k], m, x).set \in SortedSet
      /\ Listed(sets[k]) => Listed(Insert(sets[k], m, x).set)
      /\ Aligned(sets[k]) => Aligned(Insert(sets[k], m, x).set)
  BY <1>1, InsertTyped, InsertListed, InsertAligned
<1> QED
  BY <1>2, <1>3, <1>4, OneSet

LEMMA ZRemStep ==
  ASSUME TypeOK, NEW k \in Keys, NEW ms, ZRem(k, ms)
  PROVE  KeptTypes /\ KeptMembers /\ KeptOrder
<1>1. sets[k] \in SortedSet
  BY TypesOfSets
<1>2. sets' = [sets EXCEPT ![k] = Removed(sets[k], ms)] /\ crashed' \in BOOLEAN
  BY DEF ZRem, TypeOK
<1> QED
  BY <1>1, <1>2, RemovedKeeps, OneSet

\* Whatever the ranks; but the indexes stay together only if none is past the end.
LEMMA RemByRankStep ==
  ASSUME TypeOK, NEW k \in Keys, NEW first \in Int, NEW last \in Int,
         RemByRank(k, first, last)
  PROVE  /\ KeptTypes /\ KeptMembers
         /\ (/\ Aligned(sets[k]) /\ sets[k].list # {}
             => 0 <= first /\ last < Cardinality(sets[k].list)) => KeptOrder
<1> DEFINE l == Sorted(sets[k].list)
           doomed == {l[i + 1] : i \in first .. last}
           r == [map |-> Without(sets[k].map, {i[2] : i \in doomed}),
                 list |-> sets[k].list \ doomed]
<1>1. sets[k] \in SortedSet
  BY TypesOfSets
<1>2. CASE UNCHANGED sets /\ crashed' \in BOOLEAN
  BY <1>2, SameSets
<1>3. CASE l # <<>> /\ sets' = [sets EXCEPT ![k] = r] /\ UNCHANGED crashed
  <2>1. crashed' \in BOOLEAN
    BY <1>3 DEF TypeOK
  <2>2. /\ r \in SortedSet
        /\ Listed(sets[k]) => Listed(r)
        /\ Aligned(sets[k]) /\ 0 <= first /\ last < Cardinality(sets[k].list) => Aligned(r)
    BY <1>1, RanksKeep
  <2>3. sets[k].list # {}
    <3> SUFFICES ASSUME sets[k].list = {} PROVE FALSE
      OBVIOUS
    <3>1. sets[k].list \in SUBSET Items
      BY <1>1 DEF SortedSet
    <3>2. l \in [1 .. 0 -> {}]
      BY <3>1, SortedIs, FS_EmptySet
    <3> HIDE DEF l
    <3>3. l = <<>>
      BY <3>2
    <3> QED
      BY <1>3, <3>3
  <2> HIDE DEF r
  <2> QED
    BY <1>3, <2>1, <2>2, <2>3, OneSet
<1> QED
  BY <1>2, <1>3 DEF RemByRank, TypeOK

\* The size of the map is that of the list when the indexes agree.
LEMMA ZRemByRankStep ==
  ASSUME TypeOK, NEW k \in Keys, NEW start \in Ranks, NEW stop \in Ranks,
         ZRemByRank(k, start, stop)
  PROVE  KeptTypes /\ KeptMembers /\ KeptOrder
<1> DEFINE len == Cardinality(DOMAIN sets[k].map)
           range == Normalized(start, stop, len)
<1>1. sets[k] \in SortedSet
  BY TypesOfSets
<1>2. len \in Nat
  <2>1. DOMAIN sets[k].map \in SUBSET Members
    BY <1>1, MapsAre DEF SortedSet
  <2>2. IsFiniteSet(DOMAIN sets[k].map)
    BY <2>1, MembersAssumption, FS_Subset
  <2> QED
    BY <2>2, FS_CardinalityType
<1>3. start \in Int /\ stop \in Int
  BY BoundsAssumption DEF Ranks
<1>4. /\ range.start \in Nat /\ range.end \in Int
      /\ len # 0 => range.end < len
  <2> HIDE DEF len
  <2> QED
    BY <1>2, <1>3, NormalizedRange
<1>5. RemByRank(k, range.start, range.end)
  BY DEF ZRemByRank
<1>6. ASSUME Aligned(sets[k]), sets[k].list # {}
      PROVE  0 <= range.start /\ range.end < Cardinality(sets[k].list)
  <2>1. len = Cardinality(sets[k].list)
    BY <1>1, <1>6, AlignedSizes
  <2>2. IsFiniteSet(sets[k].list)
    <3>1. sets[k].list \in SUBSET Items
      BY <1>1 DEF SortedSet
    <3> QED
      BY <3>1, ItemsAreFinite, FS_Subset
  <2>3. Cardinality(sets[k].list) # 0
    BY <1>6, <2>2, FS_EmptySet
  <2> HIDE DEF range, len
  <2> QED
    BY <1>4, <2>1, <2>3
<1> HIDE DEF range
<1> QED
  BY <1>4, <1>5, <1>6, RemByRankStep

\* The bounds that a search finds are in the list, even of a list out of the order
\* that is searched.
LEMMA ZRemByStep ==
  ASSUME TypeOK, NEW k \in Keys, NEW f, NEW min, NEW max, ZRemBy(k, f, min, max)
  PROVE  KeptTypes /\ KeptMembers /\ KeptOrder
<1> DEFINE l == Sorted(sets[k].list)
           first == Lower(l, f, min)
           last == Upper(l, f, max) - 1
<1>1. sets[k].list \in SUBSET Items
  BY TypesOfSets DEF SortedSet
<1>2. Len(l) = Cardinality(sets[k].list) /\ Len(l) \in Nat
  <2>1. Cardinality(sets[k].list) \in Nat /\ l \in [1 .. Cardinality(sets[k].list) -> sets[k].list]
    BY <1>1, SortedIs
  <2> HIDE DEF l
  <2> QED
    BY <2>1
<1>3. RemByRank(k, first, last)
  BY DEF ZRemBy
<1> HIDE DEF l
<1>4. first \in 0 .. Len(l) /\ Upper(l, f, max) \in 0 .. Len(l)
  BY <1>2, BoundWithin DEF Lower, Upper
<1>5. first \in Int /\ last \in Int /\ 0 <= first /\ last < Len(l)
  BY <1>2, <1>4
<1> HIDE DEF first, last
<1> QED
  BY <1>2, <1>3, <1>5, RemByRankStep

LEMMA ItemsOfAligned ==
  ASSUME NEW map \in Maps
  PROVE  LET r == [map |-> map, list |-> ItemsOf(map)]
         IN  r \in SortedSet /\ Listed(r) /\ Aligned(r)
<1>1. ItemsOf(map) \in SUBSET Items
  BY ItemsAre
<1>2. ASSUME NEW m \in DOMAIN map PROVE \E i \in ItemsOf(map) : i[2] = m
  <2>1. <<map[m], m>> \in ItemsOf(map) /\ <<map[m], m>>[2] = m
    BY DEF ItemsOf
  <2> QED
    BY <2>1
<1> QED
  BY <1>1, <1>2 DEF SortedSet, Listed, Aligned

LEMMA ArgumentsAre ==
  ASSUME NEW ks \in Sources, NEW ws \in WeightsOf(ks)
  PROVE  \E n \in Nat \ {0} : ks \in [1 .. n -> Keys] /\ ws \in [1 .. n -> Weights]
BY BoundsAssumption DEF Sources, WeightsOf

LEMMA ZUnionStoreStep ==
  ASSUME TypeOK, NEW dest \in Keys, NEW ks \in Sources, NEW ws \in WeightsOf(ks),
         NEW agg \in Aggregates, ZUnionStore(dest, ks, ws, agg)
  PROVE  KeptTypes /\ KeptMembers /\ KeptOrder
<1> DEFINE map == Union(dest, ks, ws, agg)
           r == [map |-> map, list |-> ItemsOf(map)]
<1>1. map \in Partial
  BY ArgumentsAre, UnionIs
<1>2. Bounded(map) /\ sets' = [sets EXCEPT ![dest] = r] /\ crashed' \in BOOLEAN
  BY DEF ZUnionStore, TypeOK
<1> HIDE DEF map
<1>3. map \in Maps
  BY <1>1, <1>2, PartialBounded
<1>4. r \in SortedSet /\ Listed(r) /\ Aligned(r)
  BY <1>3, ItemsOfAligned
<1> HIDE DEF r
<1> QED
  BY <1>2, <1>4, OneSet

\* The destination alone may be left with items that its map has not.
LEMMA ZInterStoreStep ==
  ASSUME TypeOK, NEW dest \in Keys, NEW ks \in Sources, NEW ws \in WeightsOf(ks),
         NEW agg \in Aggregates, ZInterStore(dest, ks, ws, agg)
  PROVE  KeptTypes /\ KeptMembers /\ \A l \in Keys : l # dest => sets'[l] = sets[l]
<1> DEFINE map == Intersection(ks, ws, agg)
           r == [map |-> map, list |-> sets[dest].list \cup ItemsOf(map)]
<1>1. Bounded(map) /\ sets' = [sets EXCEPT ![dest] = r] /\ crashed' \in BOOLEAN
  BY DEF ZInterStore, TypeOK
<1>2. map \in Maps
  BY <1>1, ArgumentsAre, IntersectionIs
<1> HIDE DEF map
<1>3. ItemsOf(map) \in SUBSET Items /\ \A m \in DOMAIN map : \E i \in ItemsOf(map) : i[2] = m
  BY <1>2, ItemsOfAligned DEF SortedSet, Listed
<1>4. sets[dest].list \in SUBSET Items
  BY TypesOfSets DEF SortedSet
<1>5. r \in SortedSet /\ Listed(r)
  BY <1>2, <1>3, <1>4 DEF SortedSet, Listed
<1> HIDE DEF r
<1> QED
  BY <1>1, <1>5, OneSet

LEMMA DelKeyStep ==
  ASSUME TypeOK, NEW k \in Keys, DelKey(k)
  PROVE  KeptTypes /\ KeptMembers /\ KeptOrder
<1>1. sets' = [sets EXCEPT ![k] = EmptySet] /\ crashed' \in BOOLEAN
  BY DEF DelKey, TypeOK
<1> QED
  BY <1>1, EmptySetIs, OneSet

LEMMA RenameStep ==
  ASSUME TypeOK, NEW k \in Keys, NEW new \in Keys, Rename(k, new)
  PROVE  KeptTypes /\ KeptMembers /\ KeptOrder
<1>1. sets \in [Keys -> SortedSet]
  BY TypesOfSets
<1>2. /\ sets' = [[sets EXCEPT ![new] = sets[k]] EXCEPT ![k] = EmptySet]
      /\ k # new /\ crashed' \in BOOLEAN
  BY DEF Rename, TypeOK
<1>3. /\ sets' \in [Keys -> SortedSet] /\ sets'[k] = EmptySet /\ sets'[new] = sets[k]
      /\ \A l \in Keys : l # k /\ l # new => sets'[l] = sets[l]
  BY <1>1, <1>2, EmptySetIs
<1>4. KeptTypes
  BY <1>2, <1>3 DEF KeptTypes, TypeOK, SortedSet
<1>5. KeptMembers
  <2> SUFFICES ASSUME MembersAreListed, NEW l \in Keys PROVE Listed(sets'[l])
    BY DEF KeptMembers, MembersAreListed, Listed
  <2>1. \A x \in Keys : Listed(sets[x])
    BY DEF MembersAreListed, Listed
  <2> QED
    BY <1>3, <2>1, EmptySetIs
<1>6. KeptOrder
  BY <1>3, EmptySetIs DEF KeptOrder
<1> QED
  BY <1>4, <1>5, <1>6

\* Every step but that of an intersection keeps the indexes together.
LEMMA StepKeeps ==
  ASSUME TypeOK, Next
  PROVE  /\ KeptTypes /\ KeptMembers
         /\ \/ KeptOrder
            \/ \E k \in Keys, ks \in Sources : \E ws \in WeightsOf(ks), agg \in Aggregates :
                  /\ ZInterStore(k, ks, ws, agg)
                  /\ \A l \in Keys : l # k => sets'[l] = sets[l]
<1> SUFFICES ASSUME NEW k \in Keys,
               \/ \E pairs \in Pairs : ZAdd(k, pairs)
               \/ \E m \in Members, by \in -1 .. MaxScore : ZIncrBy(k, m, by)
               \/ \E ms \in SUBSET Members : ZRem(k, ms)
               \/ \E start, stop \in Ranks : ZRemByRank(k, start, stop)
               \/ \E min, max \in Limits : ZRemBy(k, 1, min, max)
               \/ \E min, max \in LexLimits : ZRemBy(k, 2, min, max)
               \/ \E ks \in Sources : \E ws \in WeightsOf(ks), agg \in Aggregates :
                     ZUnionStore(k, ks, ws, agg) \/ ZInterStore(k, ks, ws, agg)
               \/ \E new \in Keys : Rename(k, new)
               \/ DelKey(k)
               \/ ZRevRange(k)
             PROVE  /\ KeptTypes /\ KeptMembers
                    /\ \/ KeptOrder
                       \/ \E x \in Keys, ks \in Sources :
                             \E ws \in WeightsOf(ks), agg \in Aggregates :
                                /\ ZInterStore(x, ks, ws, agg)
                                /\ \A l \in Keys : l # x => sets'[l] = sets[l]
  BY DEF Next
<1>1. CASE \E pairs \in Pairs : ZAdd(k, pairs)
  BY <1>1, ZAddStep
<1>2. CASE \E m \in Members, by \in -1 .. MaxScore : ZIncrBy(k, m, by)
  BY <1>2, ZIncrByStep
<1>3. CASE \E ms \in SUBSET Members : ZRem(k, ms)
  BY <1>3, ZRemStep
<1>4. CASE \E start, stop \in Ranks : ZRemByRank(k, start, stop)
  BY <1>4, ZRemByRankStep
<1>5. CASE \E min, max \in Limits : ZRemBy(k, 1, min, max)
  BY <1>5, ZRemByStep
<1>6. CASE \E min, max \in LexLimits : ZRemBy(k, 2, min, max)
  BY <1>6, ZRemByStep
<1>7. CASE \E ks \in Sources : \E ws \in WeightsOf(ks), agg \in Aggregates :
              ZUnionStore(k, ks, ws, agg) \/ ZInterStore(k, ks, ws, agg)
  BY <1>7, ZUnionStoreStep, ZInterStoreStep
<1>8. CASE \E new \in Keys : Rename(k, new)
  BY <1>8, RenameStep
<1>9. CASE DelKey(k)
  BY <1>9, DelKeyStep
<1>10. CASE ZRevRange(k)
  <2>1. UNCHANGED sets /\ crashed' \in BOOLEAN
    BY <1>10 DEF ZRevRange
  <2> QED
    BY <2>1, SameSets
<1> QED
  BY <1>1, <1>2, <1>3, <1>4, <1>5, <1>6, <1>7, <1>8, <1>9, <1>10

LEMMA SetsInvariant == Spec => [](TypeOK /\ MembersAreListed)
<1>1. Init => TypeOK /\ MembersAreListed
  <2> SUFFICES ASSUME Init PROVE TypeOK /\ MembersAreListed
    OBVIOUS
  <2>1. sets \in [Keys -> SortedSet] /\ crashed \in BOOLEAN
    BY EmptySetIs DEF Init
  <2>2. TypeOK
    BY <2>1, TypesOfSets
  <2>3. MembersAreListed
    BY EmptySetIs DEF Init, MembersAreListed, Listed
  <2> QED
    BY <2>2, <2>3
<1>2. TypeOK /\ MembersAreListed /\ [Next]_vars => (TypeOK /\ MembersAreListed)'
  <2>1. ASSUME TypeOK, MembersAreListed, Next PROVE (TypeOK /\ MembersAreListed)'
    BY <2>1, StepKeeps DEF KeptTypes, KeptMembers
  <2>2. ASSUME TypeOK, MembersAreListed, UNCHANGED vars PROVE (TypeOK /\ MembersAreListed)'
    BY <2>2 DEF vars, TypeOK, MembersAreListed
  <2> QED
    BY <2>1, <2>2
<1> QED
  BY <1>1, <1>2, PTL DEF Spec

-----------------------------------------------------------------------------
(* What the ranges find.                                                   *)

\* What holds of an item if it holds of a later one holds of a beginning of the list.
LEMMA CutExists ==
  ASSUME NEW N \in Nat, NEW S,
         \A i, j \in 1 .. N : i < j /\ j \in S => i \in S
  PROVE  \E c \in 0 .. N : \A i \in 1 .. N : i \in S <=> i <= c
<1> DEFINE T == {n \in 0 .. N : n = N \/ n + 1 \notin S}
<1>1. T \in SUBSET Nat /\ N \in T
  OBVIOUS
<1>2. PICK c \in T : \A n \in T : c <= n
  <2> HIDE DEF T
  <2> QED
    BY <1>1, Least
<1>3. c \in 0 .. N
  OBVIOUS
<1>4. ASSUME NEW i \in 1 .. N, i <= c PROVE i \in S
  <2>1. i - 1 \in 0 .. N /\ ~ (c <= i - 1) /\ (i - 1) + 1 = i
    BY <1>3, <1>4
  <2>2. i - 1 \notin T
    BY <1>2, <2>1
  <2> QED
    BY <2>1, <2>2
<1>5. ASSUME NEW i \in 1 .. N, i \in S PROVE i <= c
  <2> SUFFICES ASSUME ~ (i <= c) PROVE FALSE
    OBVIOUS
  <2>1. c + 1 \in 1 .. N /\ c # N /\ (c + 1 < i \/ c + 1 = i)
    BY <1>3
  <2>2. c + 1 \in S
    BY <1>5, <2>1
  <2> QED
    BY <1>3, <2>1, <2>2
<1> QED
  BY <1>3, <1>4, <1>5

InOrder(list, f) ==
  \A i, j \in 1 .. Cardinality(list) : i < j => Sorted(list)[i][f] <= Sorted(list)[j][f]

\* Between the two bounds, a and b, is what is within the limits.
Found(list, f, min, max, a, b) ==
  LET l == Sorted(list)
  IN  /\ a <= b /\ b <= Cardinality(list)
      /\ Lower(l, f, min) = a /\ Upper(l, f, max) = b
      /\ WithinLimits(list, f, min, max) = {l[n] : n \in a + 1 .. b}

\* In a list that is in order of what is searched, the two bounds have between them
\* the items that are within the limits.
LEMMA RangeFound ==
  ASSUME NEW list \in SUBSET Items, NEW f \in {1, 2},
         InOrder(list, f),
         NEW min \in Int, NEW max \in Int, min <= max
  PROVE  \E a, b \in Nat : Found(list, f, min, max, a, b)
<1> DEFINE l == Sorted(list)
           N == Cardinality(list)
           A == {n \in 1 .. N : 2 * l[n][f] < min}
           B == {n \in 1 .. N : ~ (max < 2 * l[n][f])}
<1>1. N \in Nat /\ l \in [1 .. N -> list] /\ Len(l) = N
  <2>1. N \in Nat /\ l \in [1 .. N -> list]
    BY SortedIs
  <2> HIDE DEF l, N
  <2> QED
    BY <2>1
<1>2. \A i \in list : \E n \in 1 .. N : l[n] = i
  <2>1. ASSUME NEW i \in list PROVE \E n \in 1 .. N : l[n] = i
    <3>1. Cardinality(Below(list, i)) \in 0 .. N - 1 /\ l[Cardinality(Below(list, i)) + 1] = i
      BY SortedIs
    <3>2. Cardinality(Below(list, i)) + 1 \in 1 .. N
      BY <1>1, <3>1
    <3> QED
      BY <3>1, <3>2
  <2> QED
    BY <2>1
<1>3. \A i \in list : i[f] \in Int
  BY LessOrders
<1>4. \A i, j \in 1 .. N : i < j => l[i][f] <= l[j][f]
  BY DEF InOrder
<1> HIDE DEF l, N
<1>5. \A n \in 1 .. N : l[n][f] \in Int
  BY <1>1, <1>3
<1>6. PICK a \in 0 .. N : \A i \in 1 .. N : i \in A <=> i <= a
  <2>1. \A i, j \in 1 .. N : i < j /\ j \in A => i \in A
    BY <1>4, <1>5
  <2> HIDE DEF A
  <2> QED
    BY <1>1, <2>1, CutExists
<1>7. PICK b \in 0 .. N : \A i \in 1 .. N : i \in B <=> i <= b
  <2>1. \A i, j \in 1 .. N : i < j /\ j \in B => i \in B
    BY <1>4, <1>5
  <2> HIDE DEF B
  <2> QED
    BY <1>1, <2>1, CutExists
<1>8. Lower(l, f, min) = a
  <2>1. \A i \in 1 .. Len(l) : Before(TRUE, min, l[i][f]) <=> i <= a
    BY <1>1, <1>6 DEF Before
  <2> QED
    BY <1>1, <2>1, BoundFinds DEF Lower
<1>9. Upper(l, f, max) = b
  <2>1. \A i \in 1 .. Len(l) : Before(FALSE, max, l[i][f]) <=> i <= b
    BY <1>1, <1>7 DEF Before
  <2> QED
    BY <1>1, <2>1, BoundFinds DEF Upper
<1>10. a <= b
  <2> SUFFICES ASSUME ~ (a <= b) PROVE FALSE
    OBVIOUS
  <2>1. a \in 1 .. N
    BY <1>1
  <2>2. a \in A /\ a \notin B
    BY <1>6, <1>7, <2>1
  <2> QED
    BY <1>5, <2>1, <2>2
<1>11. \A n \in 1 .. N : min <= 2 * l[n][f] /\ 2 * l[n][f] <= max <=> n \in a + 1 .. b
  <2>1. ASSUME NEW n \in 1 .. N
        PROVE  min <= 2 * l[n][f] /\ 2 * l[n][f] <= max <=> n \in a + 1 .. b
    <3>1. (n \in A <=> n <= a) /\ (n \in B <=> n <= b)
      BY <1>6, <1>7
    <3>2. n \in A <=> ~ (min <= 2 * l[n][f])
      BY <1>5
    <3>3. n \in B <=> 2 * l[n][f] <= max
      BY <1>5
    <3> HIDE DEF A, B
    <3>4. n \in a + 1 .. b <=> ~ (n <= a) /\ n <= b
      BY <1>1
    <3> QED
      BY <3>1, <3>2, <3>3, <3>4
  <2> QED
    BY <2>1
<1>12. WithinLimits(list, f, min, max) = {l[n] : n \in a + 1 .. b}
  <2>1. \A n \in a + 1 .. b : n \in 1 .. N
    BY <1>1
  <2>2. ASSUME NEW i \in list, min <= 2 * i[f], 2 * i[f] <= max
        PROVE  \E n \in a + 1 .. b : i = l[n]
    BY <1>2, <1>11, <2>2
  <2>3. ASSUME NEW n \in a + 1 .. b
        PROVE  l[n] \in list /\ min <= 2 * l[n][f] /\ 2 * l[n][f] <= max
    BY <1>1, <1>11, <2>1
  <2> QED
    BY <2>2, <2>3 DEF WithinLimits
<1>13. a \in Nat /\ b \in Nat /\ b <= N
  BY <1>1
<1> QED
  BY <1>8, <1>9, <1>10, <1>12, <1>13 DEF Found, l, N

\* The last item of a range, which a reversed read limited to one finds.
LastIsLast(l, a, b) ==
  LET w == SubSeq(l, a + 1, b)
      from == IF 1 < b - a THEN b - 1 ELSE a
  IN  Reverse(SubSeq(l, from + 1, b)) = SubSeq(Reverse(w), 1, IF w = <<>> THEN 0 ELSE 1)

LEMMA LastOfRange ==
  ASSUME NEW S, NEW N \in Nat, NEW l \in [1 .. N -> S], NEW a \in Nat, NEW b \in Nat,
         a <= b, b <= N
  PROVE  LastIsLast(l, a, b)
<1> DEFINE w == SubSeq(l, a + 1, b)
           from == IF 1 < b - a THEN b - 1 ELSE a
           v == SubSeq(l, from + 1, b)
<1>1. w \in Seq(S) /\ Len(w) = b - a /\ \A i \in 1 .. b - a : w[i] = l[a + i]
  <2>1. \A i \in a + 1 .. b : l[i] \in S
    OBVIOUS
  <2>2. /\ w \in Seq(S) /\ Len(w) = IF a + 1 <= b THEN b - (a + 1) + 1 ELSE 0
        /\ \A i \in 1 .. b - (a + 1) + 1 : w[i] = l[(a + 1) + i - 1]
    BY <2>1, SubSeqProperties
  <2> HIDE DEF w
  <2> QED
    BY <2>2
<1>2. CASE a = b
  <2>1. from = a /\ w = <<>> /\ v = <<>>
    BY <1>2, SubSeqEmpty
  <2>2. Reverse(<<>>) = <<>>
    BY DEF Reverse
  <2>3. SubSeq(<<>>, 1, 0) = <<>>
    BY SubSeqEmpty
  <2> HIDE DEF w, v, from
  <2> QED
    BY <2>1, <2>2, <2>3 DEF LastIsLast, w, v, from
<1>3. CASE a < b
  <2>1. from = b - 1
    BY <1>3
  <2>2. v \in Seq(S) /\ Len(v) = 1 /\ v[1] = l[b]
    <3>1. \A i \in b .. b : l[i] \in S
      BY <1>3
    <3>2. from + 1 = b
      BY <2>1
    <3>3. v = SubSeq(l, b, b)
      BY <3>2
    <3>4. /\ SubSeq(l, b, b) \in Seq(S) /\ Len(SubSeq(l, b, b)) = IF b <= b THEN b - b + 1 ELSE 0
          /\ \A i \in 1 .. b - b + 1 : SubSeq(l, b, b)[i] = l[b + i - 1]
      BY <3>1, SubSeqProperties
    <3> HIDE DEF v
    <3> QED
      BY <3>3, <3>4
  <2> HIDE DEF w, v, from
  <2>3. Reverse(v) \in Seq(S) /\ Len(Reverse(v)) = 1 /\ Reverse(v)[1] = l[b]
    BY <2>2 DEF Reverse
  <2>4. w # <<>> /\ Reverse(w) \in [1 .. b - a -> S] /\ Reverse(w)[1] = l[b]
    BY <1>1, <1>3 DEF Reverse
  <2>5. LET r == SubSeq(Reverse(w), 1, 1)
        IN  r \in Seq(S) /\ Len(r) = 1 /\ r[1] = l[b]
    <3>1. \A i \in 1 .. 1 : Reverse(w)[i] \in S
      BY <1>3, <2>4
    <3>2. /\ SubSeq(Reverse(w), 1, 1) \in Seq(S)
          /\ Len(SubSeq(Reverse(w), 1, 1)) = IF 1 <= 1 THEN 1 - 1 + 1 ELSE 0
          /\ \A i \in 1 .. 1 - 1 + 1 : SubSeq(Reverse(w), 1, 1)[i] = Reverse(w)[1 + i - 1]
      BY <3>1, SubSeqProperties
    <3> QED
      BY <2>4, <3>2
  <2>6. Reverse(v) = SubSeq(Reverse(w), 1, 1)
    BY <2>3, <2>5, SeqEqual
  <2> QED
    BY <2>4, <2>6 DEF LastIsLast, w, v, from
<1>4. a = b \/ a < b
  OBVIOUS
<1> HIDE DEF w, v, from
<1> QED
  BY <1>2, <1>3, <1>4

\* Where a list is in order of what is searched, the reads of a range find what is
\* within the limits, all of it, in order, and nothing else.
LEMMA RangeIsWithin ==
  ASSUME NEW list \in SUBSET Items, NEW f \in {1, 2},
         InOrder(list, f),
         NEW min \in Int, NEW max \in Int, min <= max
  PROVE  Exact(list, list, f, min, max)
<1> DEFINE l == Sorted(list)
           N == Cardinality(list)
           W == WithinLimits(list, f, min, max)
           within == Sorted(W)
<1>1. PICK a, b \in Nat : /\ a <= b /\ b <= N
                          /\ Lower(l, f, min) = a /\ Upper(l, f, max) = b
                          /\ W = {l[n] : n \in a + 1 .. b}
  <2>1. \E a, b \in Nat : Found(list, f, min, max, a, b)
    BY RangeFound
  <2> QED
    BY <2>1 DEF Found
<1>2. N \in Nat /\ l \in [1 .. N -> list] /\ Len(l) = N
  <2>1. N \in Nat /\ l \in [1 .. N -> list]
    BY SortedIs
  <2> HIDE DEF l, N
  <2> QED
    BY <2>1
<1>3. Cardinality(W) = b - a /\ within = SubSeq(l, a + 1, b)
  <2>1. Cardinality({l[n] : n \in a + 1 .. b}) = b - a
        /\ Sorted({l[n] : n \in a + 1 .. b}) = SubSeq(l, a + 1, b)
    BY <1>1, SortedPart
  <2> QED
    BY <1>1, <2>1
<1>4. Len(within) = b - a
  <2>1. W \in SUBSET Items
    BY DEF WithinLimits
  <2>2. within \in [1 .. Cardinality(W) -> W] /\ Cardinality(W) \in Nat
    BY <2>1, SortedIs
  <2> HIDE DEF W, within
  <2> QED
    BY <1>3, <2>2
<1>0. LastIsLast(l, a, b)
  <2>1. /\ N \in Nat /\ l \in [1 .. N -> list]
        /\ a \in Nat /\ b \in Nat /\ a <= b /\ b <= N
    BY <1>1, <1>2
  <2> HIDE DEF l, N
  <2> QED
    BY <2>1, LastOfRange
<1> HIDE DEF l, N, W, within
<1>5. Count(l, f, min, max) = b - a
  BY <1>1 DEF Count
<1>6. RangeBy(l, f, min, max, 0, Len(l), FALSE) = SubSeq(l, a + 1, b)
  <2>1. ~ (N < b - a) /\ a + 0 + 1 = a + 1
    BY <1>1, <1>2
  <2> QED
    BY <1>1, <1>2, <2>1 DEF RangeBy
<1>7. RangeBy(l, f, min, max, 0, 1, TRUE)
         = SubSeq(Reverse(within), 1, IF within = <<>> THEN 0 ELSE 1)
  <2>1. b - 0 = b
    OBVIOUS
  <2>2. RangeBy(l, f, min, max, 0, 1, TRUE)
           = Reverse(SubSeq(l, (IF 1 < b - a THEN b - 1 ELSE a) + 1, b))
    BY <1>1, <2>1 DEF RangeBy
  <2>3. Reverse(SubSeq(l, (IF 1 < b - a THEN b - 1 ELSE a) + 1, b))
           = SubSeq(Reverse(SubSeq(l, a + 1, b)), 1,
                    IF SubSeq(l, a + 1, b) = <<>> THEN 0 ELSE 1)
    BY <1>0 DEF LastIsLast
  <2> QED
    BY <1>3, <2>2, <2>3
<1> QED
  BY <1>1, <1>3, <1>4, <1>5, <1>6, <1>7 DEF Exact, l, N, W, within

\* A list is in the order of its scores, and of its members if the scores are equal.
LEMMA OrderOf ==
  ASSUME NEW list \in SUBSET Items, NEW f \in {1, 2},
         f = 1 \/ \A i, j \in list : i[1] = j[1]
  PROVE  InOrder(list, f)
<1> DEFINE l == Sorted(list)
<1>1. \A i \in 1 .. Cardinality(list) : l[i] \in list
  BY SortedIs
<1>2. \A i, j \in 1 .. Cardinality(list) : i < j => Less(l[i], l[j])
  BY SortedOrder
<1>3. \A i \in list : i[1] \in Nat /\ i[2] \in Nat
  BY LessOrders
<1> HIDE DEF l
<1>4. ASSUME NEW i \in 1 .. Cardinality(list), NEW j \in 1 .. Cardinality(list), i < j
      PROVE  l[i][f] <= l[j][f]
  <2>1. l[i] \in list /\ l[j] \in list /\ Less(l[i], l[j])
    BY <1>1, <1>2, <1>4
  <2> DEFINE x == l[i]  y == l[j]
  <2>2. x[1] \in Nat /\ x[2] \in Nat /\ y[1] \in Nat /\ y[2] \in Nat
    BY <1>3, <2>1
  <2>3. x[1] < y[1] \/ (x[1] = y[1] /\ x[2] < y[2])
    BY <2>1 DEF Less
  <2>4. f = 1 \/ x[1] = y[1]
    BY <2>1
  <2> HIDE DEF x, y
  <2>5. x[f] <= y[f]
    <3>1. CASE f = 1
      BY <2>2, <2>3, <3>1
    <3>2. CASE f = 2 /\ x[1] = y[1]
      BY <2>2, <2>3, <3>2
    <3> QED
      BY <2>4, <3>1, <3>2
  <2> QED
    BY <2>5 DEF x, y
<1> QED
  BY <1>4 DEF InOrder, l

LEMMA AlignedIsExact ==
  ASSUME NEW s \in SortedSet, Aligned(s)
  PROVE  ReadsAreExact(s)
<1>1. s.list \in SUBSET Items /\ s.list = ItemsOf(s.map)
  BY DEF SortedSet, Aligned
<1>2. ASSUME NEW f \in {1, 2}, InOrder(s.list, f),
             NEW min \in Int, NEW max \in Int, min <= max
      PROVE  Exact(s.list, ItemsOf(s.map), f, min, max)
  BY <1>1, <1>2, RangeIsWithin
<1>3. \A min \in Limits : min \in Int
  BY MaxScoreAssumption DEF Limits
<1>4. \A min \in LexLimits : min \in Int
  BY MembersAssumption DEF LexLimits
<1>5. InOrder(s.list, 1)
  BY <1>1, OrderOf
<1>6. (\A i, j \in s.list : i[1] = j[1]) => InOrder(s.list, 2)
  BY <1>1, OrderOf
<1>7. \A min, max \in Limits : min <= max => Exact(s.list, ItemsOf(s.map), 1, min, max)
  BY <1>2, <1>3, <1>5
<1>8. (\A i, j \in s.list : i[1] = j[1])
        => \A min, max \in LexLimits : min <= max => Exact(s.list, ItemsOf(s.map), 2, min, max)
  BY <1>2, <1>4, <1>6
<1>9. ASSUME NEW m \in DOMAIN s.map
      PROVE  Sorted(s.list)[Rank(s, m) + 1] = <<s.map[m], m>>
  <2>1. <<s.map[m], m>> \in s.list
    BY <1>1 DEF ItemsOf
  <2>2. Rank(s, m) = Cardinality(Below(s.list, <<s.map[m], m>>))
    BY <2>1 DEF Rank, Below
  <2> QED
    BY <1>1, <2>1, <2>2, SortedIs
<1> QED
  BY <1>7, <1>8, <1>9 DEF ReadsAreExact

-----------------------------------------------------------------------------
(* Sums over sets, which MapThenSumSet takes in the order that CHOOSE has. *)

Chosen(s) == CHOOSE i \in s : TRUE

\* The sums of x over the parts of S.
Sums(g, S, x) ==
    \A s \in SUBSET S : g[s] = IF s = {} THEN 0 ELSE x[Chosen(s)] + g[s \ {Chosen(s)}]

LEMMA ChosenIs ==
  ASSUME NEW s, s # {}
  PROVE  Chosen(s) \in s
BY DEF Chosen

\* What holds of a finite set if it holds of all that are smaller by one, does.
LEMMA BySize ==
  ASSUME NEW S, IsFiniteSet(S), NEW P \in SUBSET SUBSET S,
         \A s \in SUBSET S : (\A i \in s : s \ {i} \in P) => s \in P
  PROVE  P = SUBSET S
<1> DEFINE Done == {n \in Nat : \A s \in SUBSET S : Cardinality(s) = n => s \in P}
<1>1. \A s \in SUBSET S : IsFiniteSet(s) /\ Cardinality(s) \in Nat
  BY FS_Subset, FS_CardinalityType
<1>2. 0 \in Done
  <2>1. ASSUME NEW s \in SUBSET S, Cardinality(s) = 0 PROVE s \in P
    <3>1. s = {}
      BY <1>1, <2>1, FS_EmptySet
    <3> QED
      BY <3>1
  <2> QED
    BY <2>1
<1>3. ASSUME NEW n \in Nat, n \in Done PROVE n + 1 \in Done
  <2>1. ASSUME NEW s \in SUBSET S, Cardinality(s) = n + 1 PROVE s \in P
    <3>1. ASSUME NEW i \in s PROVE s \ {i} \in P
      <4>1. Cardinality(s \ {i}) = Cardinality(s) - 1
        BY <1>1, FS_RemoveElement
      <4>2. Cardinality(s \ {i}) = n
        BY <2>1, <4>1
      <4>3. s \ {i} \in SUBSET S
        OBVIOUS
      <4> QED
        BY <1>3, <4>2, <4>3
    <3> QED
      BY <3>1
  <2> QED
    BY <2>1
<1>4. ASSUME NEW s \in SUBSET S PROVE s \in P
  <2>1. Cardinality(s) \in Done
    <3> HIDE DEF Done
    <3> QED
      BY <1>1, <1>2, <1>3, Inductive
  <2> QED
    BY <2>1
<1> QED
  BY <1>4

\* There are such sums.
LEMMA SumsExist ==
  ASSUME NEW S, IsFiniteSet(S), NEW x \in [S -> Nat]
  PROVE  \E g \in [SUBSET S -> Nat] : Sums(g, S, x)
<1> DEFINE D == SUBSET S
           size == [s \in D |-> Cardinality(s)]
           B == [p \in [D -> Nat] \X D |->
                   IF p[2] = {} THEN 0 ELSE x[Chosen(p[2])] + p[1][p[2] \ {Chosen(p[2])}]]
           top == Cardinality(S)
<1>1. \A s \in D : s # {} => Chosen(s) \in s /\ x[Chosen(s)] \in Nat /\ s \ {Chosen(s)} \in D
  BY ChosenIs
<1>2. \A s \in D : IsFiniteSet(s) /\ Cardinality(s) \in 0 .. top
  BY FS_Subset, FS_CardinalityType
<1>3. top \in Nat
  BY FS_CardinalityType
<1> HIDE DEF D, top
<1>4. size \in [D -> 0 .. top] /\ \A s \in D : size[s] = Cardinality(s)
  BY <1>2
<1>5. ASSUME NEW g \in [D -> Nat], NEW s \in D
      PROVE  B[<<g, s>>] = IF s = {} THEN 0 ELSE x[Chosen(s)] + g[s \ {Chosen(s)}]
  OBVIOUS
<1>6. B \in [[D -> Nat] \X D -> Nat]
  <2>1. ASSUME NEW g \in [D -> Nat], NEW s \in D, s # {}
        PROVE  x[Chosen(s)] + g[s \ {Chosen(s)}] \in Nat
    BY <1>1, <2>1
  <2> QED
    BY <2>1
<1>7. ASSUME NEW g \in [D -> Nat], NEW h \in [D -> Nat], NEW s \in D,
             \A u \in D : size[u] < size[s] => g[u] = h[u]
      PROVE  B[<<g, s>>] = B[<<h, s>>]
  <2>1. CASE s = {}
    BY <1>5, <2>1
  <2>2. CASE s # {}
    <3> DEFINE u == s \ {Chosen(s)}
    <3>1. u \in D /\ Cardinality(u) = Cardinality(s) - 1
      BY <1>1, <1>2, <2>2, FS_RemoveElement
    <3>2. size[u] < size[s]
      BY <1>2, <1>4, <3>1
    <3>3. g[u] = h[u]
      BY <1>7, <3>1, <3>2
    <3> HIDE DEF B
    <3> QED
      BY <1>5, <2>2, <3>3
  <2> QED
    BY <2>1, <2>2
<1> HIDE DEF B, size
<1>8. Recursion(D, Nat, top, size, B)
  BY <1>4, <1>6, <1>7 DEF Recursion
<1>9. PICK g : Solves(g, D, Nat, B)
  BY <1>3, <1>8, RecursionExists
<1>10. g \in [D -> Nat] /\ \A s \in D : g[s] = B[<<g, s>>]
  BY <1>9 DEF Solves
<1>11. \A s \in D : g[s] = IF s = {} THEN 0 ELSE x[Chosen(s)] + g[s \ {Chosen(s)}]
  BY <1>5, <1>10
<1> QED
  BY <1>10, <1>11 DEF Sums, D

\* Whichever element is taken first, the sum is the same.
LEMMA SumsOfAny ==
  ASSUME NEW S, IsFiniteSet(S), NEW x \in [S -> Nat], NEW g \in [SUBSET S -> Nat],
         Sums(g, S, x)
  PROVE  \A s \in SUBSET S : \A i \in s : g[s] = x[i] + g[s \ {i}]
<1> DEFINE P == {t \in SUBSET S : \A j \in t : g[t] = x[j] + g[t \ {j}]}
<1>1. ASSUME NEW t \in SUBSET S, \A j \in t : t \ {j} \in P PROVE t \in P
  <2>1. ASSUME NEW j \in t PROVE g[t] = x[j] + g[t \ {j}]
    <3> DEFINE a == Chosen(t)
    <3>1. a \in t
      BY ChosenIs
    <3>2. g[t] = x[a] + g[t \ {a}]
      BY DEF Sums
    <3> HIDE DEF a
    <3>3. CASE a = j
      BY <3>2, <3>3
    <3>4. CASE a # j
      <4>1. t \ {a} \in P /\ t \ {j} \in P /\ j \in t \ {a} /\ a \in t \ {j}
        BY <1>1, <3>1, <3>4
      <4>2. g[t \ {a}] = x[j] + g[(t \ {a}) \ {j}] /\ g[t \ {j}] = x[a] + g[(t \ {j}) \ {a}]
        BY <4>1
      <4>3. (t \ {a}) \ {j} = (t \ {j}) \ {a} /\ (t \ {a}) \ {j} \in SUBSET S
        OBVIOUS
      <4>4. x[a] \in Nat /\ x[j] \in Nat /\ g[(t \ {a}) \ {j}] \in Nat
        BY <3>1, <4>3
      <4> DEFINE u == x[a]  v == x[j]  w == g[(t \ {a}) \ {j}]
      <4>5. g[t] = u + (v + w) /\ g[t \ {j}] = u + w
        <5> HIDE DEF P
        <5> QED
          BY <3>2, <4>2, <4>3
      <4> HIDE DEF P, w
      <4>6. u \in Nat /\ v \in Nat /\ w \in Nat
        BY <4>4 DEF w
      <4> HIDE DEF u, v
      <4>7. u + (v + w) = v + (u + w)
        BY <4>6
      <4>8. g[t] = v + g[t \ {j}]
        BY <4>5, <4>7
      <4> QED
        BY <4>8 DEF v
    <3> QED
      BY <3>3, <3>4
  <2> QED
    BY <2>1
<1>2. P = SUBSET S
  <2>1. P \in SUBSET SUBSET S
    OBVIOUS
  <2> HIDE DEF P
  <2> QED
    BY <1>1, <2>1, BySize
<1> QED
  BY <1>2

\* MapThenSumSet of a part of S is such a sum.
LEMMA SumIs ==
  ASSUME NEW S, IsFiniteSet(S), NEW x \in [S -> Nat], NEW g \in [SUBSET S -> Nat],
         Sums(g, S, x)
  PROVE  MapThenSumSet(LAMBDA i : x[i], S) = g[S]
<1> DEFINE D == SUBSET S
           Fix(h) == h = [s \in D |-> IF s = {} THEN 0 ELSE x[Chosen(s)] + h[s \ {Chosen(s)}]]
           fold == CHOOSE h : Fix(h)
<1>1. \E h : Fix(h)
  <2>1. Fix(g)
    BY DEF Sums
  <2> QED
    BY <2>1
<1>2. Fix(fold)
  <2> HIDE DEF Fix
  <2> QED
    BY <1>1, Zenon
<1>3. MapThenSumSet(LAMBDA i : x[i], S) = fold[S]
  BY Zenon DEF MapThenSumSet, MapThenFoldSet, Chosen
<1> HIDE DEF fold
<1>4. \A s \in D : fold[s] = IF s = {} THEN 0 ELSE x[Chosen(s)] + fold[s \ {Chosen(s)}]
  <2> DEFINE e(s) == IF s = {} THEN 0 ELSE x[Chosen(s)] + fold[s \ {Chosen(s)}]
  <2>1. fold = [s \in D |-> e(s)]
    BY <1>2, Zenon
  <2> HIDE DEF e
  <2>2. \A s \in D : fold[s] = e(s)
    BY <2>1
  <2> QED
    BY <2>2 DEF e
<1> DEFINE P == {s \in SUBSET S : fold[s] = g[s]}
<1>5. ASSUME NEW s \in SUBSET S, \A i \in s : s \ {i} \in P PROVE s \in P
  <2>1. CASE s = {}
    BY <1>4, <2>1 DEF Sums
  <2>2. CASE s # {}
    <3>1. s \ {Chosen(s)} \in P
      BY <1>5, <2>2, ChosenIs
    <3>2. fold[s] = x[Chosen(s)] + fold[s \ {Chosen(s)}] /\ g[s] = x[Chosen(s)] + g[s \ {Chosen(s)}]
      BY <1>4, <2>2 DEF Sums
    <3> QED
      BY <3>1, <3>2
  <2> QED
    BY <2>1, <2>2
<1>6. P = SUBSET S
  <2>1. P \in SUBSET SUBSET S
    OBVIOUS
  <2> HIDE DEF P
  <2> QED
    BY <1>5, <2>1, BySize
<1>7. S \in P
  BY <1>6
<1> QED
  BY <1>3, <1>7

\* v is the aggregate of x over T.
Amounts(agg, x, T, v) ==
    /\ v \in Nat
    /\ agg = "SUM" => \E g \in [SUBSET DOMAIN x -> Nat] : Sums(g, DOMAIN x, x) /\ v = g[T]
    /\ agg = "MIN" => (\E i \in T : v = x[i]) /\ \A i \in T : v <= x[i]
    /\ agg = "MAX" => (\E i \in T : v = x[i]) /\ \A i \in T : x[i] <= v

\* The sum of one.
LEMMA SumOfOne ==
  ASSUME NEW S, IsFiniteSet(S), NEW x \in [S -> Nat], NEW i \in S,
         NEW g \in [SUBSET S -> Nat], Sums(g, S, x)
  PROVE  g[{i}] = x[i]
<1>1. {i} \in SUBSET S /\ {i} \ {i} = {} /\ {} \in SUBSET S /\ {i} # {} /\ Chosen({i}) \in {i}
  BY ChosenIs
<1>2. Chosen({i}) = i
  BY <1>1
<1>3. g[{i}] = x[i] + g[{}] /\ g[{}] = 0
  BY <1>1, <1>2 DEF Sums
<1>4. x[i] \in Nat
  OBVIOUS
<1> QED
  BY <1>3, <1>4

LEMMA AmountsOne ==
  ASSUME NEW agg \in Aggregates, NEW S, IsFiniteSet(S), NEW x \in [S -> Nat], NEW i \in S
  PROVE  Amounts(agg, x, {i}, x[i])
<1>1. PICK g \in [SUBSET S -> Nat] : Sums(g, S, x)
  BY SumsExist
<1>2. g[{i}] = x[i]
  BY <1>1, SumOfOne
<1>3. DOMAIN x = S /\ x[i] \in Nat
  OBVIOUS
<1>4. \E h \in [SUBSET DOMAIN x -> Nat] : Sums(h, DOMAIN x, x) /\ x[i] = h[{i}]
  BY <1>1, <1>2, <1>3
<1>5. (\E j \in {i} : x[i] = x[j]) /\ \A j \in {i} : x[i] <= x[j] /\ x[j] <= x[i]
  BY <1>3
<1> QED
  BY <1>3, <1>4, <1>5 DEF Amounts

LEMMA AmountsMore ==
  ASSUME NEW agg \in Aggregates, NEW S, IsFiniteSet(S), NEW x \in [S -> Nat],
         NEW T \in SUBSET S, NEW i \in S, i \notin T, NEW v, Amounts(agg, x, T, v)
  PROVE  Amounts(agg, x, T \cup {i}, Combine(agg, v, x[i]))
<1>1. DOMAIN x = S /\ x[i] \in Nat /\ v \in Nat /\ \A j \in T : x[j] \in Nat
  BY DEF Amounts
<1>2. CASE agg = "SUM"
  <2>1. PICK g \in [SUBSET S -> Nat] : Sums(g, S, x) /\ v = g[T]
    BY <1>1, <1>2 DEF Amounts
  <2>2. T \cup {i} \in SUBSET S /\ i \in T \cup {i} /\ (T \cup {i}) \ {i} = T
    OBVIOUS
  <2>3. g[T \cup {i}] = x[i] + g[T]
    <3> DEFINE s == T \cup {i}
    <3>1. s \in SUBSET S /\ i \in s
      OBVIOUS
    <3> HIDE DEF s
    <3>2. g[s] = x[i] + g[s \ {i}]
      BY <2>1, <3>1, SumsOfAny
    <3> QED
      BY <2>2, <3>2 DEF s
  <2>4. Combine(agg, v, x[i]) = v + x[i]
    BY <1>2 DEF Combine
  <2>5. v + x[i] \in Nat /\ v + x[i] = g[T \cup {i}]
    BY <1>1, <2>1, <2>3
  <2> QED
    BY <1>1, <1>2, <2>1, <2>4, <2>5 DEF Amounts
<1>3. CASE agg = "MIN"
  <2>1. PICK j \in T : v = x[j]
    BY <1>3 DEF Amounts
  <2>2. \A k \in T : v <= x[k]
    BY <1>3 DEF Amounts
  <2>3. Combine(agg, v, x[i]) = IF x[i] < v THEN x[i] ELSE v
    BY <1>3 DEF Combine
  <2> DEFINE w == IF x[i] < v THEN x[i] ELSE v
  <2>4. w \in Nat /\ (\E k \in T \cup {i} : w = x[k]) /\ \A k \in T \cup {i} : w <= x[k]
    BY <1>1, <2>1, <2>2
  <2> HIDE DEF w
  <2>5. Combine(agg, v, x[i]) = w
    BY <2>3 DEF w
  <2> QED
    BY <1>3, <2>4, <2>5 DEF Amounts
<1>4. CASE agg = "MAX"
  <2>1. PICK j \in T : v = x[j]
    BY <1>4 DEF Amounts
  <2>2. \A k \in T : x[k] <= v
    BY <1>4 DEF Amounts
  <2>3. Combine(agg, v, x[i]) = IF v < x[i] THEN x[i] ELSE v
    BY <1>4 DEF Combine
  <2> DEFINE w == IF v < x[i] THEN x[i] ELSE v
  <2>4. w \in Nat /\ (\E k \in T \cup {i} : w = x[k]) /\ \A k \in T \cup {i} : x[k] <= w
    BY <1>1, <2>1, <2>2
  <2> HIDE DEF w
  <2>5. Combine(agg, v, x[i]) = w
    BY <2>3 DEF w
  <2> QED
    BY <1>4, <2>4, <2>5 DEF Amounts
<1> QED
  BY <1>2, <1>3, <1>4 DEF Aggregates

LEMMA AmountsAll ==
  ASSUME NEW agg \in Aggregates, NEW S, IsFiniteSet(S), NEW x \in [S -> Nat], NEW v,
         Amounts(agg, x, S, v)
  PROVE  Aggregate(agg, x, S) = v
<1>1. DOMAIN x = S /\ v \in Nat /\ \A j \in S : x[j] \in Nat
  BY DEF Amounts
<1> DEFINE X == {x[i] : i \in S}
<1>2. CASE agg = "SUM"
  <2>1. PICK g \in [SUBSET S -> Nat] : Sums(g, S, x) /\ v = g[S]
    BY <1>1, <1>2 DEF Amounts
  <2>2. MapThenSumSet(LAMBDA i : x[i], S) = v
    BY <2>1, SumIs
  <2> QED
    BY <1>2, <2>2, Zenon DEF Aggregate
<1>3. CASE agg = "MIN"
  <2>1. v \in X /\ \A y \in X : v <= y /\ y \in Nat
    BY <1>1, <1>3 DEF Amounts
  <2> HIDE DEF X
  <2>2. \A w \in X : (\A y \in X : w <= y) => w = v
    BY <1>1, <2>1
  <2>3. Min(X) = v
    <3>1. Min(X) \in X /\ \A y \in X : Min(X) <= y
      BY <2>1, Zenon DEF Min
    <3> QED
      BY <2>2, <3>1
  <2>4. Aggregate(agg, x, S) = Min(X)
    BY <1>3, Zenon DEF Aggregate, X
  <2> QED
    BY <2>3, <2>4
<1>4. CASE agg = "MAX"
  <2>1. v \in X /\ \A y \in X : v >= y /\ y \in Nat
    BY <1>1, <1>4 DEF Amounts
  <2> HIDE DEF X
  <2>2. \A w \in X : (\A y \in X : w >= y) => w = v
    BY <1>1, <2>1
  <2>3. Max(X) = v
    <3>1. Max(X) \in X /\ \A y \in X : Max(X) >= y
      BY <2>1, Zenon DEF Max
    <3> QED
      BY <2>2, <3>1
  <2>4. Aggregate(agg, x, S) = Max(X)
    <3>1. agg # "SUM" /\ agg # "MIN"
      BY <1>4
    <3> QED
      BY <1>4, <3>1, Zenon DEF Aggregate, X
  <2> QED
    BY <2>3, <2>4
<1> QED
  BY <1>2, <1>3, <1>4 DEF Aggregates

-----------------------------------------------------------------------------
(* What unions and intersections are.                                      *)

\* The first of a set of numbers.
Upto(H, k) == {i \in H : i <= k}

LEMMA UptoIs ==
  ASSUME NEW n \in Nat, NEW H \in SUBSET (1 .. n)
  PROVE  Upto(H, 0) = {} /\ Upto(H, n) = H
<1>1. \A i \in H : i \in Nat /\ 1 <= i /\ i <= n /\ ~(i <= 0)
  OBVIOUS
<1>2. Upto(H, 0) = {}
  BY <1>1 DEF Upto
<1>3. Upto(H, n) = H
  BY <1>1, Zenon DEF Upto
<1> QED
  BY <1>2, <1>3

\* i is the next number after the first of H.
UptoNext(H, k, i) ==
    /\ Upto(H, k) \in SUBSET H /\ i \notin Upto(H, k)
    /\ i \in H => Upto(H, i) = Upto(H, k) \cup {i}
    /\ i \notin H => Upto(H, i) = Upto(H, k)

LEMMA UptoGrows ==
  ASSUME NEW H \in SUBSET Nat, NEW k \in Nat, NEW i, i = k + 1
  PROVE  UptoNext(H, k, i)
<1>1. \A j \in H : j <= i <=> j <= k \/ j = i
  OBVIOUS
<1>2. ~(i <= k)
  OBVIOUS
<1> QED
  BY <1>1, <1>2 DEF UptoNext, Upto

\* The members of a union and their scores.
LEMMA UnionIsExact ==
  ASSUME TypeOK, NEW dest \in Keys, NEW n \in Nat, NEW ks \in [1 .. n -> Keys],
         NEW ws \in [1 .. n -> Weights], NEW agg \in Aggregates,
         \A i \in 1 .. n : ks[i] # dest
  PROVE  UnionAddsUp(dest, ks, ws, agg)
<1>1. PICK u : Unites(u, n, dest, ks, ws, agg) /\ Union(dest, ks, ws, agg) = u[n]
  BY UnionUnites
<1>2. \A i \in 0 .. n : u[i] \in Partial
  BY <1>1, UnitedIs
<1>3. ASSUME NEW m \in Members
      PROVE  /\ m \in DOMAIN u[n] <=> Having(ks, m) # {}
             /\ m \in DOMAIN u[n] => u[n][m] = Total(ks, ws, agg, m)
  <2> DEFINE H == Having(ks, m)
             x == [i \in H |-> sets[ks[i]].map[m] * ws[i]]
             Done == {k \in Nat : k <= n =>
                         /\ m \in DOMAIN u[k] <=> Upto(H, k) # {}
                         /\ m \in DOMAIN u[k] => Amounts(agg, x, Upto(H, k), u[k][m])}
  <2>1. H \in SUBSET (1 .. n) /\ IsFiniteSet(H)
    <3>1. H \in SUBSET (1 .. n)
      BY DEF Having
    <3>2. IsFiniteSet(1 .. n)
      BY FS_Interval
    <3> QED
      BY <3>1, <3>2, FS_Subset
  <2>2. x \in [H -> Nat]
    <3>1. ASSUME NEW i \in H PROVE sets[ks[i]].map[m] * ws[i] \in Nat
      <4>1. ks[i] \in Keys /\ ws[i] \in Nat /\ m \in DOMAIN sets[ks[i]].map
        BY <2>1, WeightsAssumption DEF Having
      <4>2. sets[ks[i]].map[m] \in Nat
        BY <4>1, SetsAre
      <4> QED
        BY <4>1, <4>2
    <3> HIDE DEF H
    <3> QED
      BY <3>1
  <2>3. \A i \in 1 .. n : i \in H <=> m \in DOMAIN sets[ks[i]].map
    BY DEF Having
  <2>4. \A i \in H : x[i] = sets[ks[i]].map[m] * ws[i]
    OBVIOUS
  <2> HIDE DEF H, x
  <2>0. Upto(H, 0) = {} /\ Upto(H, n) = H /\ H \in SUBSET Nat
    BY <2>1, UptoIs
  <2>5. 0 \in Done
    <3>1. Upto(H, 0) = {}
      BY <2>0
    <3>2. DOMAIN u[0] = {}
      BY <1>1 DEF Unites, EmptySet
    <3> QED
      BY <3>1, <3>2
  <2>6. ASSUME NEW k \in Nat, k \in Done PROVE k + 1 \in Done
    <3> SUFFICES ASSUME k + 1 <= n
                 PROVE  /\ m \in DOMAIN u[k + 1] <=> Upto(H, k + 1) # {}
                        /\ m \in DOMAIN u[k + 1]
                              => Amounts(agg, x, Upto(H, k + 1), u[k + 1][m])
      OBVIOUS
    <3> DEFINE i == k + 1
    <3>1. i \in 1 .. n /\ i - 1 = k /\ k \in 0 .. n
      OBVIOUS
    <3>2. /\ m \in DOMAIN u[k] <=> Upto(H, k) # {}
          /\ m \in DOMAIN u[k] => Amounts(agg, x, Upto(H, k), u[k][m])
      BY <2>6
    <3>3. u[i] = Joined(dest, ks, ws, agg, u[k], i) /\ Source(dest, ks, u[k], i) = sets[ks[i]].map
      BY <1>1, <3>1 DEF Unites, Source
    <3>4. DOMAIN u[i] = DOMAIN u[k] \cup DOMAIN sets[ks[i]].map
      BY <3>3 DEF Joined
    <3>5. /\ Upto(H, k) \in SUBSET H /\ i \notin Upto(H, k)
          /\ i \in H => Upto(H, i) = Upto(H, k) \cup {i}
          /\ i \notin H => Upto(H, i) = Upto(H, k)
      <4>1. UptoNext(H, k, i)
        BY <2>0, UptoGrows
      <4> QED
        BY <4>1 DEF UptoNext
    <3>6. CASE i \in H
      <4>1. Upto(H, i) = Upto(H, k) \cup {i}
        BY <3>5, <3>6
      <4>2. m \in DOMAIN u[i] /\ Upto(H, i) # {}
        BY <2>3, <3>1, <3>4, <3>6, <4>1
      <4>3. u[i][m] = Met(u[k], agg, m, x[i])
        <5>1. m \in DOMAIN sets[ks[i]].map
          BY <2>3, <3>1, <3>6
        <5>2. u[i][m] = Met(u[k], agg, m, sets[ks[i]].map[m] * ws[i])
          BY <3>3, <5>1 DEF Joined
        <5> QED
          BY <2>4, <3>6, <5>2
      <4>4. Amounts(agg, x, Upto(H, i), u[i][m])
        <5>1. CASE m \in DOMAIN u[k]
          <6>1. u[i][m] = Combine(agg, u[k][m], x[i])
            BY <4>3, <5>1 DEF Met
          <6>2. Amounts(agg, x, Upto(H, k), u[k][m])
            BY <3>2, <5>1
          <6> HIDE DEF i
          <6>3. Amounts(agg, x, Upto(H, k) \cup {i}, Combine(agg, u[k][m], x[i]))
            BY <2>1, <2>2, <3>5, <3>6, <6>2, AmountsMore
          <6> QED
            BY <4>1, <6>1, <6>3
        <5>2. CASE m \notin DOMAIN u[k]
          <6>1. u[i][m] = x[i]
            BY <4>3, <5>2 DEF Met
          <6>2. Upto(H, i) = {i}
            BY <3>2, <4>1, <5>2
          <6> HIDE DEF i
          <6>3. Amounts(agg, x, {i}, x[i])
            BY <2>1, <2>2, <3>6, AmountsOne
          <6> QED
            BY <6>1, <6>2, <6>3
        <5> QED
          BY <5>1, <5>2
      <4> QED
        BY <4>2, <4>4
    <3>7. CASE i \notin H
      <4>1. Upto(H, i) = Upto(H, k)
        BY <3>5, <3>7
      <4>2. m \notin DOMAIN sets[ks[i]].map
        BY <2>3, <3>1, <3>7
      <4>3. m \in DOMAIN u[i] <=> m \in DOMAIN u[k]
        BY <3>4, <4>2
      <4>4. m \in DOMAIN u[k] => u[i][m] = u[k][m]
        BY <3>3, <4>2 DEF Joined
      <4> HIDE DEF i
      <4>5. /\ m \in DOMAIN u[i] <=> Upto(H, i) # {}
            /\ m \in DOMAIN u[i] => Amounts(agg, x, Upto(H, i), u[i][m])
        BY <3>2, <4>1, <4>3, <4>4
      <4> QED
        BY <4>5 DEF i
    <3> QED
      BY <3>6, <3>7
  <2>7. n \in Done
    <3> HIDE DEF Done
    <3> QED
      BY <2>5, <2>6, Inductive
  <2>8. Upto(H, n) = H
    BY <2>0
  <2>9. /\ m \in DOMAIN u[n] <=> H # {}
        /\ m \in DOMAIN u[n] => Amounts(agg, x, H, u[n][m])
    <3> QED
      BY <2>7, <2>8
  <2>10. m \in DOMAIN u[n] => Aggregate(agg, x, H) = u[n][m]
    BY <2>1, <2>2, <2>9, AmountsAll
  <2> QED
    BY <2>9, <2>10 DEF Total, H, x
<1>4. DOMAIN u[n] \in SUBSET Members /\ u[n] = [m \in DOMAIN u[n] |-> u[n][m]]
  <2>1. u[n] \in Partial
    BY <1>2
  <2> QED
    BY <2>1, PartialAre
<1>5. DOMAIN u[n] = {x \in Members : Having(ks, x) # {}}
  BY <1>3, <1>4
<1>6. u[n] = [m \in DOMAIN u[n] |-> Total(ks, ws, agg, m)]
  BY <1>3, <1>4
<1> QED
  BY <1>1, <1>5, <1>6 DEF UnionAddsUp

\* The score of a member of two sources: it meets the second one once.
LEMMA MeetOnce ==
  ASSUME NEW ks, NEW ws, NEW agg, NEW m, Len(ks) = 2
  PROVE  LET meet(x, i) == Combine(agg, x * ws[1], sets[ks[i]].map[m] * ws[i])
         IN  FoldLeft(meet, sets[ks[1]].map[m], [i \in 1 .. Len(ks) - 1 |-> i + 1])
                = Combine(agg, sets[ks[1]].map[m] * ws[1], sets[ks[2]].map[m] * ws[2])
<1> DEFINE op(x, i) == Combine(agg, x * ws[1], sets[ks[i]].map[m] * ws[i])
           is == [i \in 1 .. Len(ks) - 1 |-> i + 1]
           base == sets[ks[1]].map[m]
           D == SUBSET DOMAIN is
           Fix(h) == h = [s \in D |-> IF s = {}
                                         THEN base
                                         ELSE op(h[s \ {Max(s)}], is[Max(s)])]
           fold == CHOOSE h : Fix(h)
           g == [s \in D |-> IF s = {} THEN base ELSE op(base, 2)]
<1>1. DOMAIN is = {1} /\ D = {{}, {1}} /\ is[1] = 2
  <2>1. 1 .. Len(ks) - 1 = {1}
    OBVIOUS
  <2>2. DOMAIN is = {1} /\ is[1] = 2
    BY <2>1
  <2>3. SUBSET {1} = {{}, {1}}
    OBVIOUS
  <2> QED
    BY <2>2, <2>3
<1>2. Max({1}) = 1 /\ {1} \ {1} = {}
  BY PrefixIs, Greatest
<1> HIDE DEF op, is, base, D
<1>3. \A s \in D : s = {} \/ s = {1}
  BY <1>1
<1>4. \E h : Fix(h)
  <2>1. g[{}] = base /\ g[{1}] = op(base, 2)
    BY <1>1
  <2>2. ASSUME NEW s \in D
        PROVE  g[s] = IF s = {} THEN base ELSE op(g[s \ {Max(s)}], is[Max(s)])
    BY <1>1, <1>2, <1>3, <2>1
  <2>3. Fix(g)
    BY <2>2
  <2> QED
    BY <2>3
<1>5. Fix(fold)
  <2> HIDE DEF Fix
  <2> QED
    BY <1>4, Zenon
<1>6. FoldLeft(op, base, is) = fold[DOMAIN is]
  BY Zenon DEF FoldLeft, MapThenFoldSet, op, is, base, D
<1> HIDE DEF fold
<1>7. \A s \in D : fold[s] = IF s = {} THEN base ELSE op(fold[s \ {Max(s)}], is[Max(s)])
  <2> DEFINE e(s) == IF s = {} THEN base ELSE op(fold[s \ {Max(s)}], is[Max(s)])
  <2>1. fold = [s \in D |-> e(s)]
    BY <1>5, Zenon
  <2> HIDE DEF e
  <2>2. \A s \in D : fold[s] = e(s)
    BY <2>1
  <2> QED
    BY <2>2 DEF e
<1>8. fold[{}] = base /\ fold[{1}] = op(fold[{}], 2)
  BY <1>1, <1>2, <1>7
<1>9. FoldLeft(op, base, is) = op(base, 2)
  BY <1>1, <1>6, <1>8
<1> QED
  BY <1>9, Zenon DEF op, is, base

LEMMA TwoAreFinite == IsFiniteSet({1, 2})
<1>1. IsFiniteSet({1})
  BY FS_Singleton
<1>2. IsFiniteSet({1} \cup {2})
  BY <1>1, FS_AddElement
<1>3. {1} \cup {2} = {1, 2}
  OBVIOUS
<1> QED
  BY <1>2, <1>3

\* The members of the intersection of two sources and their scores.
LEMMA IntersectionIsExact ==
  ASSUME TypeOK, NEW ks \in [1 .. 2 -> Keys], NEW ws \in [1 .. 2 -> Weights],
         NEW agg \in Aggregates, Len(ks) = 2
  PROVE  IntersectionAddsUp(ks, ws, agg)
<1> DEFINE shared == {m \in DOMAIN sets[ks[1]].map :
                         \A i \in DOMAIN ks : m \in DOMAIN sets[ks[i]].map}
           meets(m) == Combine(agg, sets[ks[1]].map[m] * ws[1], sets[ks[2]].map[m] * ws[2])
           score(m) == FoldLeft(LAMBDA x, i : Combine(agg, x * ws[1], sets[ks[i]].map[m] * ws[i]),
                                sets[ks[1]].map[m], [i \in 1 .. Len(ks) - 1 |-> i + 1])
<1>1. DOMAIN ks = {1, 2} /\ ks[1] \in Keys /\ ks[2] \in Keys /\ ws[1] \in Nat /\ ws[2] \in Nat
  <2>1. 1 .. 2 = {1, 2}
    OBVIOUS
  <2> QED
    BY <2>1, WeightsAssumption
<1>2. shared = {x \in Members : Having(ks, x) = {1, 2}}
  <2>1. DOMAIN sets[ks[1]].map \in SUBSET Members
    BY <1>1, SetsAre
  <2> QED
    BY <1>1, <2>1 DEF Having
<1>3. Intersection(ks, ws, agg) = [m \in shared |-> score(m)]
  BY Zenon DEF Intersection
<1>4. \A m \in shared : score(m) = meets(m)
  BY MeetOnce, Zenon
<1>5. ASSUME NEW m \in shared PROVE meets(m) = Total(ks, ws, agg, m)
  <2> DEFINE x == [i \in {1, 2} |-> sets[ks[i]].map[m] * ws[i]]
  <2>1. Having(ks, m) = {1, 2} /\ m \in DOMAIN sets[ks[1]].map /\ m \in DOMAIN sets[ks[2]].map
    BY <1>1, <1>2
  <2>2. x \in [{1, 2} -> Nat]
    <3>1. sets[ks[1]].map[m] \in Nat /\ sets[ks[2]].map[m] \in Nat
      BY <1>1, <2>1, SetsAre
    <3> DEFINE a == sets[ks[1]].map[m]  b == sets[ks[2]].map[m]
    <3>2. a * ws[1] \in Nat /\ b * ws[2] \in Nat
      <4> HIDE DEF a, b
      <4> QED
        BY <1>1, <3>1 DEF a, b
    <3> QED
      BY <3>2
  <2>3. IsFiniteSet({1, 2}) /\ 1 \in {1, 2} /\ 2 \in {1, 2} /\ {1} \cup {2} = {1, 2}
        /\ {1} \in SUBSET {1, 2} /\ 2 \notin {1}
    BY TwoAreFinite
  <2>4. meets(m) = Combine(agg, x[1], x[2])
    OBVIOUS
  <2>5. Total(ks, ws, agg, m) = Aggregate(agg, x, {1, 2})
    BY <2>1 DEF Total
  <2> HIDE DEF x, meets
  <2>6. Amounts(agg, x, {1}, x[1])
    BY <2>2, <2>3, AmountsOne
  <2>7. Amounts(agg, x, {1} \cup {2}, Combine(agg, x[1], x[2]))
    BY <2>2, <2>3, <2>6, AmountsMore
  <2>8. Aggregate(agg, x, {1, 2}) = Combine(agg, x[1], x[2])
    BY <2>2, <2>3, <2>7, AmountsAll
  <2> QED
    BY <2>4, <2>5, <2>8
<1> HIDE DEF shared, meets, score
<1>6. Intersection(ks, ws, agg) = [m \in shared |-> Total(ks, ws, agg, m)]
  BY <1>3, <1>4, <1>5
<1> QED
  BY <1>2, <1>6 DEF IntersectionAddsUp

-----------------------------------------------------------------------------

\* Both indexes keep their types: maps from members to scores, lists of items.
THEOREM SortedSetsTypes == Spec => []TypeOK
BY SetsInvariant, PTL

\* The list has an item for each member, so that no rank below the size of the map
\* is past its end (SortedSetMap::range, remByRank), even where intersections have
\* left other items in it, and insertions that it refuses have failed half-way.
THEOREM NoRankIsPastTheEnd == Spec => []MembersAreListed
BY SetsInvariant, PTL

\* Of all commands ZINTERSTORE alone parts the indexes, and only those of its
\* destination: in particular no removal by rank, score or name does, because the
\* binary search never leaves the list (bound).
THEOREM IndexesStayTogether == Spec => OnlyIntersectionsMisalign
<1> DEFINE A == \A k \in Keys :
                   (\A l \in Keys : Aligned(sets[l])) /\ ~Aligned(sets'[k])
                      => \E ks \in Sources : \E ws \in WeightsOf(ks), agg \in Aggregates :
                            ZInterStore(k, ks, ws, agg)
<1>1. ASSUME TypeOK, Next PROVE A
  <2> SUFFICES ASSUME NEW k \in Keys, \A l \in Keys : Aligned(sets[l]), ~Aligned(sets'[k])
               PROVE  \E ks \in Sources : \E ws \in WeightsOf(ks), agg \in Aggregates :
                         ZInterStore(k, ks, ws, agg)
    OBVIOUS
  <2>1. ~KeptOrder
    BY DEF KeptOrder
  <2>2. PICK x \in Keys, ks \in Sources :
           \E ws \in WeightsOf(ks), agg \in Aggregates :
              /\ ZInterStore(x, ks, ws, agg)
              /\ \A l \in Keys : l # x => sets'[l] = sets[l]
    BY <1>1, <2>1, StepKeeps
  <2>3. x = k
    BY <2>2
  <2> QED
    BY <2>2, <2>3
<1>2. TypeOK /\ [Next]_vars => [A]_vars
  BY <1>1
<1>3. Spec => [][A]_vars
  <2> HIDE DEF A
  <2> QED
    BY <1>2, SortedSetsTypes, PTL DEF Spec
<1> QED
  BY <1>3 DEF OnlyIntersectionsMisalign

\* Where the indexes agree, the reads and the removals by score find exactly what is
\* within their limits, those by member too if all the scores are equal, and a
\* member's rank is its place (count, rangeByScore, rangeByLex, getRank): for sets
\* of any size, which the binary search halves any number of times.
THEOREM RangesFindWhatIsWithin == Spec => []RangesAreExact
<1>1. TypeOK => RangesAreExact
  <2> SUFFICES ASSUME TypeOK, NEW k \in Keys, Aligned(sets[k])
               PROVE  ReadsAreExact(sets[k])
    BY DEF RangesAreExact
  <2>1. sets[k] \in SortedSet
    BY TypesOfSets
  <2> QED
    BY <2>1, AlignedIsExact
<1> QED
  BY <1>1, SortedSetsTypes, PTL

\* Where the destination is no source, a union gives every member of a source the
\* sum, the least or the greatest of its weighted scores, and so does an
\* intersection of two to the members that they share (uni, intersect).
THEOREM CombinationsAddUp == Spec => []CombinationsAreExact
<1>1. TypeOK => CombinationsAreExact
  <2> SUFFICES ASSUME TypeOK, NEW ks \in Sources, NEW ws \in WeightsOf(ks),
                      NEW agg \in Aggregates
               PROVE  /\ \A dest \in Keys \ ToSet(ks) : UnionAddsUp(dest, ks, ws, agg)
                      /\ Len(ks) = 2 => IntersectionAddsUp(ks, ws, agg)
    BY DEF CombinationsAreExact
  <2>1. PICK n \in Nat \ {0} : ks \in [1 .. n -> Keys] /\ ws \in [1 .. n -> Weights]
    BY ArgumentsAre
  <2>2. ASSUME NEW dest \in Keys \ ToSet(ks)
        PROVE  UnionAddsUp(dest, ks, ws, agg)
    <3>1. \A i \in 1 .. n : ks[i] # dest
      BY <2>1 DEF ToSet
    <3>2. dest \in Keys /\ n \in Nat
      OBVIOUS
    <3> QED
      BY <2>1, <3>1, <3>2, UnionIsExact
  <2>3. ASSUME Len(ks) = 2
        PROVE  IntersectionAddsUp(ks, ws, agg)
    <3>1. n = 2
      <4>1. ks \in Seq(Keys) /\ DOMAIN ks = 1 .. n
        BY <2>1
      <4>2. DOMAIN ks = 1 .. 2
        BY <2>3, <4>1, LenProperties
      <4>3. n \in 1 .. n /\ 2 \in 1 .. 2
        BY <2>1
      <4>4. n \in 1 .. 2 /\ 2 \in 1 .. n
        BY <4>1, <4>2, <4>3
      <4> QED
        BY <2>1, <4>4
    <3> QED
      BY <2>1, <2>3, <3>1, IntersectionIsExact
  <2> QED
    BY <2>2, <2>3
<1> QED
  BY <1>1, SortedSetsTypes, PTL

=============================================================================
