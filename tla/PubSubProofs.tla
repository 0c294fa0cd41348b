---------------------------- MODULE PubSubProofs ----------------------------
(***************************************************************************)
(* Proofs about PubSub: its types and bounds, that who stays connected is  *)
(* told as often as it has subscribed, and that who is away all the while  *)
(* is forgotten.                                                           *)
(*                                                                         *)
(* The first lemmas count: a list that an id is removed from, and the      *)
(* entries that a publish copies, are arrangements of what they are made   *)
(* of.                                                                     *)
(***************************************************************************)
EXTENDS PubSub, RecursionProofs, FiniteSetTheorems

-----------------------------------------------------------------------------
(* Counting.                                                               *)

\* Where a list has other elements than x.
Kept(q, x) == {i \in 1 .. Len(q) : q[i] # x}

\* What is left of a list once an id is removed from it.
LEMMA WithoutArranges ==
  ASSUME NEW S, NEW q \in Seq(S), NEW x
  PROVE  /\ Without(q, x) \in Seq(S)
         /\ \E c \in Bijection(1 .. Len(Without(q, x)), Kept(q, x)) :
               \A i \in 1 .. Len(Without(q, x)) : Without(q, x)[i] = q[c[i]]
<1> DEFINE seqs == [i \in DOMAIN q |-> IF q[i] = x THEN <<>> ELSE <<q[i]>>]
           w == FlattenSeq(seqs)
<1>1. Len(q) \in Nat /\ DOMAIN q = 1 .. Len(q)
  BY LenProperties
<1>2. \A i \in 1 .. Len(q) : q[i] \in S
  BY ElementOfSeq
<1>3. \A i \in 1 .. Len(q) : /\ q[i] = x => seqs[i] = <<>> /\ Len(seqs[i]) = 0
                             /\ q[i] # x => /\ seqs[i] = <<q[i]>> /\ Len(seqs[i]) = 1
                                            /\ seqs[i][1] = q[i]
  BY <1>1
<1>4. seqs \in Seq(Seq(S)) /\ Len(seqs) = Len(q)
  <2>1. ASSUME NEW i \in 1 .. Len(q) PROVE seqs[i] \in Seq(S)
    BY <1>2, <1>3
  <2>2. seqs \in [1 .. Len(q) -> Seq(S)]
    BY <1>1, <2>1
  <2> QED
    BY <1>1, <2>2
<1> HIDE DEF seqs
<1>5. Flat(w, S, seqs, Len(q))
  BY <1>4, Flattened
<1>6. PICK b \in Bijection(1 .. Len(w), Places(seqs, Len(q))) :
        \A i \in 1 .. Len(w) : w[i] = seqs[b[i][1]][b[i][2]]
  BY <1>5 DEF Flat
<1> HIDE DEF w
<1>7. ASSUME NEW p \in Places(seqs, Len(q)) PROVE p[1] \in Kept(q, x) /\ p = <<p[1], 1>>
  <2>1. p[1] \in 1 .. Len(q) /\ p[2] \in Nat /\ p = <<p[1], p[2]>> /\ p[2] \in 1 .. Len(seqs[p[1]])
    BY DEF Places
  <2>2. q[p[1]] # x
    BY <1>3, <2>1
  <2>3. p[2] = 1
    <3>1. Len(seqs[p[1]]) = 1
      BY <1>3, <2>1, <2>2
    <3> QED
      BY <2>1, <3>1
  <2> QED
    BY <2>1, <2>2, <2>3 DEF Kept
<1>8. ASSUME NEW i \in Kept(q, x) PROVE <<i, 1>> \in Places(seqs, Len(q))
  BY <1>3 DEF Places, Kept
<1>9. /\ \A i \in 1 .. Len(w) : b[i] \in Places(seqs, Len(q))
      /\ \A i, j \in 1 .. Len(w) : b[i] = b[j] => i = j
      /\ \A p \in Places(seqs, Len(q)) : \E i \in 1 .. Len(w) : b[i] = p
  BY <1>6 DEF Bijection, Injection, Surjection, IsInjective
<1>10. PICK c : c = [i \in 1 .. Len(w) |-> b[i][1]]
  OBVIOUS
<1>11. c \in Bijection(1 .. Len(w), Kept(q, x))
  <2>1. c \in [1 .. Len(w) -> Kept(q, x)]
    BY <1>7, <1>9, <1>10
  <2>2. ASSUME NEW i \in 1 .. Len(w), NEW j \in 1 .. Len(w), c[i] = c[j] PROVE i = j
    <3>1. b[i] = <<c[i], 1>> /\ b[j] = <<c[j], 1>>
      BY <1>7, <1>9, <1>10
    <3> QED
      BY <1>9, <2>2, <3>1
  <2>3. ASSUME NEW k \in Kept(q, x) PROVE \E i \in 1 .. Len(w) : c[i] = k
    <3>1. PICK i \in 1 .. Len(w) : b[i] = <<k, 1>>
      BY <1>8, <1>9
    <3> QED
      BY <1>10, <3>1
  <2> QED
    BY <2>1, <2>2, <2>3 DEF Bijection, Injection, Surjection, IsInjective
<1>12. ASSUME NEW i \in 1 .. Len(w) PROVE w[i] = q[c[i]]
  <2>1. b[i][1] = c[i] /\ b[i][2] = 1 /\ c[i] \in Kept(q, x)
    BY <1>7, <1>9, <1>10
  <2> QED
    BY <1>3, <1>6, <2>1 DEF Kept
<1>13. w = Without(q, x)
  BY DEF w, seqs, Without
<1>14. w \in Seq(S)
  BY <1>5 DEF Flat
<1>15. \E d \in Bijection(1 .. Len(w), Kept(q, x)) : \A i \in 1 .. Len(w) : w[i] = q[d[i]]
  BY <1>11, <1>12
<1> QED
  BY <1>13, <1>14, <1>15

\* Where a list has entries of an id.
Of(q, s) == {i \in DOMAIN q : q[i].sid = s}

\* The tail of a list has one entry of an id less, or as many.
LEMMA TailCounts ==
  ASSUME NEW S, NEW q \in Seq(S), q # <<>>, NEW s
  PROVE  /\ Cardinality(Of(q, s)) \in Nat /\ Cardinality(Of(Tail(q), s)) \in Nat
         /\ Cardinality(Of(q, s))
               = Cardinality(Of(Tail(q), s)) + (IF Head(q).sid = s THEN 1 ELSE 0)
<1> DEFINE A == Of(q, s)
           T == Of(Tail(q), s)
           f == [i \in T |-> i + 1]
<1>1. /\ Len(q) \in Nat \ {0} /\ DOMAIN q = 1 .. Len(q) /\ Head(q) = q[1]
      /\ Len(Tail(q)) = Len(q) - 1 /\ DOMAIN Tail(q) = 1 .. Len(q) - 1
      /\ \A i \in 1 .. Len(q) - 1 : Tail(q)[i] = q[i + 1]
  <2>1. Tail(q) \in Seq(S) /\ Len(q) \in Nat /\ DOMAIN q = 1 .. Len(q) /\ Len(q) # 0 /\ Head(q) = q[1]
    BY HeadTailProperties, LenProperties, EmptySeq
  <2>2. Len(Tail(q)) = Len(q) - 1 /\ \A i \in 1 .. Len(Tail(q)) : Tail(q)[i] = q[i + 1]
    BY HeadTailProperties
  <2>3. DOMAIN Tail(q) = 1 .. Len(Tail(q))
    BY <2>1, LenProperties
  <2> QED
    BY <2>1, <2>2, <2>3
<1>2. IsFiniteSet(A) /\ Cardinality(A) \in Nat
  <2>1. IsFiniteSet(1 .. Len(q)) /\ A \in SUBSET (1 .. Len(q))
    BY <1>1, FS_Interval DEF Of
  <2> QED
    BY <2>1, FS_Subset, FS_CardinalityType
<1>3. f \in Bijection(T, A \ {1})
  <2>1. \A i \in T : i \in Nat /\ i + 1 \in A \ {1}
    BY <1>1 DEF Of
  <2>2. \A j \in A \ {1} : j - 1 \in T /\ (j - 1) + 1 = j
    BY <1>1 DEF Of
  <2>3. f \in [T -> A \ {1}] /\ \A i \in T : f[i] = i + 1
    BY <2>1
  <2> HIDE DEF T, f
  <2>4. \A i, j \in T : f[i] = f[j] => i = j
    BY <2>1, <2>3
  <2>5. \A j \in A \ {1} : \E i \in T : f[i] = j
    BY <2>2, <2>3
  <2> QED
    BY <2>3, <2>4, <2>5 DEF Bijection, Injection, Surjection, IsInjective
<1>4. 1 \in A <=> Head(q).sid = s
  BY <1>1 DEF Of
<1> HIDE DEF A, T, f
<1>5. /\ IsFiniteSet(A \ {1}) /\ Cardinality(A \ {1}) \in Nat
      /\ Cardinality(A \ {1}) = IF 1 \in A THEN Cardinality(A) - 1 ELSE Cardinality(A)
  BY <1>2, FS_RemoveElement, FS_CardinalityType
<1>6. ExistsBijection(T, A \ {1})
  BY <1>3 DEF ExistsBijection
<1>7. Cardinality(T) = Cardinality(A \ {1})
  BY <1>5, <1>6, Fun_ExistsBijSymmetric, FS_Bijection
<1>8. Cardinality(A) = Cardinality(T) + (IF 1 \in A THEN 1 ELSE 0)
  BY <1>2, <1>5, <1>7
<1>9. Cardinality(A) = Cardinality(T) + (IF Head(q).sid = s THEN 1 ELSE 0)
  BY <1>4, <1>8
<1>10. Cardinality(T) \in Nat
  BY <1>5, <1>7
<1> QED
  BY <1>2, <1>9, <1>10 DEF A, T

\* Whoever is removed from the lists of ns, the entries of the others stay: each
\* entry that is held afterwards was held before.
LEMMA ForgottenMaps ==
  ASSUME TypeOK, NEW ns, NEW x, subscribers' = Forgotten(ns, x)
  PROVE  /\ subscribers' \in [Names -> Seq(Sids)]
         /\ \A n \in Names : subscribers[n] = <<>> => subscribers'[n] = <<>>
         /\ \A n \in ns \cap Names : \A i \in DOMAIN subscribers'[n] : subscribers'[n][i] # x
         /\ \E F \in Injection(Held', Held) :
               /\ \A e \in Held' : /\ F[e][1] = e[1]
                                   /\ subscribers'[e[1]][e[2]] = subscribers[e[1]][F[e][2]]
               /\ \A e \in Held : subscribers[e[1]][e[2]] # x => \E d \in Held' : F[d] = e
<1>1. ASSUME NEW n \in Names
      PROVE  /\ subscribers[n] \in Seq(Sids) /\ Len(subscribers[n]) \in Nat
             /\ DOMAIN subscribers[n] = 1 .. Len(subscribers[n])
             /\ subscribers'[n] = IF n \in ns THEN Without(subscribers[n], x) ELSE subscribers[n]
  BY LenProperties DEF TypeOK, Forgotten
<1>2. ASSUME NEW n \in Names
      PROVE  /\ subscribers'[n] \in Seq(Sids)
             /\ DOMAIN subscribers'[n] = 1 .. Len(subscribers'[n])
             /\ \E c \in Injection(DOMAIN subscribers'[n], DOMAIN subscribers[n]) :
                   /\ \A i \in DOMAIN subscribers'[n] :
                         /\ subscribers'[n][i] = subscribers[n][c[i]]
                         /\ n \in ns => subscribers'[n][i] # x
                   /\ \A i \in DOMAIN subscribers[n] :
                         subscribers[n][i] # x => \E j \in DOMAIN subscribers'[n] : c[j] = i
  <2>1. CASE n \in ns
    <3>1. PICK q \in Seq(Sids) : q = subscribers[n]
      BY <1>1
    <3>2. PICK w \in Seq(Sids) : w = Without(q, x)
      BY WithoutArranges
    <3>3. PICK c \in Bijection(1 .. Len(w), Kept(q, x)) :
            \A i \in 1 .. Len(w) : w[i] = q[c[i]]
      BY <3>2, WithoutArranges
    <3>4. /\ c \in [1 .. Len(w) -> Kept(q, x)]
          /\ \A i, j \in 1 .. Len(w) : c[i] = c[j] => i = j
          /\ \A i \in Kept(q, x) : \E j \in 1 .. Len(w) : c[j] = i
      BY <3>3 DEF Bijection, Injection, Surjection, IsInjective
    <3>5. c \in [1 .. Len(w) -> 1 .. Len(q)] /\ \A i \in 1 .. Len(w) : q[c[i]] # x
      BY <3>4 DEF Kept
    <3>6. c \in Injection(1 .. Len(w), 1 .. Len(q))
      BY <3>4, <3>5 DEF Injection, IsInjective
    <3>7. DOMAIN q = 1 .. Len(q) /\ DOMAIN w = 1 .. Len(w)
      BY LenProperties
    <3>8. subscribers'[n] = w
      BY <1>1, <2>1, <3>1, <3>2
    <3>9. /\ c \in Injection(DOMAIN w, DOMAIN q)
          /\ \A i \in DOMAIN w : w[i] = q[c[i]] /\ w[i] # x
          /\ \A i \in DOMAIN q : q[i] # x => \E j \in DOMAIN w : c[j] = i
      BY <3>3, <3>4, <3>5, <3>6, <3>7 DEF Kept
    <3> QED
      BY <3>1, <3>7, <3>8, <3>9
  <2>2. CASE n \notin ns
    <3> DEFINE c == [i \in DOMAIN subscribers[n] |-> i]
    <3>1. subscribers'[n] = subscribers[n]
      BY <1>1, <2>2
    <3>2. c \in Injection(DOMAIN subscribers[n], DOMAIN subscribers[n])
      BY DEF Injection, IsInjective
    <3>3. \A i \in DOMAIN subscribers[n] : c[i] = i
      OBVIOUS
    <3> HIDE DEF c
    <3> QED
      BY <1>1, <2>2, <3>1, <3>2, <3>3
  <2> QED
    BY <2>1, <2>2
<1> DEFINE Maps(n, c) ==
      /\ c \in Injection(DOMAIN subscribers'[n], DOMAIN subscribers[n])
      /\ \A i \in DOMAIN subscribers'[n] :
            /\ subscribers'[n][i] = subscribers[n][c[i]]
            /\ n \in ns => subscribers'[n][i] # x
      /\ \A i \in DOMAIN subscribers[n] :
            subscribers[n][i] # x => \E j \in DOMAIN subscribers'[n] : c[j] = i
<1>3. \A n \in Names : \E c : Maps(n, c)
  BY <1>2
<1> HIDE DEF Maps
<1>4. PICK C : \A n \in Names : Maps(n, C[n])
  <2>1. \A n \in Names : Maps(n, [m \in Names |-> CHOOSE c : Maps(m, c)][n])
    BY <1>3
  <2> QED
    BY <2>1
<1>5. ASSUME NEW n \in Names
      PROVE  /\ \A i \in DOMAIN subscribers'[n] :
                   /\ C[n][i] \in DOMAIN subscribers[n]
                   /\ subscribers'[n][i] = subscribers[n][C[n][i]]
                   /\ n \in ns => subscribers'[n][i] # x
             /\ \A i, j \in DOMAIN subscribers'[n] : C[n][i] = C[n][j] => i = j
             /\ \A i \in DOMAIN subscribers[n] :
                   subscribers[n][i] # x => \E j \in DOMAIN subscribers'[n] : C[n][j] = i
  BY <1>4 DEF Maps, Injection, IsInjective
<1>6. /\ \A e \in Held : e[1] \in Names /\ e[2] \in DOMAIN subscribers[e[1]] /\ e = <<e[1], e[2]>>
      /\ \A n \in Names : \A i \in DOMAIN subscribers[n] : <<n, i>> \in Held
  BY DEF Held
<1>7. /\ \A e \in Held' : e[1] \in Names /\ e[2] \in DOMAIN subscribers'[e[1]] /\ e = <<e[1], e[2]>>
      /\ \A n \in Names : \A i \in DOMAIN subscribers'[n] : <<n, i>> \in Held'
  BY DEF Held
<1>8. PICK F : F = [e \in Held' |-> <<e[1], C[e[1]][e[2]]>>]
  OBVIOUS
<1>9. F \in [Held' -> Held] /\ \A e \in Held' : F[e] = <<e[1], C[e[1]][e[2]]>>
  BY <1>5, <1>6, <1>7, <1>8
<1>10. ASSUME NEW d \in Held', NEW e \in Held', F[d] = F[e] PROVE d = e
  <2>1. d[1] = e[1] /\ C[d[1]][d[2]] = C[e[1]][e[2]]
    BY <1>9, <1>10
  <2> QED
    BY <1>5, <1>7, <2>1
<1>11. ASSUME NEW e \in Held, subscribers[e[1]][e[2]] # x PROVE \E d \in Held' : F[d] = e
  <2>1. PICK j \in DOMAIN subscribers'[e[1]] : C[e[1]][j] = e[2]
    BY <1>5, <1>6, <1>11
  <2>2. <<e[1], j>> \in Held' /\ F[<<e[1], j>>] = <<e[1], e[2]>>
    BY <1>6, <1>7, <1>9, <2>1
  <2> QED
    BY <1>6, <2>2
<1>12. F \in Injection(Held', Held)
  BY <1>9, <1>10 DEF Injection, IsInjective
<1>13. \A e \in Held' : /\ F[e][1] = e[1]
                        /\ subscribers'[e[1]][e[2]] = subscribers[e[1]][F[e][2]]
  BY <1>5, <1>7, <1>9
<1>14. subscribers' \in [Names -> Seq(Sids)]
  BY <1>2 DEF Forgotten
<1>15. ASSUME NEW n \in Names, subscribers[n] = <<>> PROVE subscribers'[n] = <<>>
  <2>1. DOMAIN subscribers'[n] = {}
    BY <1>5, <1>15
  <2> QED
    BY <1>2, <2>1, EmptySeq
<1> QED
  BY <1>5, <1>11, <1>12, <1>13, <1>14, <1>15

\* The entries that are held under the names of ns.
HeldUnder(ns) == {e \in Held : e[1] \in ns}

\* The copy that a publish begins with arranges the entries under the names that match.
LEMMA EntriesArrange ==
  ASSUME TypeOK, NEW ns \in SetToSeqs(Matching)
  PROVE  /\ Entries(ns) \in Seq(Entry)
         /\ \E G \in Bijection(1 .. Len(Entries(ns)), HeldUnder(Matching)) :
               \A p \in 1 .. Len(Entries(ns)) :
                  /\ Entries(ns)[p].name = G[p][1]
                  /\ Entries(ns)[p].sid = subscribers[G[p][1]][G[p][2]]
<1> DEFINE K == Cardinality(Matching)
           ToEntry(n, j) == [name |-> n, pattern |-> n \in patterns, sid |-> subscribers[n][j]]
           seqs == [i \in DOMAIN ns |->
                       [j \in DOMAIN subscribers[ns[i]] |->
                           [name |-> ns[i], pattern |-> ns[i] \in patterns,
                            sid |-> subscribers[ns[i]][j]]]]
           w == FlattenSeq(seqs)
<1>1. Matching \in SUBSET Names /\ IsFiniteSet(Matching) /\ K \in Nat
  BY NamesAssumption, FS_Subset, FS_CardinalityType DEF Matching, TypeOK
<1>2. /\ ns \in [1 .. K -> Matching] /\ DOMAIN ns = 1 .. K
      /\ \A i, j \in 1 .. K : ns[i] = ns[j] => i = j
  BY DEF SetToSeqs
<1>3. \A n \in Matching : \E i \in 1 .. K : ns[i] = n
  <2>1. ns \in Injection(1 .. K, Matching)
    BY <1>2 DEF Injection, IsInjective
  <2>2. IsFiniteSet(1 .. K) /\ Cardinality(1 .. K) = K
    BY <1>1, FS_Interval
  <2>3. ns \in Surjection(1 .. K, Matching)
    BY <1>1, <2>1, <2>2, FS_Injection
  <2> QED
    BY <2>3 DEF Surjection
<1> HIDE DEF K
<1>4. ASSUME NEW n \in Names
      PROVE  /\ subscribers[n] \in Seq(Sids) /\ DOMAIN subscribers[n] = 1 .. Len(subscribers[n])
             /\ Len(subscribers[n]) \in Nat
             /\ \A j \in DOMAIN subscribers[n] : subscribers[n][j] \in Sids /\ ToEntry(n, j) \in Entry
  <2>1. subscribers[n] \in Seq(Sids)
    BY DEF TypeOK
  <2>2. /\ DOMAIN subscribers[n] = 1 .. Len(subscribers[n])
        /\ Len(subscribers[n]) \in Nat
        /\ \A j \in DOMAIN subscribers[n] : subscribers[n][j] \in Sids
    BY <2>1, LenProperties, ElementOfSeq
  <2>3. \A j \in DOMAIN subscribers[n] : ToEntry(n, j) \in Entry
    BY <2>2 DEF Entry
  <2> QED
    BY <2>1, <2>2, <2>3
<1>5. ASSUME NEW i \in 1 .. K
      PROVE  /\ ns[i] \in Names /\ ns[i] \in Matching
             /\ seqs[i] = [j \in DOMAIN subscribers[ns[i]] |-> ToEntry(ns[i], j)]
             /\ seqs[i] \in Seq(Entry)
             /\ Len(seqs[i]) = Len(subscribers[ns[i]])
  <2>1. ns[i] \in Names /\ ns[i] \in Matching
    BY <1>1, <1>2
  <2>2. seqs[i] = [j \in DOMAIN subscribers[ns[i]] |-> ToEntry(ns[i], j)]
    BY <1>2
  <2> HIDE DEF seqs
  <2>3. PICK m \in Nat : m = Len(subscribers[ns[i]]) /\ DOMAIN subscribers[ns[i]] = 1 .. m
    BY <1>4, <2>1
  <2>4. seqs[i] \in [1 .. m -> Entry]
    <3> HIDE DEF ToEntry
    <3>1. \A j \in 1 .. m : ToEntry(ns[i], j) \in Entry
      BY <1>4, <2>1, <2>3
    <3> QED
      BY <2>2, <2>3, <3>1
  <2>5. seqs[i] \in Seq(Entry) /\ Len(seqs[i]) = m
    BY <2>3, <2>4
  <2> QED
    BY <2>1, <2>2, <2>3, <2>5
<1>6. seqs \in Seq(Seq(Entry)) /\ Len(seqs) = K
  <2>1. seqs \in [1 .. K -> Seq(Entry)]
    BY <1>2, <1>5
  <2> HIDE DEF seqs
  <2> QED
    BY <1>1, <2>1 DEF K
<1>7. w = Entries(ns)
  BY DEF Entries
<1> HIDE DEF seqs, w
<1>8. Flat(w, Entry, seqs, K)
  BY <1>6, Flattened DEF w
<1>9. PICK b \in Bijection(1 .. Len(w), Places(seqs, K)) :
        \A i \in 1 .. Len(w) : w[i] = seqs[b[i][1]][b[i][2]]
  BY <1>8 DEF Flat
<1>10. /\ \A i \in 1 .. Len(w) : b[i] \in Places(seqs, K)
       /\ \A i, j \in 1 .. Len(w) : b[i] = b[j] => i = j
       /\ \A p \in Places(seqs, K) : \E i \in 1 .. Len(w) : b[i] = p
  BY <1>9 DEF Bijection, Injection, Surjection, IsInjective
<1>11. ASSUME NEW p \in Places(seqs, K)
       PROVE  /\ p[1] \in 1 .. K /\ ns[p[1]] \in Matching /\ ns[p[1]] \in Names
              /\ p[2] \in DOMAIN subscribers[ns[p[1]]] /\ p = <<p[1], p[2]>>
              /\ seqs[p[1]][p[2]] = ToEntry(ns[p[1]], p[2])
  <2>1. p[1] \in 1 .. K /\ p[2] \in 1 .. Len(seqs[p[1]]) /\ p = <<p[1], p[2]>>
    BY DEF Places
  <2>2. p[2] \in DOMAIN subscribers[ns[p[1]]]
    BY <1>4, <1>5, <2>1
  <2>3. seqs[p[1]] = [j \in DOMAIN subscribers[ns[p[1]]] |-> ToEntry(ns[p[1]], j)]
    BY <1>5, <2>1
  <2> HIDE DEF ToEntry
  <2>4. seqs[p[1]][p[2]] = ToEntry(ns[p[1]], p[2])
    BY <2>2, <2>3
  <2> QED
    BY <1>5, <2>1, <2>2, <2>4
<1>12. PICK G : G = [i \in 1 .. Len(w) |-> <<ns[b[i][1]], b[i][2]>>]
  OBVIOUS
<1>13. \A i \in 1 .. Len(w) : G[i] = <<ns[b[i][1]], b[i][2]>>
  BY <1>12
<1>14. G \in Bijection(1 .. Len(w), HeldUnder(Matching))
  <2> HIDE DEF ToEntry
  <2>1. ASSUME NEW i \in 1 .. Len(w)
        PROVE  /\ G[i] \in HeldUnder(Matching)
               /\ b[i] = <<b[i][1], b[i][2]>> /\ b[i][1] \in 1 .. K
    <3>1. /\ b[i][1] \in 1 .. K /\ ns[b[i][1]] \in Matching /\ ns[b[i][1]] \in Names
          /\ b[i][2] \in DOMAIN subscribers[ns[b[i][1]]] /\ b[i] = <<b[i][1], b[i][2]>>
      BY <1>10, <1>11
    <3>2. PICK n \in Names : n = ns[b[i][1]]
      BY <3>1
    <3>3. PICK j \in DOMAIN subscribers[n] : j = b[i][2]
      BY <3>1, <3>2
    <3>4. G[i] = <<n, j>> /\ n \in Matching
      BY <1>13, <3>1, <3>2, <3>3
    <3>5. G[i] \in HeldUnder(Matching)
      BY <3>4 DEF HeldUnder, Held
    <3> QED
      BY <3>1, <3>5
  <2>2. G \in [1 .. Len(w) -> HeldUnder(Matching)]
    BY <1>12, <2>1
  <2>3. ASSUME NEW i \in 1 .. Len(w), NEW j \in 1 .. Len(w), G[i] = G[j] PROVE i = j
    <3>1. ns[b[i][1]] = ns[b[j][1]] /\ b[i][2] = b[j][2]
      BY <1>13, <2>3
    <3>2. b[i][1] = b[j][1]
      BY <1>2, <2>1, <3>1
    <3>3. b[i] = b[j]
      BY <2>1, <3>1, <3>2
    <3> QED
      BY <1>10, <3>3
  <2>4. ASSUME NEW e \in HeldUnder(Matching) PROVE \E i \in 1 .. Len(w) : G[i] = e
    <3>1. e[1] \in Matching /\ e[1] \in Names /\ e[2] \in DOMAIN subscribers[e[1]] /\ e = <<e[1], e[2]>>
      BY DEF HeldUnder, Held
    <3>2. PICK k \in 1 .. K : ns[k] = e[1]
      BY <1>3, <3>1
    <3>3. e[2] \in Nat /\ e[2] \in 1 .. Len(seqs[k])
      <4>1. Len(seqs[k]) = Len(subscribers[e[1]])
        BY <1>5, <3>2
      <4>2. e[2] \in 1 .. Len(subscribers[e[1]]) /\ Len(subscribers[e[1]]) \in Nat
        BY <1>4, <3>1
      <4> QED
        BY <4>1, <4>2
    <3>4. <<k, e[2]>> \in Places(seqs, K)
      BY <3>3 DEF Places
    <3>5. PICK i \in 1 .. Len(w) : b[i] = <<k, e[2]>>
      BY <1>10, <3>4
    <3> QED
      BY <1>13, <3>1, <3>2, <3>5
  <2> QED
    BY <2>2, <2>3, <2>4 DEF Bijection, Injection, Surjection, IsInjective
<1>15. ASSUME NEW p \in 1 .. Len(w)
       PROVE  w[p].name = G[p][1] /\ w[p].sid = subscribers[G[p][1]][G[p][2]]
  <2>1. w[p] = ToEntry(ns[b[p][1]], b[p][2])
    BY <1>9, <1>10, <1>11
  <2>2. G[p] = <<ns[b[p][1]], b[p][2]>>
    BY <1>13
  <2> QED
    BY <2>1, <2>2
<1>16. w \in Seq(Entry)
  BY <1>8 DEF Flat
<1> QED
  BY <1>7, <1>14, <1>15, <1>16

\* Removing an id takes nothing from the others.
LEMMA ForgottenCounts ==
  ASSUME TypeOK, IsFiniteSet(Held), NEW ns, NEW x, subscribers' = Forgotten(ns, x)
  PROVE  /\ IsFiniteSet(Held') /\ Cardinality(Held') <= Cardinality(Held)
         /\ \A s, M : s # x => Due(s, M)' = Due(s, M)
         /\ \A n \in Names : \A i \in DOMAIN subscribers'[n] :
               /\ \E j \in DOMAIN subscribers[n] : subscribers'[n][i] = subscribers[n][j]
               /\ n \in ns => subscribers'[n][i] # x
<1>1. PICK F \in Injection(Held', Held) :
        /\ \A e \in Held' : /\ F[e][1] = e[1]
                            /\ subscribers'[e[1]][e[2]] = subscribers[e[1]][F[e][2]]
        /\ \A e \in Held : subscribers[e[1]][e[2]] # x => \E d \in Held' : F[d] = e
  BY ForgottenMaps
<1>2. /\ IsFiniteSet(Held') /\ Cardinality(Held') <= Cardinality(Held)
      /\ F \in [Held' -> Held] /\ \A d, e \in Held' : F[d] = F[e] => d = e
  BY FS_Injection DEF Injection, IsInjective
<1>3. ASSUME NEW s, NEW M, s # x PROVE Due(s, M)' = Due(s, M)
  <2> DEFINE A == {e \in Held' : e[1] \in M /\ subscribers'[e[1]][e[2]] = s}
             B == {e \in Held : e[1] \in M /\ subscribers[e[1]][e[2]] = s}
  <2>1. PICK g : g = [e \in A |-> F[e]]
    OBVIOUS
  <2>2. \A e \in A : g[e] \in B /\ g[e] = F[e] /\ e \in Held'
    BY <1>1, <1>2, <2>1
  <2>3. \A e \in B : \E d \in A : g[d] = e
    <3> SUFFICES ASSUME NEW e \in B PROVE \E d \in A : g[d] = e
      OBVIOUS
    <3>1. PICK d \in Held' : F[d] = e
      BY <1>1, <1>3
    <3>2. d \in A
      BY <1>1, <3>1
    <3> QED
      BY <2>2, <3>1, <3>2
  <2>4. IsFiniteSet(A)
    BY <1>2, FS_Subset
  <2>5. Due(s, M)' = Cardinality(A) /\ Due(s, M) = Cardinality(B)
    BY DEF Due
  <2> HIDE DEF A, B
  <2>6. g \in Bijection(A, B)
    <3>1. g \in [A -> B]
      BY <2>1, <2>2
    <3>2. \A d, e \in A : g[d] = g[e] => d = e
      BY <1>2, <2>2
    <3> QED
      BY <2>3, <3>1, <3>2 DEF Bijection, Injection, Surjection, IsInjective
  <2>7. Cardinality(B) = Cardinality(A)
    BY <2>4, <2>6, FS_Bijection DEF ExistsBijection
  <2> QED
    BY <2>5, <2>7
<1>4. ASSUME NEW n \in Names, NEW i \in DOMAIN subscribers'[n]
      PROVE  /\ \E j \in DOMAIN subscribers[n] : subscribers'[n][i] = subscribers[n][j]
             /\ n \in ns => subscribers'[n][i] # x
  <2>1. <<n, i>> \in Held'
    BY DEF Held
  <2>2. PICK e \in Held : e = F[<<n, i>>]
    BY <1>2, <2>1
  <2>3. e[1] = n /\ subscribers'[n][i] = subscribers[n][e[2]]
    BY <1>1, <2>1, <2>2
  <2>4. e[2] \in DOMAIN subscribers[n]
    BY <2>3 DEF Held
  <2> QED
    BY <2>3, <2>4, ForgottenMaps
<1> QED
  BY <1>2, <1>3, <1>4

\* The copy has as many entries of an id as are held, and one for each of them.
LEMMA EntriesCount ==
  ASSUME TypeOK, IsFiniteSet(Held), NEW ns \in SetToSeqs(Matching), NEW w, w = Entries(ns)
  PROVE  /\ w \in Seq(Entry) /\ Len(w) \in Nat /\ Len(w) <= Cardinality(Held)
         /\ \A s : Cardinality(Of(w, s)) = Due(s, Matching) /\ Cardinality(Of(w, s)) \in Nat
         /\ \A n \in Matching : \A i \in DOMAIN subscribers[n] :
               \E k \in DOMAIN w : w[k].name = n /\ w[k].sid = subscribers[n][i]
<1>1. w \in Seq(Entry) /\ Len(w) \in Nat /\ DOMAIN w = 1 .. Len(w)
  BY EntriesArrange, LenProperties
<1>2. PICK G \in Bijection(1 .. Len(w), HeldUnder(Matching)) :
        \A p \in 1 .. Len(w) : /\ w[p].name = G[p][1]
                               /\ w[p].sid = subscribers[G[p][1]][G[p][2]]
  BY EntriesArrange
<1>3. /\ G \in [1 .. Len(w) -> HeldUnder(Matching)]
      /\ \A p, q \in 1 .. Len(w) : G[p] = G[q] => p = q
      /\ \A e \in HeldUnder(Matching) : \E p \in 1 .. Len(w) : G[p] = e
  BY <1>2 DEF Bijection, Injection, Surjection, IsInjective
<1>4. Len(w) <= Cardinality(Held)
  <2>1. IsFiniteSet(1 .. Len(w)) /\ Cardinality(1 .. Len(w)) = Len(w)
    BY <1>1, FS_Interval
  <2>2. Cardinality(HeldUnder(Matching)) = Len(w)
    BY <1>2, <2>1, FS_Bijection DEF ExistsBijection
  <2>3. HeldUnder(Matching) \in SUBSET Held
    BY DEF HeldUnder
  <2> QED
    BY <2>2, <2>3, FS_Subset
<1>5. ASSUME NEW s PROVE Cardinality(Of(w, s)) = Due(s, Matching) /\ Cardinality(Of(w, s)) \in Nat
  <2> DEFINE A == Of(w, s)
             B == {e \in Held : e[1] \in Matching /\ subscribers[e[1]][e[2]] = s}
  <2>1. PICK g : g = [i \in A |-> G[i]]
    OBVIOUS
  <2>2. \A i \in A : g[i] \in B /\ g[i] = G[i] /\ i \in 1 .. Len(w)
    BY <1>1, <1>2, <1>3, <2>1 DEF HeldUnder, Of
  <2>3. \A e \in B : \E i \in A : g[i] = e
    <3> SUFFICES ASSUME NEW e \in B PROVE \E i \in A : g[i] = e
      OBVIOUS
    <3>1. PICK i \in 1 .. Len(w) : G[i] = e
      BY <1>3 DEF HeldUnder
    <3>2. i \in A
      BY <1>1, <1>2, <3>1 DEF Of
    <3> QED
      BY <2>2, <3>1, <3>2
  <2>4. IsFiniteSet(A)
    <3>1. IsFiniteSet(1 .. Len(w)) /\ A \in SUBSET (1 .. Len(w))
      BY <1>1, FS_Interval DEF Of
    <3> HIDE DEF A
    <3> QED
      BY <3>1, FS_Subset
  <2>5. Due(s, Matching) = Cardinality(B)
    BY DEF Due
  <2> HIDE DEF A, B
  <2>6. g \in Bijection(A, B)
    <3>1. g \in [A -> B]
      BY <2>1, <2>2
    <3>2. \A i, j \in A : g[i] = g[j] => i = j
      BY <1>3, <2>2
    <3> QED
      BY <2>3, <3>1, <3>2 DEF Bijection, Injection, Surjection, IsInjective
  <2>7. Cardinality(B) = Cardinality(A)
    BY <2>4, <2>6, FS_Bijection DEF ExistsBijection
  <2> QED
    BY <2>4, <2>5, <2>7, FS_CardinalityType DEF A
<1>6. ASSUME NEW n \in Matching, NEW i \in DOMAIN subscribers[n]
      PROVE  \E k \in DOMAIN w : w[k].name = n /\ w[k].sid = subscribers[n][i]
  <2>1. n \in Names
    BY DEF Matching, TypeOK
  <2>2. <<n, i>> \in HeldUnder(Matching)
    BY <2>1 DEF HeldUnder, Held
  <2>3. PICK k \in 1 .. Len(w) : G[k] = <<n, i>>
    BY <1>3, <2>2
  <2> QED
    BY <1>1, <1>2, <2>3
<1> QED
  BY <1>1, <1>4, <1>5, <1>6

\* A subscription adds an entry to each list.
LEMMA SubscribeCounts ==
  ASSUME TypeOK, IsFiniteSet(Held), NEW ns \in SUBSET Names, NEW x \in Sids,
         subscribers' = [n \in Names |-> IF n \in ns THEN Append(subscribers[n], x)
                                                     ELSE subscribers[n]]
  PROVE  /\ subscribers' \in [Names -> Seq(Sids)]
         /\ IsFiniteSet(Held') /\ Cardinality(Held') <= Cardinality(Held) + Cardinality(ns)
<1> DEFINE New == {<<n, Len(subscribers[n]) + 1>> : n \in ns}
           f == [n \in ns |-> <<n, Len(subscribers[n]) + 1>>]
<1>1. ASSUME NEW n \in Names
      PROVE  /\ subscribers'[n] \in Seq(Sids)
             /\ n \in ns => DOMAIN subscribers'[n]
                               = DOMAIN subscribers[n] \cup {Len(subscribers[n]) + 1}
             /\ n \notin ns => subscribers'[n] = subscribers[n]
  <2>1. PICK q \in Seq(Sids) : q = subscribers[n]
    BY DEF TypeOK
  <2>2. /\ Append(q, x) \in Seq(Sids) /\ Len(Append(q, x)) = Len(q) + 1 /\ Len(q) \in Nat
        /\ DOMAIN q = 1 .. Len(q) /\ DOMAIN Append(q, x) = 1 .. Len(Append(q, x))
    BY AppendProperties, LenProperties
  <2>3. DOMAIN Append(q, x) = DOMAIN q \cup {Len(q) + 1}
    BY <2>2
  <2> QED
    BY <2>1, <2>2, <2>3
<1>2. Held' = Held \cup New
  <2>1. ASSUME NEW e \in Held' PROVE e \in Held \cup New
    <3>1. PICK n \in Names : \E i \in DOMAIN subscribers'[n] : e = <<n, i>>
      BY DEF Held
    <3>2. PICK i \in DOMAIN subscribers'[n] : e = <<n, i>>
      BY <3>1
    <3>3. i \in DOMAIN subscribers[n] \/ (n \in ns /\ i = Len(subscribers[n]) + 1)
      BY <1>1, <3>2
    <3> QED
      BY <3>2, <3>3 DEF Held
  <2>2. ASSUME NEW e \in Held PROVE e \in Held'
    <3>1. PICK n \in Names : \E i \in DOMAIN subscribers[n] : e = <<n, i>>
      BY DEF Held
    <3>2. PICK i \in DOMAIN subscribers[n] : e = <<n, i>>
      BY <3>1
    <3>3. i \in DOMAIN subscribers'[n]
      BY <1>1, <3>2
    <3> QED
      BY <3>2, <3>3 DEF Held
  <2>3. ASSUME NEW n \in ns PROVE <<n, Len(subscribers[n]) + 1>> \in Held'
    <3>1. n \in Names /\ Len(subscribers[n]) + 1 \in DOMAIN subscribers'[n]
      BY <1>1
    <3> QED
      BY <3>1 DEF Held
  <2> QED
    BY <2>1, <2>2, <2>3
<1>3. IsFiniteSet(ns) /\ Cardinality(ns) \in Nat
  BY NamesAssumption, FS_Subset, FS_CardinalityType
<1>4. f \in Surjection(ns, New)
  BY DEF Surjection
<1> HIDE DEF f, New
<1>5. IsFiniteSet(New) /\ Cardinality(New) <= Cardinality(ns)
  BY <1>3, <1>4, FS_Surjection
<1>6. /\ Cardinality(Held) \in Nat /\ Cardinality(New) \in Nat /\ Cardinality(Held \cap New) \in Nat
      /\ IsFiniteSet(Held \cup New)
      /\ Cardinality(Held \cup New) = Cardinality(Held) + Cardinality(New) - Cardinality(Held \cap New)
  <2>1. IsFiniteSet(Held \cap New)
    BY <1>5, FS_Subset
  <2> QED
    BY <1>5, <2>1, FS_Union, FS_CardinalityType
<1>7. subscribers' \in [Names -> Seq(Sids)]
  BY <1>1
<1> QED
  BY <1>2, <1>3, <1>5, <1>6, <1>7

-----------------------------------------------------------------------------
(* The invariant.                                                          *)

\* What bounds the numbers: the entries that are held, and those that a publish
\* has still to come to.
Bounded ==
    /\ IsFiniteSet(Held)
    /\ Cardinality(Held) <= MaxEntries
    /\ worker.num + Len(worker.left) <= MaxEntries
    /\ \A s \in Sids : history.told[s] <= worker.num

\* The session the worker is about to write to was there when it looked.
Writing ==
    worker.at \in {"writing", "dangling"} =>
        /\ worker.left # <<>>
        /\ Head(worker.left).sid \notin history.away
        /\ worker.at = "dangling" => Head(worker.left).sid \notin history.stayed

\* The loop has still to come to whatever is held for who has been away.
AwayAreAhead ==
    Publishing =>
        \A n \in Matching : \A i \in DOMAIN subscribers[n] :
            subscribers[n][i] \in history.away =>
                \E k \in DOMAIN worker.left :
                    worker.left[k].name = n /\ worker.left[k].sid = subscribers[n][i]

PubSubInv == TypeOK /\ Bounded /\ Writing /\ StayersAreTold /\ AwayAreAhead

LEMMA PubSubInvInit == Init => PubSubInv
<1> SUFFICES ASSUME Init PROVE PubSubInv
  OBVIOUS
<1> USE DEF Init
<1>1. \A n \in Names : DOMAIN subscribers[n] = {}
  OBVIOUS
<1>2. Held = {}
  BY <1>1 DEF Held
<1>3. TypeOK
  <2>1. worker \in Worker
    <3>1. <<>> \in Seq(Entry) /\ 0 \in 0 .. MaxEntries
      BY MaxEntriesAssumption
    <3> QED
      BY <3>1 DEF Worker
  <2>2. NoHistory \in [stayed : SUBSET {}, away : SUBSET Sids, told : [Sids -> 0 .. MaxEntries]]
    BY MaxEntriesAssumption DEF NoHistory
  <2> QED
    BY <2>1, <2>2 DEF TypeOK
<1>4. Bounded
  <2>1. IsFiniteSet({}) /\ Cardinality({}) = 0
    BY FS_EmptySet
  <2>2. Len(worker.left) = 0 /\ worker.num = 0
    BY EmptySeq
  <2> QED
    BY <1>2, <2>1, <2>2, MaxEntriesAssumption DEF Bounded, NoHistory
<1>5. worker.at = "idle"
  OBVIOUS
<1> QED
  BY <1>3, <1>4, <1>5 DEF PubSubInv, Writing, StayersAreTold, AwayAreAhead, Publishing

\* The parts about a publish say nothing when there is none.
LEMMA NotPublishing ==
  ASSUME (worker.at \notin {"loop", "writing", "dangling"})', TypeOK', Bounded'
  PROVE  PubSubInv'
BY DEF PubSubInv, Writing, StayersAreTold, AwayAreAhead, Publishing

\* Nothing is held but what was, and nothing copied.
LEMMA SameCounts ==
  ASSUME Bounded, UNCHANGED subscribers, worker'.num = worker.num,
         Len(worker'.left) = Len(worker.left),
         \A s \in Sids : history'.told[s] = history.told[s]
  PROVE  Bounded'
BY DEF Bounded, Held

LEMMA IOThreadStep ==
  ASSUME PubSubInv, NEW s \in Sids, Connect(s) \/ Disconnect(s)
  PROVE  PubSubInv'
<1> USE DEF PubSubInv
<1>1. UNCHANGED <<subscribers, known, patterns>>
  BY DEF Connect, Disconnect, map
<1>2. /\ connected' \subseteq Sids
      /\ \/ /\ history' = [history EXCEPT !.away = @ \ {s}]
            /\ connected' = connected \cup {s}
         \/ /\ history' = [history EXCEPT !.stayed = @ \ {s}]
            /\ connected' = connected \ {s}
  BY DEF Connect, Disconnect, TypeOK
<1>3. history \in [stayed : SUBSET connected, away : SUBSET (Sids \ connected), told : [Sids -> 0 .. MaxEntries]]
  BY DEF TypeOK
<1>4. /\ history' \in [stayed : SUBSET connected', away : SUBSET (Sids \ connected'),
                       told : [Sids -> 0 .. MaxEntries]]
      /\ history'.told = history.told
      /\ history'.stayed \subseteq history.stayed /\ history'.away \subseteq history.away
  BY <1>2, <1>3
<1>5. /\ worker' \in Worker
      /\ worker'.num = worker.num /\ worker'.left = worker.left
      /\ \/ worker'.at = worker.at
         \/ /\ worker.at = "writing" /\ worker'.at = "dangling"
            /\ Head(worker.left).sid = s /\ history'.stayed = history.stayed \ {s}
  BY <1>3 DEF Connect, Disconnect, TypeOK, Worker
<1>6. TypeOK'
  BY <1>1, <1>2, <1>4, <1>5 DEF TypeOK
<1>7. Bounded'
  BY <1>1, <1>4, <1>5, SameCounts
<1>8. Publishing' = Publishing
  BY <1>5 DEF Publishing
<1>9. Writing'
  BY <1>4, <1>5 DEF Writing
<1>10. Matching' = Matching /\ \A x, M : Due(x, M)' = Due(x, M)
  BY <1>1 DEF Matching, Due, Held
<1>11. StayersAreTold'
  BY <1>4, <1>5, <1>8, <1>10 DEF StayersAreTold, LeftFor
<1>12. AwayAreAhead'
  BY <1>1, <1>4, <1>5, <1>8, <1>10 DEF AwayAreAhead
<1> QED
  BY <1>6, <1>7, <1>9, <1>11, <1>12

\* A request is served, and not yet published.
LEMMA ServeStep ==
  ASSUME PubSubInv, NEW s \in Sids, Serve(s)
  PROVE  PubSubInv'
<1>1. TypeOK' /\ worker'.at = "serving"
  BY DEF PubSubInv, Serve, TypeOK, Worker, map
<1>2. Bounded'
  BY SameCounts DEF PubSubInv, Serve, TypeOK, Worker, map
<1> QED
  BY <1>1, <1>2, NotPublishing

\* What the worker is when it is done.
LEMMA IdleWorker ==
  ASSUME TypeOK, Idle
  PROVE  worker' \in Worker /\ worker'.at = "idle" /\ worker'.num = worker.num
         /\ Len(worker'.left) = 0
<1>1. worker' \in Worker /\ worker'.at = "idle" /\ worker'.num = worker.num /\ worker'.left = <<>>
  <2>1. worker \in Worker /\ worker' = [worker EXCEPT !.at = "idle", !.left = <<>>]
    BY DEF TypeOK, Idle
  <2>2. <<>> \in Seq(Entry)
    OBVIOUS
  <2> QED
    BY <2>1, <2>2 DEF Worker
<1> QED
  BY <1>1, EmptySeq

\* What is forgotten or subscribed to while no message is delivered.
LEMMA ListsStep ==
  ASSUME PubSubInv, NEW ns \in SUBSET Names \ {{}},
         Unsubscribe(ns) \/ \E pattern \in BOOLEAN : Subscribe(ns, pattern)
  PROVE  PubSubInv'
<1>1. TypeOK /\ Bounded
  BY DEF PubSubInv
<1>2. /\ worker' \in Worker /\ worker'.at = "idle" /\ worker'.num = worker.num
      /\ Len(worker'.left) = 0
  BY <1>1, IdleWorker DEF Unsubscribe, Subscribe
<1>3. /\ connected' = connected /\ history' = history
      /\ Len(worker.left) \in Nat /\ worker.num \in Nat
  BY <1>1 DEF Unsubscribe, Subscribe, TypeOK, Worker
<1>4. CASE Unsubscribe(ns)
  <2>1. subscribers' = Forgotten(ns, worker.client) /\ known' = known /\ patterns' = patterns
    BY <1>4 DEF Unsubscribe
  <2>2. /\ subscribers' \in [Names -> Seq(Sids)]
        /\ \A n \in Names : subscribers[n] = <<>> => subscribers'[n] = <<>>
    BY <1>1, <2>1, ForgottenMaps
  <2>3. TypeOK'
    BY <1>1, <1>2, <1>3, <2>1, <2>2 DEF TypeOK
  <2>4. IsFiniteSet(Held') /\ Cardinality(Held') <= Cardinality(Held) /\ IsFiniteSet(Held)
    BY <1>1, <2>1, ForgottenCounts DEF Bounded
  <2>5. Cardinality(Held') \in Nat /\ Cardinality(Held) \in Nat
    BY <2>4, FS_CardinalityType
  <2>6. Bounded'
    BY <1>1, <1>2, <1>3, <2>4, <2>5, MaxEntriesAssumption DEF Bounded
  <2> QED
    BY <1>2, <2>3, <2>6, NotPublishing
<1>5. ASSUME NEW pattern \in BOOLEAN, Subscribe(ns, pattern) PROVE PubSubInv'
  <2>1. worker.client \in Sids
    BY <1>1 DEF TypeOK, Worker
  <2>2. /\ subscribers' = [n \in Names |-> IF n \in ns THEN Append(subscribers[n], worker.client)
                                                       ELSE subscribers[n]]
        /\ Cardinality(Held) + Cardinality(ns) <= MaxEntries
        /\ known' = known \cup ns
        /\ patterns' = IF pattern THEN patterns \cup ns ELSE patterns \ ns
    BY <1>5 DEF Subscribe
  <2>3. /\ subscribers' \in [Names -> Seq(Sids)]
        /\ IsFiniteSet(Held') /\ Cardinality(Held') <= Cardinality(Held) + Cardinality(ns)
    BY <1>1, <2>1, <2>2, SubscribeCounts DEF Bounded
  <2>4. \A n \in Names \ known' : subscribers'[n] = <<>>
    BY <1>1, <2>2 DEF TypeOK
  <2>5. TypeOK'
    BY <1>1, <1>2, <1>3, <2>2, <2>3, <2>4 DEF TypeOK
  <2>6. Cardinality(Held') \in Nat /\ Cardinality(Held) \in Nat /\ Cardinality(ns) \in Nat
    <3>1. IsFiniteSet(ns)
      BY NamesAssumption, FS_Subset
    <3> QED
      BY <1>1, <2>3, <3>1, FS_CardinalityType DEF Bounded
  <2>7. Bounded'
    BY <1>1, <1>2, <1>3, <2>2, <2>3, <2>6, MaxEntriesAssumption DEF Bounded
  <2> QED
    BY <1>2, <2>5, <2>7, NotPublishing
<1> QED
  BY <1>4, <1>5

\* A match that throws or never ends.
LEMMA NoPublishStep ==
  ASSUME PubSubInv, PublishThrows \/ PublishHangs
  PROVE  PubSubInv'
<1>1. TypeOK /\ Bounded
  BY DEF PubSubInv
<1>2. UNCHANGED <<connected, subscribers, known, patterns, history>>
  BY DEF PublishThrows, PublishHangs, map
<1>3. /\ worker' \in Worker /\ worker'.at \in {"idle", "hung"} /\ worker'.num = worker.num
      /\ Len(worker'.left) = Len(worker.left) \/ Len(worker'.left) = 0
  <2>1. CASE PublishThrows
    BY <1>1, <2>1, IdleWorker DEF PublishThrows
  <2>2. CASE PublishHangs
    BY <1>1, <2>2 DEF PublishHangs, TypeOK, Worker
  <2> QED
    BY <2>1, <2>2
<1>4. TypeOK'
  BY <1>1, <1>2, <1>3 DEF TypeOK
<1>5. Len(worker.left) \in Nat /\ worker.num \in Nat
  BY <1>1 DEF TypeOK, Worker
<1>6. Bounded'
  BY <1>1, <1>2, <1>3, <1>5, MaxEntriesAssumption DEF Bounded, Held
<1> QED
  BY <1>3, <1>4, <1>6, NotPublishing

\* The copy holds what the publish is to deliver.
LEMMA PublishBeginsStep ==
  ASSUME PubSubInv, PublishBegins
  PROVE  PubSubInv'
<1>1. TypeOK /\ Bounded
  BY DEF PubSubInv
<1>2. PICK ns \in SetToSeqs(Matching) : worker' = Begun(Entries(ns))
  BY DEF PublishBegins
<1>3. PICK w : w = Entries(ns)
  OBVIOUS
<1>4. /\ w \in Seq(Entry) /\ Len(w) \in Nat /\ Len(w) <= Cardinality(Held)
      /\ \A s : Cardinality(Of(w, s)) = Due(s, Matching) /\ Cardinality(Of(w, s)) \in Nat
      /\ \A n \in Matching : \A i \in DOMAIN subscribers[n] :
            \E k \in DOMAIN w : w[k].name = n /\ w[k].sid = subscribers[n][i]
  BY <1>1, <1>3, EntriesCount DEF Bounded
<1>5. worker' = [worker EXCEPT !.at = "loop", !.left = w, !.num = 0]
  BY <1>2, <1>3 DEF Begun
<1>6. /\ worker' \in Worker /\ worker'.at = "loop" /\ worker'.left = w /\ worker'.num = 0
  <2>1. worker \in Worker /\ 0 \in 0 .. MaxEntries
    BY <1>1, MaxEntriesAssumption DEF TypeOK
  <2> QED
    BY <1>4, <1>5, <2>1 DEF Worker
<1>7. UNCHANGED <<connected, subscribers, known, patterns>>
  BY DEF PublishBegins, map
<1>8. /\ history' \in [stayed : SUBSET connected, away : SUBSET (Sids \ connected),
                       told : [Sids -> 0 .. MaxEntries]]
      /\ history'.stayed = connected
      /\ \A s \in Sids : history'.told[s] = 0
  <2>1. history' = [stayed |-> connected, away |-> Sids \ connected, told |-> [s \in Sids |-> 0]]
    BY DEF PublishBegins, NoHistory
  <2>2. [s \in Sids |-> 0] \in [Sids -> 0 .. MaxEntries]
    BY MaxEntriesAssumption
  <2> QED
    BY <2>1, <2>2
<1>9. TypeOK'
  BY <1>1, <1>6, <1>7, <1>8 DEF TypeOK
<1>10. Held' = Held /\ Matching' = Matching /\ \A x, M : Due(x, M)' = Due(x, M)
  BY <1>7 DEF Held, Matching, Due
<1>11. Bounded'
  <2>1. Cardinality(Held) \in Nat
    BY <1>1, FS_CardinalityType DEF Bounded
  <2>2. 0 + Len(w) <= MaxEntries
    BY <1>1, <1>4, <2>1, MaxEntriesAssumption DEF Bounded
  <2> QED
    BY <1>1, <1>6, <1>8, <1>10, <2>2 DEF Bounded
<1>12. Writing'
  BY <1>6 DEF Writing
<1>13. StayersAreTold'
  <2>1. ASSUME NEW s \in connected
        PROVE  history'.told[s] + Cardinality(LeftFor(s)') = Due(s, Matching)'
    <3>1. LeftFor(s)' = Of(w, s)
      BY <1>6 DEF LeftFor, Of
    <3>2. Cardinality(LeftFor(s)') = Due(s, Matching)
      BY <1>4, <3>1
    <3>3. Due(s, Matching) \in Nat
      BY <1>4
    <3>4. Due(s, Matching)' = Due(s, Matching)
      BY <1>10
    <3> QED
      BY <1>1, <1>8, <3>2, <3>3, <3>4 DEF TypeOK
  <2> QED
    BY <1>8, <2>1 DEF StayersAreTold
<1>14. AwayAreAhead'
  BY <1>4, <1>6, <1>7, <1>10 DEF AwayAreAhead
<1> QED
  BY <1>9, <1>11, <1>12, <1>13, <1>14 DEF PubSubInv

\* The session of the next entry is there.
LEMMA LookupHitStep ==
  ASSUME PubSubInv, LookupHit
  PROVE  PubSubInv'
<1> USE DEF PubSubInv
<1>1. UNCHANGED <<connected, subscribers, known, patterns, history>>
  BY DEF LookupHit, map
<1>2. /\ worker' \in Worker /\ worker'.at = "writing"
      /\ worker'.left = worker.left /\ worker'.num = worker.num
  BY DEF LookupHit, TypeOK, Worker
<1>3. TypeOK'
  BY <1>1, <1>2 DEF TypeOK
<1>4. Bounded'
  BY <1>1, <1>2, SameCounts
<1>5. Writing'
  BY <1>1, <1>2 DEF Writing, LookupHit, TypeOK
<1>6. Matching' = Matching /\ Publishing /\ \A x, M : Due(x, M)' = Due(x, M)
  BY <1>1 DEF Matching, Due, Held, LookupHit, Publishing
<1>7. StayersAreTold'
  BY <1>1, <1>2, <1>6 DEF StayersAreTold, LeftFor
<1>8. AwayAreAhead'
  BY <1>1, <1>2, <1>6 DEF AwayAreAhead
<1> QED
  BY <1>3, <1>4, <1>5, <1>7, <1>8

\* The parts of the first entry.
LEMMA HeadAndTail ==
  ASSUME TypeOK, worker.left # <<>>
  PROVE  /\ worker.left \in Seq(Entry) /\ Tail(worker.left) \in Seq(Entry)
         /\ Len(worker.left) \in Nat /\ Len(Tail(worker.left)) = Len(worker.left) - 1
         /\ Len(worker.left) >= 1
         /\ Head(worker.left) \in Entry
         /\ \A k \in DOMAIN worker.left :
               \/ worker.left[k] = Head(worker.left)
               \/ \E j \in DOMAIN Tail(worker.left) : Tail(worker.left)[j] = worker.left[k]
<1>1. PICK q \in Seq(Entry) : q = worker.left
  BY DEF TypeOK, Worker
<1>2. /\ Tail(q) \in Seq(Entry) /\ Len(q) \in Nat /\ Len(q) # 0
      /\ Len(Tail(q)) = Len(q) - 1 /\ Head(q) = q[1] /\ Head(q) \in Entry
      /\ \A i \in 1 .. Len(Tail(q)) : Tail(q)[i] = q[i + 1]
      /\ DOMAIN q = 1 .. Len(q) /\ DOMAIN Tail(q) = 1 .. Len(Tail(q))
  BY <1>1, HeadTailProperties, EmptySeq, LenProperties
<1>3. ASSUME NEW k \in DOMAIN q, k # 1 PROVE \E j \in DOMAIN Tail(q) : Tail(q)[j] = q[k]
  <2>1. k - 1 \in 1 .. Len(Tail(q)) /\ (k - 1) + 1 = k
    BY <1>2, <1>3
  <2> QED
    BY <1>2, <2>1
<1> QED
  BY <1>1, <1>2, <1>3

\* What is left for an id once the first entry is done with.
LEMMA LeftCounts ==
  ASSUME TypeOK, worker.left # <<>>, worker'.left = Tail(worker.left), NEW s
  PROVE  /\ Cardinality(LeftFor(s)) \in Nat /\ Cardinality(LeftFor(s)') \in Nat
         /\ Cardinality(LeftFor(s))
               = Cardinality(LeftFor(s)') + (IF Head(worker.left).sid = s THEN 1 ELSE 0)
<1>1. PICK q \in Seq(Entry) : q = worker.left /\ q # <<>>
  BY DEF TypeOK, Worker
<1>2. LeftFor(s) = Of(q, s) /\ LeftFor(s)' = Of(Tail(q), s)
  BY <1>1 DEF LeftFor, Of
<1> QED
  BY <1>1, <1>2, TailCounts

\* The session of the next entry is gone, and so are its subscriptions to the name.
LEMMA LookupMissStep ==
  ASSUME PubSubInv, LookupMiss
  PROVE  PubSubInv'
<1>1. TypeOK /\ Bounded /\ StayersAreTold /\ AwayAreAhead /\ Publishing /\ worker.left # <<>>
  BY DEF PubSubInv, LookupMiss, Publishing
<1>2. PICK h \in Entry : h = Head(worker.left)
  BY <1>1, HeadAndTail
<1> DEFINE ns == {h.name}
           x == h.sid
<1>3. /\ subscribers' = Forgotten(ns, x)
      /\ x \notin connected
      /\ UNCHANGED <<connected, known, patterns, history>>
  BY <1>2 DEF LookupMiss
<1> HIDE DEF ns, x
<1>4. /\ worker' \in Worker /\ worker'.at = "loop" /\ worker'.num = worker.num
      /\ worker'.left = Tail(worker.left)
  <2>1. worker' = [worker EXCEPT !.left = Tail(worker.left)] /\ worker.at = "loop"
    BY DEF LookupMiss, Rest
  <2>2. worker \in Worker /\ Tail(worker.left) \in Seq(Entry)
    BY <1>1, HeadAndTail DEF TypeOK
  <2> QED
    BY <2>1, <2>2 DEF Worker
<1>5. /\ subscribers' \in [Names -> Seq(Sids)]
      /\ \A n \in Names : subscribers[n] = <<>> => subscribers'[n] = <<>>
  BY <1>1, <1>3, ForgottenMaps
<1>6. TypeOK'
  BY <1>1, <1>3, <1>4, <1>5 DEF TypeOK
<1>7. /\ IsFiniteSet(Held') /\ Cardinality(Held') <= Cardinality(Held)
      /\ \A s, M : s # x => Due(s, M)' = Due(s, M)
      /\ \A n \in Names : \A i \in DOMAIN subscribers'[n] :
            /\ \E j \in DOMAIN subscribers[n] : subscribers'[n][i] = subscribers[n][j]
            /\ n \in ns => subscribers'[n][i] # x
  BY <1>1, <1>3, ForgottenCounts DEF Bounded
<1>8. Bounded'
  <2>1. Cardinality(Held') \in Nat /\ Cardinality(Held) \in Nat
    BY <1>1, <1>7, FS_CardinalityType DEF Bounded
  <2>2. Cardinality(Held') <= MaxEntries
    BY <1>1, <1>7, <2>1, MaxEntriesAssumption DEF Bounded
  <2>3. worker.num + Len(Tail(worker.left)) <= MaxEntries
    <3>1. /\ Len(worker.left) \in Nat /\ Len(Tail(worker.left)) = Len(worker.left) - 1
          /\ worker.num \in Nat
      BY <1>1, HeadAndTail DEF TypeOK, Worker
    <3> QED
      BY <1>1, <3>1, MaxEntriesAssumption DEF Bounded
  <2> QED
    BY <1>1, <1>3, <1>4, <1>7, <2>2, <2>3 DEF Bounded
<1>9. Writing'
  BY <1>4 DEF Writing
<1>10. Matching' = Matching /\ Matching \subseteq Names
  BY <1>1, <1>3 DEF Matching, TypeOK
<1>11. StayersAreTold'
  <2> SUFFICES ASSUME NEW s \in history.stayed
               PROVE  history.told[s] + Cardinality(LeftFor(s)') = Due(s, Matching)'
    BY <1>3 DEF StayersAreTold
  <2>1. s # x
    BY <1>1, <1>3 DEF TypeOK
  <2>2. Due(s, Matching)' = Due(s, Matching)
    BY <1>7, <1>10, <2>1
  <2>3. /\ Cardinality(LeftFor(s)) \in Nat /\ Cardinality(LeftFor(s)') \in Nat
        /\ Cardinality(LeftFor(s)) = Cardinality(LeftFor(s)') + (IF h.sid = s THEN 1 ELSE 0)
    BY <1>1, <1>2, <1>4, LeftCounts
  <2>4. Cardinality(LeftFor(s)') = Cardinality(LeftFor(s))
    BY <2>1, <2>3 DEF x
  <2> QED
    BY <1>1, <2>2, <2>4 DEF StayersAreTold
<1>12. AwayAreAhead'
  <2>1. ASSUME NEW n \in Matching, NEW i \in DOMAIN subscribers'[n],
               subscribers'[n][i] \in history.away
        PROVE  \E k \in DOMAIN Tail(worker.left) :
                  /\ Tail(worker.left)[k].name = n
                  /\ Tail(worker.left)[k].sid = subscribers'[n][i]
    <3>1. PICK j \in DOMAIN subscribers[n] : subscribers'[n][i] = subscribers[n][j]
      BY <1>7, <1>10
    <3>2. PICK k \in DOMAIN worker.left :
            worker.left[k].name = n /\ worker.left[k].sid = subscribers[n][j]
      BY <1>1, <2>1, <3>1 DEF AwayAreAhead
    <3>3. worker.left[k] # h
      BY <1>7, <1>10, <3>1, <3>2 DEF ns, x
    <3> QED
      BY <1>1, <1>2, <3>1, <3>2, <3>3, HeadAndTail
  <2> QED
    BY <1>3, <1>4, <1>10, <2>1 DEF AwayAreAhead
<1> QED
  BY <1>6, <1>8, <1>9, <1>11, <1>12 DEF PubSubInv

\* An entry that is done with takes nothing from who is away: it was not theirs.
LEMMA AwayAfterWrite ==
  ASSUME TypeOK, Writing, AwayAreAhead, worker.at \in {"writing", "dangling"},
         worker'.left = Tail(worker.left), UNCHANGED <<subscribers, known>>,
         history'.away = history.away
  PROVE  AwayAreAhead'
<1>1. worker.left # <<>> /\ Head(worker.left).sid \notin history.away /\ Publishing
  BY DEF Writing, Publishing
<1> SUFFICES ASSUME NEW n \in Matching, NEW i \in DOMAIN subscribers[n],
                    subscribers[n][i] \in history.away
             PROVE  \E k \in DOMAIN Tail(worker.left) :
                       /\ Tail(worker.left)[k].name = n
                       /\ Tail(worker.left)[k].sid = subscribers[n][i]
  BY DEF AwayAreAhead, Matching
<1>2. PICK k \in DOMAIN worker.left :
        worker.left[k].name = n /\ worker.left[k].sid = subscribers[n][i]
  BY <1>1 DEF AwayAreAhead
<1>3. worker.left[k] # Head(worker.left)
  BY <1>1, <1>2
<1> QED
  BY <1>1, <1>2, <1>3, HeadAndTail

\* A message is written, and counted, or it is lost and counted.
LEMMA WriteStep ==
  ASSUME PubSubInv, Write \/ WriteToDestroyed
  PROVE  PubSubInv'
<1>1. /\ TypeOK /\ Bounded /\ StayersAreTold /\ AwayAreAhead /\ Writing
      /\ worker.at \in {"writing", "dangling"} /\ Publishing /\ worker.left # <<>>
  BY DEF PubSubInv, Write, WriteToDestroyed, Publishing, Writing
<1>2. /\ UNCHANGED <<connected, subscribers, known, patterns>>
      /\ Held' = Held /\ Matching' = Matching /\ \A x, M : Due(x, M)' = Due(x, M)
  <2>1. UNCHANGED <<connected, subscribers, known, patterns>>
    BY DEF Write, WriteToDestroyed, map
  <2> QED
    BY <2>1 DEF Held, Matching, Due
<1>3. PICK h \in Entry : h = Head(worker.left)
  BY <1>1, HeadAndTail
<1>4. h.sid \in Sids
  BY DEF Entry
<1>5. /\ Tail(worker.left) \in Seq(Entry) /\ Len(worker.left) \in Nat
      /\ Len(Tail(worker.left)) = Len(worker.left) - 1 /\ Len(worker.left) >= 1
      /\ worker \in Worker /\ worker.num \in Nat
      /\ worker.num + Len(worker.left) <= MaxEntries
  BY <1>1, HeadAndTail DEF TypeOK, Worker, Bounded
<1>6. CASE worker' = [worker EXCEPT !.at = "crashed"] /\ history' = history
  <2>1. /\ worker' \in Worker /\ worker'.at = "crashed" /\ worker'.num = worker.num
        /\ worker'.left = worker.left
    BY <1>5, <1>6 DEF Worker
  <2>2. TypeOK'
    BY <1>1, <1>2, <1>6, <2>1 DEF TypeOK
  <2>3. Bounded'
    BY <1>1, <1>2, <1>6, <2>1, SameCounts
  <2> QED
    BY <2>1, <2>2, <2>3, NotPublishing
<1>7. CASE /\ worker' = [worker EXCEPT !.at = "loop", !.left = Tail(@), !.num = @ + 1]
           /\ \/ history' = [history EXCEPT !.told[h.sid] = @ + 1]
              \/ history' = history /\ h.sid \notin history.stayed
  <2>1. worker.num + 1 \in 0 .. MaxEntries
    BY <1>5, MaxEntriesAssumption
  <2>2. /\ worker' \in Worker /\ worker'.at = "loop" /\ worker'.num = worker.num + 1
        /\ worker'.left = Tail(worker.left)
    BY <1>5, <1>7, <2>1 DEF Worker
  <2>3. history \in [stayed : SUBSET connected, away : SUBSET (Sids \ connected),
                     told : [Sids -> 0 .. MaxEntries]]
    BY <1>1 DEF TypeOK
  <2>4. /\ history'.stayed = history.stayed /\ history'.away = history.away
        /\ history'.told \in [Sids -> Nat]
        /\ \A s \in Sids : \/ history'.told[s] = history.told[s]
                           \/ s = h.sid /\ history'.told[s] = history.told[s] + 1
        /\ history' = [stayed |-> history.stayed, away |-> history.away, told |-> history'.told]
    <3>1. CASE history' = [history EXCEPT !.told[h.sid] = @ + 1]
      <4>1. PICK t \in [Sids -> Nat] : t = history.told
        BY <2>3, MaxEntriesAssumption
      <4>2. /\ history'.stayed = history.stayed /\ history'.away = history.away
            /\ history'.told = [t EXCEPT ![h.sid] = @ + 1]
            /\ history' = [stayed |-> history.stayed, away |-> history.away, told |-> history'.told]
        BY <2>3, <3>1, <4>1
      <4> QED
        BY <1>4, <4>1, <4>2
    <3>2. CASE history' = history
      BY <2>3, <3>2, MaxEntriesAssumption
    <3> QED
      BY <1>7, <3>1, <3>2
  <2>5. \A s \in Sids : history'.told[s] <= worker.num + 1 /\ history'.told[s] \in 0 .. MaxEntries
    <3> SUFFICES ASSUME NEW s \in Sids
                 PROVE  history'.told[s] <= worker.num + 1 /\ history'.told[s] \in 0 .. MaxEntries
      OBVIOUS
    <3>1. history.told[s] <= worker.num /\ history.told[s] \in Nat
      BY <1>1, <2>3, MaxEntriesAssumption DEF Bounded
    <3>2. history'.told[s] = history.told[s] \/ history'.told[s] = history.told[s] + 1
      BY <2>4
    <3> QED
      BY <1>5, <2>1, <3>1, <3>2, MaxEntriesAssumption
  <2>6. TypeOK'
    <3>1. history'.told \in [Sids -> 0 .. MaxEntries]
      BY <2>4, <2>5
    <3>2. history' \in [stayed : SUBSET connected, away : SUBSET (Sids \ connected),
                        told : [Sids -> 0 .. MaxEntries]]
      BY <2>3, <2>4, <3>1
    <3> QED
      BY <1>1, <1>2, <2>2, <3>2 DEF TypeOK
  <2>7. Bounded'
    BY <1>1, <1>2, <1>5, <2>2, <2>5 DEF Bounded
  <2>8. Writing'
    BY <2>2 DEF Writing
  <2>9. StayersAreTold'
    <3> SUFFICES ASSUME NEW s \in history.stayed
                 PROVE  history'.told[s] + Cardinality(LeftFor(s)') = Due(s, Matching)
      BY <1>2, <2>4 DEF StayersAreTold
    <3>1. /\ Cardinality(LeftFor(s)) \in Nat /\ Cardinality(LeftFor(s)') \in Nat
          /\ Cardinality(LeftFor(s)) = Cardinality(LeftFor(s)') + (IF h.sid = s THEN 1 ELSE 0)
      BY <1>1, <1>3, <2>2, LeftCounts
    <3>2. s \in Sids /\ history.told[s] \in Nat
      BY <1>1, <2>3, MaxEntriesAssumption DEF TypeOK
    <3>3. history'.told[s] = history.told[s] + (IF h.sid = s THEN 1 ELSE 0)
      <4>1. CASE h.sid = s
        BY <1>7, <2>3, <3>2, <4>1
      <4>2. CASE h.sid # s
        BY <2>4, <3>2, <4>2
      <4> QED
        BY <4>1, <4>2
    <3>4. history.told[s] + Cardinality(LeftFor(s)) = Due(s, Matching)
      BY <1>1 DEF StayersAreTold
    <3> QED
      BY <3>1, <3>2, <3>3, <3>4
  <2>10. AwayAreAhead'
    BY <1>1, <1>2, <2>2, <2>4, AwayAfterWrite
  <2> QED
    BY <2>6, <2>7, <2>8, <2>9, <2>10 DEF PubSubInv
<1> QED
  BY <1>1, <1>3, <1>6, <1>7 DEF Write, WriteToDestroyed, Writing

\* The worker is done, and the history of the publish is.
LEMMA PublishEndsStep ==
  ASSUME PubSubInv, PublishEnds
  PROVE  PubSubInv'
<1>1. TypeOK /\ Bounded
  BY DEF PubSubInv
<1>2. /\ UNCHANGED <<connected, subscribers, known, patterns>> /\ Held' = Held
      /\ history' = NoHistory
  BY DEF PublishEnds, map, Held
<1>3. /\ worker' \in Worker /\ worker'.at = "idle" /\ worker'.num = worker.num
      /\ Len(worker'.left) = 0
  BY <1>1, IdleWorker DEF PublishEnds
<1>4. /\ NoHistory \in [stayed : SUBSET connected, away : SUBSET (Sids \ connected),
                        told : [Sids -> 0 .. MaxEntries]]
      /\ \A s \in Sids : NoHistory.told[s] = 0
  BY MaxEntriesAssumption DEF NoHistory
<1>5. TypeOK'
  BY <1>1, <1>2, <1>3, <1>4 DEF TypeOK
<1>6. worker.num \in Nat /\ worker.num <= MaxEntries
  BY <1>1, MaxEntriesAssumption DEF TypeOK, Worker
<1>7. Bounded'
  BY <1>1, <1>2, <1>3, <1>4, <1>6 DEF Bounded
<1> QED
  BY <1>3, <1>5, <1>7, NotPublishing

LEMMA PubSubInvStep ==
  ASSUME PubSubInv, [Next]_vars
  PROVE  PubSubInv'
<1>1. CASE IOThread
  BY <1>1, IOThreadStep DEF IOThread
<1>2. CASE \E s \in Sids : Serve(s)
  BY <1>2, ServeStep
<1>3. CASE Commands
  BY <1>3, ListsStep, NoPublishStep, PublishBeginsStep DEF Commands
<1>4. CASE Delivery
  BY <1>4, LookupHitStep, LookupMissStep, WriteStep, PublishEndsStep DEF Delivery
<1>5. CASE UNCHANGED vars
  BY <1>5 DEF vars, map, PubSubInv, TypeOK, Bounded, Held, Writing, StayersAreTold, LeftFor, Due,
              Matching, Publishing, AwayAreAhead
<1> QED
  BY <1>1, <1>2, <1>3, <1>4, <1>5 DEF Next

LEMMA PubSubInvariant == Spec => []PubSubInv
<1>1. PubSubInv /\ [Next]_vars => PubSubInv'
  BY PubSubInvStep
<1> QED
  BY PubSubInvInit, <1>1, PTL DEF Spec

-----------------------------------------------------------------------------

\* Every variable keeps its type: in particular nobody gets more messages of a
\* publish, and the copy of the lists never has more entries, than are held.
THEOREM PubSubTypes == Spec => []TypeOK
<1>1. PubSubInv => TypeOK
  BY DEF PubSubInv
<1> QED
  BY PubSubInvariant, <1>1, PTL

\* Who stays connected while a message is delivered gets it as often as it has
\* subscribed to a name that matches, however the I/O thread lets others come and
\* go, and although the worker drops the ids it does not find (PublishCommand).
THEOREM StayersGetTheirs == Spec => []StayersAreTold
<1>1. PubSubInv => StayersAreTold
  BY DEF PubSubInv
<1> QED
  BY PubSubInvariant, <1>1, PTL

\* A publish that is over has dropped, under the names that match, every id
\* that had no session since it began (EWrongSessionID, removeSubscriber).
THEOREM TheAwayAreDropped == Spec => []TheGoneAreForgotten
<1>1. PubSubInv => TheGoneAreForgotten
  <2> SUFFICES ASSUME PubSubInv, Publishing, worker.left = <<>>, NEW s \in history.away
               PROVE  Due(s, Matching) = 0
    BY DEF TheGoneAreForgotten
  <2>1. DOMAIN worker.left = {}
    OBVIOUS
  <2>2. \A n \in Matching : \A i \in DOMAIN subscribers[n] : subscribers[n][i] # s
    BY <2>1 DEF PubSubInv, AwayAreAhead
  <2>3. {e \in Held : e[1] \in Matching /\ subscribers[e[1]][e[2]] = s} = {}
    BY <2>2 DEF Held
  <2> QED
    BY <2>3, FS_EmptySet DEF Due
<1> QED
  BY PubSubInvariant, <1>1, PTL

=====
