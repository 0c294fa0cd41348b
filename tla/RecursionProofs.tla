-------------------------- MODULE RecursionProofs --------------------------
(***************************************************************************)
(* Induction over natural numbers, through the sets of those a fact holds  *)
(* of, and what it shows of the recursive operators on sequences that the  *)
(* models use: FlattenSeq and FoldLeft.                                    *)
(***************************************************************************)
EXTENDS Integers, SequencesExt, FunctionTheorems, SequenceTheorems, WellFoundedInduction, TLAPS

\* Among natural numbers there is a least one.
LEMMA Least ==
  ASSUME NEW S \in SUBSET Nat, S # {}
  PROVE  \E n \in S : \A m \in S : n <= m
<1>1. \E n \in S : \A m \in S : ~ <<m, n>> \in OpToRel(<, Nat)
  BY NatLessThanWellFounded, WFMin, Zenon
<1>2. OpToRel(<, Nat) = {ss \in Nat \X Nat : ss[1] < ss[2]}
  BY Zenon DEF OpToRel
<1>3. PICK n \in S : \A m \in S : ~ <<m, n>> \in {ss \in Nat \X Nat : ss[1] < ss[2]}
  BY <1>1, <1>2, Zenon
<1>4. ASSUME NEW m \in S PROVE n <= m
  <2>1. m \in Nat /\ n \in Nat /\ <<m, n>>[1] = m /\ <<m, n>>[2] = n /\ <<m, n>> \in Nat \X Nat
    OBVIOUS
  <2>2. ~ (<<m, n>>[1] < <<m, n>>[2])
    BY <1>3, <2>1, Zenon
  <2> QED
    BY <2>1, <2>2
<1> QED
  BY <1>4

\* Induction, on the numbers that are in a set.
LEMMA Inductive ==
  ASSUME NEW S, 0 \in S, \A n \in Nat : n \in S => n + 1 \in S
  PROVE  \A n \in Nat : n \in S
<1> SUFFICES ASSUME Nat \ S # {} PROVE FALSE
  OBVIOUS
<1>1. PICK n \in Nat \ S : \A m \in Nat \ S : n <= m
  BY Least
<1>2. n - 1 \in Nat /\ n - 1 \in S
  BY <1>1
<1> QED
  BY <1>1, <1>2

\* Where the elements of the first k of some sequences are.
Places(seqs, k) == {p \in (1 .. k) \X Nat : p[2] \in 1 .. Len(seqs[p[1]])}

\* t has those elements, each once, whatever their order.
Flat(t, S, seqs, k) ==
    /\ t \in Seq(S)
    /\ \E b \in Bijection(1 .. Len(t), Places(seqs, k)) :
          \A i \in 1 .. Len(t) : t[i] = seqs[b[i][1]][b[i][2]]

LEMMA FlatOne ==
  ASSUME NEW S, NEW seqs \in Seq(Seq(S)), Len(seqs) # 0
  PROVE  Flat(seqs[1], S, seqs, 1)
<1> DEFINE t == seqs[1]
           b == [i \in 1 .. Len(t) |-> <<1, i>>]
<1>1. t \in Seq(S) /\ Len(t) \in Nat
  BY ElementOfSeq, LenProperties
<1>2. \A i \in 1 .. Len(t) : b[i][1] = 1 /\ b[i][2] = i
  OBVIOUS
<1>3. b \in [1 .. Len(t) -> Places(seqs, 1)]
  BY <1>1 DEF Places
<1>4. \A i, j \in 1 .. Len(t) : b[i] = b[j] => i = j
  BY <1>2
<1>5. \A p \in Places(seqs, 1) : p[2] \in 1 .. Len(t) /\ p = b[p[2]]
  BY <1>1 DEF Places
<1>6. b \in Bijection(1 .. Len(t), Places(seqs, 1))
  BY <1>3, <1>4, <1>5 DEF Bijection, Injection, Surjection, IsInjective
<1> HIDE DEF b
<1> QED
  BY <1>1, <1>2, <1>6 DEF Flat

LEMMA FlatMore ==
  ASSUME NEW S, NEW seqs \in Seq(Seq(S)), NEW k \in Nat, k + 1 <= Len(seqs),
         NEW t, Flat(t, S, seqs, k)
  PROVE  Flat(t \o seqs[k + 1], S, seqs, k + 1)
<1> DEFINE u == seqs[k + 1]
           w == t \o u
<1>1. PICK b \in Bijection(1 .. Len(t), Places(seqs, k)) :
        \A i \in 1 .. Len(t) : t[i] = seqs[b[i][1]][b[i][2]]
  BY DEF Flat
<1> DEFINE a == [i \in 1 .. Len(w) |-> IF i <= Len(t) THEN b[i] ELSE <<k + 1, i - Len(t)>>]
<1>2. t \in Seq(S) /\ Len(t) \in Nat /\ u \in Seq(S) /\ Len(u) \in Nat
  BY ElementOfSeq, LenProperties DEF Flat
<1>3. /\ w \in Seq(S) /\ Len(w) = Len(t) + Len(u)
      /\ \A i \in 1 .. Len(t) : w[i] = t[i]
      /\ \A i \in 1 .. Len(u) : w[Len(t) + i] = u[i]
  <2>1. w = t \o u
    OBVIOUS
  <2> HIDE DEF w, u, a
  <2>2. /\ w \in Seq(S) /\ Len(w) = Len(t) + Len(u)
        /\ \A i \in 1 .. Len(t) + Len(u) : w[i] = IF i <= Len(t) THEN t[i] ELSE u[i - Len(t)]
    BY <1>2, <2>1, ConcatProperties
  <2>3. ASSUME NEW i \in 1 .. Len(t) PROVE w[i] = t[i]
    BY <1>2, <2>2
  <2>4. ASSUME NEW i \in 1 .. Len(u) PROVE w[Len(t) + i] = u[i]
    <3>1. /\ Len(t) + i \in 1 .. Len(t) + Len(u)
          /\ ~ (Len(t) + i <= Len(t)) /\ (Len(t) + i) - Len(t) = i
      BY <1>2
    <3> QED
      BY <2>2, <3>1
  <2> QED
    BY <2>2, <2>3, <2>4
<1> HIDE DEF w, u
<1>4. /\ b \in [1 .. Len(t) -> Places(seqs, k)]
      /\ \A i, j \in 1 .. Len(t) : b[i] = b[j] => i = j
      /\ \A p \in Places(seqs, k) : \E i \in 1 .. Len(t) : b[i] = p
  BY <1>1 DEF Bijection, Injection, Surjection, IsInjective
<1>5. /\ \A i \in 1 .. Len(t) : i \in 1 .. Len(w) /\ a[i] = b[i] /\ a[i] \in Places(seqs, k)
      /\ \A i \in 1 .. Len(u) : /\ Len(t) + i \in 1 .. Len(w)
                                /\ a[Len(t) + i] = <<k + 1, i>>
      /\ \A i \in 1 .. Len(w) : \/ i \in 1 .. Len(t)
                                \/ \E j \in 1 .. Len(u) : i = Len(t) + j
  <2>1. \A i \in 1 .. Len(u) : ~ (Len(t) + i <= Len(t)) /\ Len(t) + i - Len(t) = i
    BY <1>2
  <2>2. ASSUME NEW i \in 1 .. Len(t)
        PROVE  i \in 1 .. Len(w) /\ a[i] = b[i] /\ a[i] \in Places(seqs, k)
    <3>1. i \in 1 .. Len(w) /\ i <= Len(t)
      BY <1>2, <1>3
    <3>2. a[i] = b[i]
      BY <3>1
    <3> HIDE DEF a
    <3> QED
      BY <1>4, <3>1, <3>2
  <2>3. \A i \in 1 .. Len(u) : Len(t) + i \in 1 .. Len(w)
    BY <1>2, <1>3
  <2>4. ASSUME NEW i \in 1 .. Len(w), i \notin 1 .. Len(t)
        PROVE  i - Len(t) \in 1 .. Len(u) /\ i = Len(t) + (i - Len(t))
    BY <1>2, <1>3, <2>4
  <2>5. \A i \in 1 .. Len(u) : a[Len(t) + i] = <<k + 1, i>>
    BY <2>1, <2>3
  <2> QED
    BY <2>2, <2>3, <2>4, <2>5
<1>6. a = [i \in 1 .. Len(w) |-> a[i]]
  OBVIOUS
<1> HIDE DEF a
<1>7. /\ Places(seqs, k + 1) = Places(seqs, k) \cup {<<k + 1, i>> : i \in 1 .. Len(u)}
      /\ \A p \in Places(seqs, k) : p[1] # k + 1
  <2>1. \A p \in Places(seqs, k) : p \in Places(seqs, k + 1) /\ p[1] # k + 1
    BY DEF Places
  <2>2. ASSUME NEW i \in 1 .. Len(u) PROVE <<k + 1, i>> \in Places(seqs, k + 1)
    <3>1. k + 1 \in 1 .. k + 1 /\ i \in Nat /\ i \in 1 .. Len(seqs[k + 1])
      BY <1>2 DEF u
    <3>2. <<k + 1, i>> \in (1 .. k + 1) \X Nat
      BY <3>1
    <3> QED
      BY <3>1, <3>2 DEF Places
  <2>3. ASSUME NEW p \in Places(seqs, k + 1), p \notin Places(seqs, k)
        PROVE  p[2] \in 1 .. Len(u) /\ p = <<k + 1, p[2]>>
    <3>1. p[1] \in 1 .. k + 1 /\ p[2] \in Nat /\ p = <<p[1], p[2]>> /\ p[2] \in 1 .. Len(seqs[p[1]])
      BY DEF Places
    <3>2. p[1] \notin 1 .. k
      BY <2>3, <3>1 DEF Places
    <3>3. p[1] = k + 1
      BY <3>1, <3>2
    <3> QED
      BY <3>1, <3>3 DEF u
  <2> QED
    BY <2>1, <2>2, <2>3
<1>8. a \in [1 .. Len(w) -> Places(seqs, k + 1)]
  <2>1. ASSUME NEW i \in 1 .. Len(w) PROVE a[i] \in Places(seqs, k + 1)
    <3>1. CASE i \in 1 .. Len(t)
      BY <1>5, <1>7, <3>1
    <3>2. ASSUME NEW j \in 1 .. Len(u), i = Len(t) + j PROVE a[i] \in Places(seqs, k + 1)
      BY <1>5, <1>7, <3>2
    <3> QED
      BY <1>5, <3>1, <3>2
  <2> QED
    BY <1>6, <2>1
<1>9. ASSUME NEW i \in 1 .. Len(w), NEW j \in 1 .. Len(w), a[i] = a[j] PROVE i = j
  <2>1. CASE i \in 1 .. Len(t) /\ j \in 1 .. Len(t)
    BY <1>4, <1>5, <1>9, <2>1
  <2>2. CASE i \in 1 .. Len(t) /\ j \notin 1 .. Len(t)
    <3>1. PICK y \in 1 .. Len(u) : j = Len(t) + y
      BY <1>5, <2>2
    <3>2. a[j][1] = k + 1
      BY <1>5, <3>1
    <3> QED
      BY <1>5, <1>7, <1>9, <2>2, <3>2
  <2>3. CASE i \notin 1 .. Len(t) /\ j \in 1 .. Len(t)
    <3>1. PICK y \in 1 .. Len(u) : i = Len(t) + y
      BY <1>5, <2>3
    <3>2. a[i][1] = k + 1
      BY <1>5, <3>1
    <3> QED
      BY <1>5, <1>7, <1>9, <2>3, <3>2
  <2>4. CASE i \notin 1 .. Len(t) /\ j \notin 1 .. Len(t)
    <3>1. PICK x \in 1 .. Len(u) : i = Len(t) + x
      BY <1>5, <2>4
    <3>2. PICK y \in 1 .. Len(u) : j = Len(t) + y
      BY <1>5, <2>4
    <3>3. <<k + 1, x>> = <<k + 1, y>>
      BY <1>5, <1>9, <3>1, <3>2
    <3> QED
      BY <3>1, <3>2, <3>3
  <2> QED
    BY <2>1, <2>2, <2>3, <2>4
<1>10. ASSUME NEW p \in Places(seqs, k + 1) PROVE \E i \in 1 .. Len(w) : a[i] = p
  <2>1. CASE p \in Places(seqs, k)
    BY <1>4, <1>5, <2>1
  <2>2. CASE \E i \in 1 .. Len(u) : p = <<k + 1, i>>
    BY <1>5, <2>2
  <2> QED
    BY <1>7, <2>1, <2>2
<1>11. a \in Bijection(1 .. Len(w), Places(seqs, k + 1))
  BY <1>8, <1>9, <1>10 DEF Bijection, Injection, Surjection, IsInjective
<1>12. ASSUME NEW i \in 1 .. Len(w) PROVE w[i] = seqs[a[i][1]][a[i][2]]
  <2>1. CASE i \in 1 .. Len(t)
    BY <1>1, <1>3, <1>5, <2>1
  <2>2. CASE \E j \in 1 .. Len(u) : i = Len(t) + j
    <3>1. PICK j \in 1 .. Len(u) : i = Len(t) + j
      BY <2>2
    <3>2. w[i] = u[j] /\ a[i] = <<k + 1, j>>
      BY <1>3, <1>5, <3>1
    <3> QED
      BY <3>2 DEF u
  <2> QED
    BY <1>5, <2>1, <2>2
<1> QED
  BY <1>3, <1>11, <1>12 DEF Flat, w, u

\* FlattenSeq arranges the elements of its sequences, each once.
LEMMA Flattened ==
  ASSUME NEW S, NEW seqs \in Seq(Seq(S))
  PROVE  Flat(FlattenSeq(seqs), S, seqs, Len(seqs))
<1>1. Len(seqs) \in Nat
  BY LenProperties
<1>2. CASE Len(seqs) = 0
  <2>1. FlattenSeq(seqs) = <<>>
    BY <1>2, EmptySeq DEF FlattenSeq
  <2>2. Places(seqs, 0) = {} /\ 1 .. Len(<<>>) = {}
    BY DEF Places
  <2>3. <<>> \in Seq(S)
    OBVIOUS
  <2>4. PICK b : b \in Bijection({}, {})
    <3>1. [i \in {} |-> i] \in Bijection({}, {})
      BY DEF Bijection, Injection, Surjection, IsInjective
    <3> QED
      BY <3>1
  <2>5. Flat(<<>>, S, seqs, 0)
    BY <2>2, <2>3, <2>4 DEF Flat
  <2> QED
    BY <1>2, <2>1, <2>5
<1>3. CASE Len(seqs) # 0
  <2> DEFINE Rec(f, n) == /\ f = [i \in 1 .. n |-> f[i]]
                          /\ \A i \in 1 .. n : f[i] = IF i = 1 THEN seqs[i] ELSE f[i - 1] \o seqs[i]
             Has == {n \in Nat : \E f : Rec(f, n)}
  <2>1. 0 \in Has
    <3>1. Rec([i \in 1 .. 0 |-> i], 0)
      OBVIOUS
    <3> QED
      BY <3>1
  <2>2. ASSUME NEW n \in Nat, n \in Has PROVE n + 1 \in Has
    <3>1. PICK f : Rec(f, n)
      BY <2>2
    <3> DEFINE g == [i \in 1 .. n + 1 |-> IF i = 1 THEN seqs[i] ELSE f[i - 1] \o seqs[i]]
    <3>2. \A i \in 1 .. n : g[i] = f[i]
      <4>1. \A i \in 1 .. n : f[i] = IF i = 1 THEN seqs[i] ELSE f[i - 1] \o seqs[i]
        BY <3>1
      <4> QED
        BY <4>1
    <3>3. \A i \in 1 .. n + 1 : i # 1 => i - 1 \in 1 .. n
      OBVIOUS
    <3>4. /\ g = [i \in 1 .. n + 1 |-> g[i]]
          /\ \A i \in 1 .. n + 1 : g[i] = IF i = 1 THEN seqs[i] ELSE f[i - 1] \o seqs[i]
      OBVIOUS
    <3> HIDE DEF g
    <3>5. \A i \in 1 .. n + 1 : g[i] = IF i = 1 THEN seqs[i] ELSE g[i - 1] \o seqs[i]
      BY <3>2, <3>3, <3>4
    <3>6. Rec(g, n + 1)
      BY <3>4, <3>5
    <3> HIDE DEF Rec
    <3> QED
      BY <3>6
  <2>3. \E f : Rec(f, Len(seqs))
    <3> HIDE DEF Has
    <3>1. Len(seqs) \in Has
      BY <1>1, <2>1, <2>2, Inductive
    <3> QED
      BY <3>1 DEF Has
  <2> DEFINE Fix(h) == h = [i \in 1 .. Len(seqs) |-> IF i = 1 THEN seqs[i] ELSE h[i - 1] \o seqs[i]]
             fl == CHOOSE h : Fix(h)
  <2>4. Fix(fl)
    <3>1. PICK f : Rec(f, Len(seqs))
      BY <2>3
    <3>2. \A i \in 1 .. Len(seqs) : f[i] = IF i = 1 THEN seqs[i] ELSE f[i - 1] \o seqs[i]
      BY <3>1
    <3>3. [i \in 1 .. Len(seqs) |-> f[i]]
             = [i \in 1 .. Len(seqs) |-> IF i = 1 THEN seqs[i] ELSE f[i - 1] \o seqs[i]]
      BY <3>2
    <3>4. Fix(f)
      BY <3>1, <3>3, Zenon
    <3> HIDE DEF Fix
    <3> QED
      BY <3>4, Zenon
  <2>5. FlattenSeq(seqs) = fl[Len(seqs)]
    BY <1>3 DEF FlattenSeq
  <2>6. \A i \in 1 .. Len(seqs) : fl[i] = IF i = 1 THEN seqs[i] ELSE fl[i - 1] \o seqs[i]
    <3>1. ASSUME NEW h, Fix(h), NEW i \in 1 .. Len(seqs)
          PROVE  h[i] = IF i = 1 THEN seqs[i] ELSE h[i - 1] \o seqs[i]
      <4> DEFINE e(x) == IF x = 1 THEN seqs[x] ELSE h[x - 1] \o seqs[x]
      <4> HIDE DEF e
      <4>1. [x \in 1 .. Len(seqs) |-> e(x)][i] = e(i)
        OBVIOUS
      <4>2. h[i] = [x \in 1 .. Len(seqs) |-> e(x)][i]
        BY <3>1, Zenon DEF e
      <4> QED
        BY <4>1, <4>2, Zenon DEF e
    <3> HIDE DEF Fix, fl
    <3> QED
      BY <2>4, <3>1
  <2> HIDE DEF fl
  <2> DEFINE Done == {n \in Nat : n \in 1 .. Len(seqs) => Flat(fl[n], S, seqs, n)}
  <2>7. 0 \in Done
    OBVIOUS
  <2>8. ASSUME NEW n \in Nat, n \in Done PROVE n + 1 \in Done
    <3> SUFFICES ASSUME n + 1 \in 1 .. Len(seqs) PROVE Flat(fl[n + 1], S, seqs, n + 1)
      OBVIOUS
    <3>1. CASE n = 0
      <4>1. fl[1] = seqs[1]
        BY <1>1, <1>3, <2>6, <3>1
      <4> QED
        BY <1>3, <3>1, <4>1, FlatOne
    <3>2. CASE n # 0
      <4>1. fl[n + 1] = fl[n] \o seqs[n + 1]
        <5>1. n + 1 # 1 /\ (n + 1) - 1 = n
          BY <3>2
        <5>2. fl[n + 1] = IF n + 1 = 1 THEN seqs[n + 1] ELSE fl[(n + 1) - 1] \o seqs[n + 1]
          BY <2>6
        <5> QED
          BY <5>1, <5>2
      <4>2. n \in 1 .. Len(seqs) /\ n + 1 <= Len(seqs)
        BY <1>1, <3>2
      <4>3. Flat(fl[n], S, seqs, n)
        BY <2>8, <4>2
      <4> QED
        BY <4>1, <4>2, <4>3, FlatMore
    <3> QED
      BY <3>1, <3>2
  <2> HIDE DEF Done
  <2>9. Len(seqs) \in Done
    BY <1>1, <2>7, <2>8, Inductive
  <2> QED
    BY <1>1, <1>3, <2>5, <2>9 DEF Done
<1> QED
  BY <1>2, <1>3

-----------------------------------------------------------------------------
(* Recursion where each value is had from those of smaller arguments.      *)

\* B says which value x has, given the function: it needs of it only the values at
\* arguments of a smaller size.
Recursion(D, V, top, size, B) ==
    /\ size \in [D -> 0 .. top]
    /\ B \in [[D -> V] \X D -> V]
    /\ \A g, h \in [D -> V], x \in D :
          (\A y \in D : size[y] < size[x] => g[y] = h[y]) => B[<<g, x>>] = B[<<h, x>>]

Solves(g, D, V, B) == g \in [D -> V] /\ \A x \in D : g[x] = B[<<g, x>>]

\* Then there is a function that has the values B says.
LEMMA RecursionExists ==
  ASSUME NEW D, NEW V, NEW v \in V, NEW top \in Nat, NEW size, NEW B,
         Recursion(D, V, top, size, B)
  PROVE  \E g : Solves(g, D, V, B)
<1> USE DEF Recursion
<1> DEFINE Rec(g, n) == \A x \in D : size[x] < n => g[x] = B[<<g, x>>]
           Has == {n \in Nat : \E g \in [D -> V] : Rec(g, n)}
<1>1. 0 \in Has
  <2>1. [x \in D |-> v] \in [D -> V]
    OBVIOUS
  <2>2. \A x \in D : ~ size[x] < 0
    OBVIOUS
  <2> QED
    BY <2>1, <2>2
<1>2. ASSUME NEW n \in Nat, n \in Has PROVE n + 1 \in Has
  <2>1. PICK g \in [D -> V] : Rec(g, n)
    BY <1>2
  <2> DEFINE h == [x \in D |-> IF size[x] < n THEN g[x] ELSE B[<<g, x>>]]
  <2>2. \A x \in D : B[<<g, x>>] \in V
    OBVIOUS
  <2>3. h \in [D -> V] /\ \A x \in D : h[x] = IF size[x] < n THEN g[x] ELSE B[<<g, x>>]
    BY <2>2
  <2> HIDE DEF h
  <2>4. ASSUME NEW x \in D, size[x] < n + 1 PROVE h[x] = B[<<h, x>>]
    <3>1. h[x] = B[<<g, x>>]
      BY <2>1, <2>3
    <3>2. \A y \in D : size[y] < size[x] => size[y] < n
      BY <2>4
    <3>3. \A y \in D : size[y] < size[x] => g[y] = h[y]
      BY <2>3, <3>2
    <3>4. B[<<g, x>>] = B[<<h, x>>]
      BY <2>3, <3>3
    <3> QED
      BY <3>1, <3>4
  <2>5. Rec(h, n + 1)
    BY <2>4
  <2> HIDE DEF Rec
  <2> QED
    BY <2>3, <2>5
<1>3. top + 1 \in Has
  <2> HIDE DEF Has
  <2> QED
    BY <1>1, <1>2, Inductive
<1>4. \A x \in D : size[x] < top + 1
  OBVIOUS
<1> QED
  BY <1>3, <1>4 DEF Solves

-----------------------------------------------------------------------------
(* FoldLeft goes over the positions of a sequence, the greatest one last.  *)

LEMMA Greatest ==
  ASSUME NEW n \in Nat, NEW s \in SUBSET (1 .. n), s # {}
  PROVE  Max(s) \in s /\ \A y \in s : y <= Max(s)
<1> DEFINE T == {m \in Nat : n - m \in s}
<1>1. T # {}
  <2>1. PICK y \in s : TRUE
    OBVIOUS
  <2>2. n - y \in Nat /\ n - (n - y) = y
    OBVIOUS
  <2> QED
    BY <2>1, <2>2
<1>2. PICK m \in T : \A k \in T : m <= k
  BY <1>1, Least
<1>3. ASSUME NEW y \in s PROVE y <= n - m
  <2>1. n - y \in Nat /\ n - (n - y) = y
    OBVIOUS
  <2> QED
    BY <1>2, <2>1
<1>4. \E x \in s : \A y \in s : x >= y
  BY <1>2, <1>3
<1>5. Max(s) \in s /\ \A y \in s : Max(s) >= y
  BY <1>4, Zenon DEF Max
<1> QED
  BY <1>5

\* What FoldLeft takes the value of, for all the n positions.
Folding(g, n, T, base, F) ==
    /\ g \in [SUBSET (1 .. n) -> T]
    /\ \A s \in SUBSET (1 .. n) :
          g[s] = IF s = {} THEN base ELSE F[<<g[s \ {Max(s)}], Max(s)>>]

\* There is such a function.
LEMMA FoldExists ==
  ASSUME NEW n \in Nat, NEW T, NEW base \in T, NEW F \in [T \X (1 .. n) -> T]
  PROVE  \E g : Folding(g, n, T, base, F)
<1> DEFINE D == SUBSET (1 .. n)
           size == [s \in D |-> IF s = {} THEN 0 ELSE Max(s)]
           B == [p \in [D -> T] \X D |->
                   IF p[2] = {} THEN base ELSE F[<<p[1][p[2] \ {Max(p[2])}], Max(p[2])>>]]
<1>1. \A s \in D : s # {} => /\ Max(s) \in 1 .. n
                             /\ s \ {Max(s)} \in D
  BY Greatest
<1>2. size \in [D -> 0 .. n]
  BY <1>1
<1>3. ASSUME NEW g \in [D -> T], NEW s \in D, s # {}
      PROVE  F[<<g[s \ {Max(s)}], Max(s)>>] \in T
  BY <1>1, <1>3
<1>4. ASSUME NEW g \in [D -> T], NEW s \in D
      PROVE  B[<<g, s>>] = IF s = {} THEN base ELSE F[<<g[s \ {Max(s)}], Max(s)>>]
  OBVIOUS
<1>5. B \in [[D -> T] \X D -> T]
  BY <1>3
<1>6. ASSUME NEW g \in [D -> T], NEW h \in [D -> T], NEW s \in D,
             \A u \in D : size[u] < size[s] => g[u] = h[u]
      PROVE  B[<<g, s>>] = B[<<h, s>>]
  <2>1. CASE s = {}
    BY <1>4, <2>1
  <2>2. CASE s # {}
    <3> DEFINE u == s \ {Max(s)}
    <3>1. u \in D
      BY <1>1, <2>2
    <3>2. size[u] < size[s]
      <4>1. CASE u = {}
        BY <1>1, <2>2, <4>1
      <4>2. CASE u # {}
        <5>1. Max(u) \in u /\ Max(u) \in s /\ Max(u) # Max(s)
          BY <3>1, <4>2, Greatest
        <5>2. Max(s) \in 1 .. n /\ Max(u) \in 1 .. n /\ Max(u) <= Max(s)
          <6>1. \A y \in s : y <= Max(s)
            BY <2>2, Greatest
          <6>2. Max(u) \in 1 .. n
            BY <1>1, <3>1, <4>2
          <6> QED
            BY <1>1, <2>2, <5>1, <6>1, <6>2
        <5>3. Max(u) < Max(s)
          BY <5>1, <5>2
        <5>4. size[u] = Max(u) /\ size[s] = Max(s)
          BY <2>2, <3>1, <4>2
        <5> QED
          BY <5>3, <5>4
      <4> QED
        BY <4>1, <4>2
    <3>3. g[u] = h[u]
      BY <1>6, <3>1, <3>2
    <3> HIDE DEF B
    <3> QED
      BY <1>4, <2>2, <3>3
  <2> QED
    BY <2>1, <2>2
<1> HIDE DEF B, size
<1>7. Recursion(D, T, n, size, B)
  BY <1>2, <1>5, <1>6 DEF Recursion
<1>8. PICK g : Solves(g, D, T, B)
  <2> HIDE DEF D
  <2> QED
    BY <1>7, RecursionExists
<1>9. g \in [D -> T] /\ \A s \in D : g[s] = B[<<g, s>>]
  BY <1>8 DEF Solves
<1>10. ASSUME NEW s \in D
       PROVE  g[s] = IF s = {} THEN base ELSE F[<<g[s \ {Max(s)}], Max(s)>>]
  <2> HIDE DEF D
  <2> QED
    BY <1>4, <1>9
<1> QED
  BY <1>9, <1>10 DEF Folding

\* What holds of the base and is kept by each element holds of the fold.
LEMMA FoldStays ==
  ASSUME NEW n \in Nat, NEW T, NEW h, h[{}] \in T,
         \A s \in SUBSET (1 .. n) : s # {} /\ h[s \ {Max(s)}] \in T => h[s] \in T
  PROVE  h[1 .. n] \in T
<1> DEFINE Done == {k \in Nat : k <= n => h[1 .. k] \in T}
<1>1. 0 \in Done
  <2>1. 1 .. 0 = {}
    OBVIOUS
  <2> QED
    BY <2>1
<1>2. ASSUME NEW k \in Nat, k \in Done PROVE k + 1 \in Done
  <2> SUFFICES ASSUME k + 1 <= n PROVE h[1 .. k + 1] \in T
    OBVIOUS
  <2>1. 1 .. k + 1 \in SUBSET (1 .. n) /\ 1 .. k + 1 # {} /\ k + 1 \in 1 .. k + 1
    OBVIOUS
  <2>2. Max(1 .. k + 1) = k + 1
    <3>1. Max(1 .. k + 1) \in 1 .. k + 1
      BY <2>1, Greatest
    <3>2. \A y \in 1 .. k + 1 : y <= Max(1 .. k + 1)
      BY <2>1, Greatest
    <3> QED
      BY <2>1, <3>1, <3>2
  <2>3. (1 .. k + 1) \ {k + 1} = 1 .. k
    OBVIOUS
  <2>4. h[1 .. k] \in T
    BY <1>2
  <2> QED
    BY <2>1, <2>2, <2>3, <2>4
<1>3. n \in Done
  <2> HIDE DEF Done
  <2> QED
    BY <1>1, <1>2, Inductive
<1> QED
  BY <1>3

=============================================================================
