---------------------------- MODULE RenderProofs ----------------------------
(***************************************************************************)
(* Rendering, for any lockfile, platforms, calls and dependency graphs.     *)
(* What Toposort yields is filtered without disturbing its order, whole     *)
(* files are of the lock they say, and no two turns of a call write to one  *)
(* file.                                                                    *)
(***************************************************************************)
EXTENDS Render, TLAPS, FiniteSetTheorems, WellFoundedInduction

Ordering == INSTANCE ToposortProofs WITH Item <- Name

-----------------------------------------------------------------------------
(* Sequences: what FlattenSeq and Filtered make of theirs. *)

LEMMA LeastNumber ==
    ASSUME NEW S \in SUBSET Nat, S # {}
    PROVE  \E x \in S : \A y \in S : x <= y
<1>1. PICK x \in S : \A y \in S : ~(<<y, x>> \in OpToRel(<, Nat))
  BY NatLessThanWellFounded, WFMin
<1>2. ASSUME NEW y \in S PROVE x <= y
  <2>1. CASE y < x
    <3>1. <<y, x>> \in Nat \X Nat /\ <<y, x>>[1] < <<y, x>>[2]
      BY <2>1
    <3> QED
      BY <1>1, <3>1 DEF OpToRel
  <2> QED
    BY <2>1
<1> QED
  BY <1>2

(* A set of numbers that has 0 and the successors of its members up to N.    *)
LEMMA UpTo ==
    ASSUME NEW N \in Nat, NEW S, 0 \in S,
           \A n \in 1 .. N : n - 1 \in S => n \in S
    PROVE  \A n \in 0 .. N : n \in S
<1> DEFINE Bad == {n \in 0 .. N : n \notin S}
<1> SUFFICES ASSUME Bad # {} PROVE FALSE
  OBVIOUS
<1>1. Bad \in SUBSET Nat
  OBVIOUS
<1> HIDE DEF Bad
<1>2. PICK x \in Bad : \A y \in Bad : x <= y
  BY <1>1, LeastNumber
<1>3. x \in 1 .. N /\ x \notin S
  BY <1>2 DEF Bad
<1>4. x - 1 \in 0 .. N /\ ~(x <= x - 1)
  BY <1>3
<1>5. x - 1 \in S
  BY <1>2, <1>4 DEF Bad
<1> QED
  BY <1>3, <1>5

LEMMA Flattening ==
    ASSUME NEW X, NEW ss \in Seq(Seq(X))
    PROVE  \E f \in [0 .. Len(ss) -> Seq(X)] :
              /\ f[0] = <<>>
              /\ \A i \in 1 .. Len(ss) : f[i] = f[i - 1] \o ss[i]
              /\ FlattenSeq(ss) = f[Len(ss)]
<1> DEFINE N == Len(ss)
           Def(g, n) == g = [i \in 1 .. n |-> IF i = 1 THEN ss[i] ELSE g[i - 1] \o ss[i]]
<1>1. N \in Nat /\ \A i \in 1 .. N : ss[i] \in Seq(X)
  OBVIOUS
<1> HIDE DEF N
<1>2. \A n \in 0 .. N : \E g : Def(g, n)
  <2> DEFINE Has == {n \in 0 .. N : \E g : Def(g, n)}
  <2>1. 0 \in Has
    <3> DEFINE g == [i \in 1 .. 0 |-> <<>>]
    <3>1. Def(g, 0)
      OBVIOUS
    <3>2. \E x : Def(x, 0)
      <4> HIDE DEF Def, g
      <4> QED
        BY <3>1
    <3>3. 0 \in 0 .. N
      BY <1>1
    <3> QED
      BY <3>2, <3>3, Zenon
  <2>2. ASSUME NEW n \in 1 .. N, n - 1 \in Has PROVE n \in Has
    <3>1. PICK h : Def(h, n - 1)
      BY <2>2
    <3> DEFINE g == [i \in 1 .. n |-> IF i = 1 THEN ss[i] ELSE h[i - 1] \o ss[i]]
    <3>2. ASSUME NEW i \in 1 .. n, i # 1 PROVE g[i - 1] = h[i - 1]
      <4>1. i - 1 \in 1 .. n - 1 /\ i - 1 \in 1 .. n
        BY <1>1, <3>2
      <4> QED
        BY <3>1, <4>1
    <3>3. Def(g, n)
      BY <3>2
    <3>4. \E x : Def(x, n)
      <4> HIDE DEF Def, g
      <4> QED
        BY <3>3
    <3>5. n \in 0 .. N
      BY <1>1
    <3> QED
      BY <3>4, <3>5, Zenon
  <2> HIDE DEF Has
  <2>3. \A n \in 0 .. N : n \in Has
    BY <1>1, <2>1, <2>2, UpTo
  <2> QED
    BY <2>3, Zenon DEF Has
<1>3. CASE N = 0
  <2> DEFINE f == [i \in 0 .. 0 |-> <<>>]
  <2>1. f \in [0 .. N -> Seq(X)] /\ f[0] = <<>> /\ ss = <<>> /\ 1 .. N = {}
    BY <1>3 DEF N
  <2>2. FlattenSeq(ss) = f[N]
    BY <1>3, <2>1 DEF FlattenSeq, N
  <2> QED
    BY <2>1, <2>2 DEF N
<1>4. CASE N # 0
  <2> DEFINE h == CHOOSE g : Def(g, N)
             f == [i \in 0 .. N |-> IF i = 0 THEN <<>> ELSE h[i]]
  <2>1. Def(h, N)
    <3>1. N \in 0 .. N
      BY <1>1
    <3> HIDE DEF Def
    <3> QED
      BY <1>2, <3>1, Zenon
  <2>2. FlattenSeq(ss) = h[N]
    BY <1>4 DEF FlattenSeq, N
  <2> HIDE DEF h
  <2>3. \A i \in 1 .. N : h[i] = IF i = 1 THEN ss[i] ELSE h[i - 1] \o ss[i]
    BY <2>1
  <2>4. /\ f[0] = <<>> /\ f[0] \in Seq(X) /\ 0 \in 0 .. N
        /\ \A i \in 1 .. N : /\ i - 1 \in 0 .. N /\ i \in 0 .. N
                            /\ f[i] = IF i = 1 THEN ss[i] ELSE f[i - 1] \o ss[i]
    <3>1. ASSUME NEW i \in 1 .. N, i # 1 PROVE f[i - 1] = h[i - 1]
      BY <1>1, <3>1
    <3>2. ASSUME NEW i \in 1 .. N PROVE i \in 0 .. N /\ i - 1 \in 0 .. N /\ f[i] = h[i]
      BY <1>1
    <3>3. f[0] = <<>> /\ f[0] \in Seq(X) /\ 0 \in 0 .. N
      BY <1>1
    <3> HIDE DEF f
    <3> QED
      BY <2>3, <3>1, <3>2, <3>3
  <2>5. f = [i \in 0 .. N |-> f[i]] /\ f[N] = h[N]
    BY <1>1, <1>4
  <2> HIDE DEF f
  <2>6. ASSUME NEW i \in 1 .. N PROVE f[i] = f[i - 1] \o ss[i]
    <3>1. CASE i = 1
      <4>1. f[i] = ss[i] /\ f[i - 1] = <<>> /\ ss[i] \in Seq(X)
        BY <1>1, <2>4, <3>1
      <4>2. <<>> \o ss[i] = ss[i]
        BY <4>1
      <4> QED
        BY <4>1, <4>2
    <3>2. CASE i # 1
      BY <2>4, <3>2
    <3> QED
      BY <3>1, <3>2
  <2>7. \A n \in 0 .. N : f[n] \in Seq(X)
    <3> DEFINE S == {i \in 0 .. N : f[i] \in Seq(X)}
    <3>1. 0 \in S
      BY <2>4
    <3>2. ASSUME NEW n \in 1 .. N, n - 1 \in S PROVE n \in S
      <4>1. f[n - 1] \in Seq(X) /\ ss[n] \in Seq(X) /\ n \in 0 .. N
        BY <1>1, <2>4, <3>2
      <4>2. f[n - 1] \o ss[n] \in Seq(X)
        BY <4>1
      <4> QED
        BY <2>6, <4>1, <4>2
    <3> HIDE DEF S
    <3>3. \A n \in 0 .. N : n \in S
      BY <1>1, <3>1, <3>2, UpTo
    <3> QED
      BY <3>3 DEF S
  <2>8. f \in [0 .. N -> Seq(X)]
    BY <2>5, <2>7
  <2> QED
    BY <2>2, <2>4, <2>5, <2>6, <2>8 DEF N
<1> QED
  BY <1>3, <1>4

(* What is in a sequence of sequences put together is in one of them. *)
LEMMA Flattened ==
    ASSUME NEW X, NEW ss \in Seq(Seq(X))
    PROVE  /\ FlattenSeq(ss) \in Seq(X)
           /\ \A x \in ToSet(FlattenSeq(ss)) : \E i \in DOMAIN ss : x \in ToSet(ss[i])
<1> DEFINE N == Len(ss)
<1>1. N \in Nat /\ DOMAIN ss = 1 .. N /\ \A i \in 1 .. N : ss[i] \in Seq(X)
  OBVIOUS
<1>2. PICK f \in [0 .. N -> Seq(X)] :
          /\ f[0] = <<>>
          /\ \A i \in 1 .. N : f[i] = f[i - 1] \o ss[i]
          /\ FlattenSeq(ss) = f[N]
  BY Flattening
<1> HIDE DEF N
<1> DEFINE S == {n \in 0 .. N : \A x \in ToSet(f[n]) : \E i \in DOMAIN ss : x \in ToSet(ss[i])}
<1>3. 0 \in S
  <2>1. ToSet(<<>>) = {}
    BY DEF ToSet
  <2> QED
    BY <1>1, <1>2, <2>1
<1>4. ASSUME NEW n \in 1 .. N, n - 1 \in S PROVE n \in S
  <2>0. n - 1 \in 0 .. N /\ n \in 0 .. N /\ n \in DOMAIN ss
    BY <1>1
  <2>1. f[n - 1] \in Seq(X) /\ ss[n] \in Seq(X)
    BY <1>1, <1>2, <2>0
  <2>2. \A a, b \in Seq(X) : \A x \in ToSet(a \o b) : x \in ToSet(a) \/ x \in ToSet(b)
    BY DEF ToSet
  <2>3. f[n] = f[n - 1] \o ss[n]
    BY <1>2
  <2>4. \A x \in ToSet(f[n]) : x \in ToSet(f[n - 1]) \/ x \in ToSet(ss[n])
    BY <2>1, <2>2, <2>3
  <2> QED
    BY <1>4, <2>0, <2>4
<1> HIDE DEF S
<1>5. N \in S
  <2>1. \A n \in 0 .. N : n \in S
    BY <1>1, <1>3, <1>4, UpTo
  <2> QED
    BY <1>1, <2>1
<1>6. f[N] \in Seq(X)
  BY <1>1, <1>2
<1> QED
  BY <1>2, <1>5, <1>6 DEF S

Distinct(s) == \A i, j \in DOMAIN s : s[i] = s[j] => i = j

(* r is what s has in T up to position n, pos says where. *)
FilteredBy(r, s, T, n, pos) ==
    /\ pos \in [DOMAIN r -> {i \in 1 .. n : s[i] \in T}]
    /\ \A i, j \in DOMAIN r : i < j => pos[i] < pos[j]
    /\ \A m \in 1 .. n : s[m] \in T => \E i \in DOMAIN r : pos[i] = m
    /\ \A i \in DOMAIN r : r[i] = s[pos[i]]

LEMMA FilteredMore ==
    ASSUME NEW X, NEW r \in Seq(X), NEW s \in Seq(X), NEW T, NEW n \in DOMAIN s, s[n] \in T,
           NEW pos, FilteredBy(r, s, T, n - 1, pos)
    PROVE  \E q : FilteredBy(r \o <<s[n]>>, s, T, n, q)
<1> DEFINE k == r \o <<s[n]>>
           q == [i \in DOMAIN k |-> IF i \in DOMAIN r THEN pos[i] ELSE n]
<1>1. /\ DOMAIN r = 1 .. Len(r) /\ Len(r) \in Nat /\ n \in Nat
      /\ DOMAIN k = 1 .. Len(r) + 1
      /\ \A i \in DOMAIN r : k[i] = r[i]
      /\ k[Len(r) + 1] = s[n]
  OBVIOUS
<1> HIDE DEF k
<1>2. /\ pos \in [DOMAIN r -> {i \in 1 .. n - 1 : s[i] \in T}]
      /\ \A i, j \in DOMAIN r : i < j => pos[i] < pos[j]
      /\ \A m \in 1 .. n - 1 : s[m] \in T => \E i \in DOMAIN r : pos[i] = m
      /\ \A i \in DOMAIN r : r[i] = s[pos[i]]
  BY DEF FilteredBy
<1>3. DOMAIN k = DOMAIN r \union {Len(r) + 1} /\ Len(r) + 1 \notin DOMAIN r
  BY <1>1
<1>4. \A i \in DOMAIN r : q[i] = pos[i] /\ pos[i] \in 1 .. n - 1 /\ s[pos[i]] \in T
  BY <1>2, <1>3
<1>5. q[Len(r) + 1] = n /\ n \in 1 .. n
  BY <1>1, <1>3
<1>6. q = [i \in DOMAIN k |-> q[i]]
  OBVIOUS
<1> HIDE DEF q
<1>7. q \in [DOMAIN k -> {i \in 1 .. n : s[i] \in T}]
  <2>1. \A i \in DOMAIN k : q[i] \in 1 .. n /\ s[q[i]] \in T
    BY <1>1, <1>3, <1>4, <1>5
  <2> QED
    BY <1>6, <2>1
<1>8. \A i, j \in DOMAIN k : i < j => q[i] < q[j]
  <2> SUFFICES ASSUME NEW i \in DOMAIN k, NEW j \in DOMAIN k, i < j PROVE q[i] < q[j]
    OBVIOUS
  <2>1. i \in DOMAIN r /\ q[i] = pos[i] /\ pos[i] \in 1 .. n - 1
    BY <1>1, <1>3, <1>4
  <2>2. CASE j \in DOMAIN r
    BY <1>2, <1>4, <2>1, <2>2
  <2>3. CASE j \notin DOMAIN r
    BY <1>1, <1>3, <1>5, <2>1, <2>3
  <2> QED
    BY <2>2, <2>3
<1>9. \A m \in 1 .. n : s[m] \in T => \E i \in DOMAIN k : q[i] = m
  <2> SUFFICES ASSUME NEW m \in 1 .. n, s[m] \in T PROVE \E i \in DOMAIN k : q[i] = m
    OBVIOUS
  <2>1. CASE m \in 1 .. n - 1
    BY <1>2, <1>3, <1>4, <2>1
  <2>2. CASE m = n
    BY <1>3, <1>5, <2>2
  <2> QED
    BY <1>1, <2>1, <2>2
<1>10. \A i \in DOMAIN k : k[i] = s[q[i]]
  BY <1>1, <1>2, <1>3, <1>4, <1>5
<1> QED
  BY <1>7, <1>8, <1>9, <1>10, Zenon DEF FilteredBy, k

LEMMA FilteredPositions ==
    ASSUME NEW X, NEW s \in Seq(X), NEW T
    PROVE  /\ Filtered(s, T) \in Seq(X)
           /\ \E pos : FilteredBy(Filtered(s, T), s, T, Len(s), pos)
<1> DEFINE N == Len(s)
           ss == [i \in DOMAIN s |-> IF s[i] \in T THEN <<s[i]>> ELSE <<>>]
<1>1. /\ N \in Nat /\ DOMAIN s = 1 .. N /\ ss \in Seq(Seq(X)) /\ Len(ss) = N
      /\ \A i \in 1 .. N : s[i] \in X /\ ss[i] = IF s[i] \in T THEN <<s[i]>> ELSE <<>>
  <2>1. \A i \in DOMAIN s : ss[i] \in Seq(X)
    OBVIOUS
  <2>2. DOMAIN s = 1 .. N /\ N \in Nat /\ ss \in [1 .. N -> Seq(X)]
    BY <2>1
  <2>3. ss \in Seq(Seq(X)) /\ Len(ss) = N
    <3> HIDE DEF ss
    <3> QED
      BY <2>2
  <2> QED
    BY <2>2, <2>3
<1>2. Filtered(s, T) = FlattenSeq(ss)
  BY DEF Filtered
<1> HIDE DEF ss
<1>3. PICK f \in [0 .. N -> Seq(X)] :
          /\ f[0] = <<>>
          /\ \A i \in 1 .. N : f[i] = f[i - 1] \o ss[i]
          /\ FlattenSeq(ss) = f[N]
  <2>1. \E f \in [0 .. Len(ss) -> Seq(X)] :
           /\ f[0] = <<>>
           /\ \A i \in 1 .. Len(ss) : f[i] = f[i - 1] \o ss[i]
           /\ FlattenSeq(ss) = f[Len(ss)]
    BY <1>1, Flattening
  <2> QED
    BY <1>1, <2>1
<1> HIDE DEF N
<1> DEFINE S == {n \in 0 .. N : \E pos : FilteredBy(f[n], s, T, n, pos)}
<1>4. 0 \in S
  <2> DEFINE q == [i \in {} |-> i]
  <2>1. DOMAIN <<>> = {} /\ 1 .. 0 = {} /\ q \in [{} -> {}] /\ {i \in {} : s[i] \in T} = {}
    OBVIOUS
  <2> HIDE DEF q
  <2>2. FilteredBy(f[0], s, T, 0, q)
    BY <1>3, <2>1 DEF FilteredBy
  <2>3. 0 \in 0 .. N
    BY <1>1
  <2> QED
    BY <2>2, <2>3, Zenon
<1>5. ASSUME NEW n \in 1 .. N, n - 1 \in S PROVE n \in S
  <2>1. PICK pos : FilteredBy(f[n - 1], s, T, n - 1, pos)
    BY <1>5
  <2>0. n - 1 \in 0 .. N /\ n \in 0 .. N /\ n \in DOMAIN s
    BY <1>1
  <2>2. f[n - 1] \in Seq(X) /\ f[n] = f[n - 1] \o ss[n]
    BY <1>3, <2>0
  <2>3. \E q : FilteredBy(f[n], s, T, n, q)
    <3>1. CASE s[n] \in T
      <4>1. f[n] = f[n - 1] \o <<s[n]>>
        BY <1>1, <2>2, <3>1
      <4> QED
        BY <2>0, <2>1, <2>2, <3>1, <4>1, FilteredMore
    <3>2. CASE s[n] \notin T
      <4>1. f[n] = f[n - 1]
        <5>1. ss[n] = <<>>
          BY <1>1, <3>2
        <5>2. \A a \in Seq(X) : a \o <<>> = a
          OBVIOUS
        <5> QED
          BY <2>2, <5>1, <5>2
      <4>2. \A m \in 1 .. n : m # n => m \in 1 .. n - 1
        BY <1>1
      <4>3. \A m \in 1 .. n : s[m] \in T => m \in 1 .. n - 1
        BY <3>2, <4>2
      <4>4. \A m \in 1 .. n - 1 : m \in 1 .. n
        BY <1>1
      <4>5. {i \in 1 .. n : s[i] \in T} = {i \in 1 .. n - 1 : s[i] \in T}
        BY <4>3, <4>4
      <4> QED
        BY <2>1, <4>1, <4>3, <4>5 DEF FilteredBy
    <3> QED
      BY <3>1, <3>2
  <2> QED
    BY <2>0, <2>3, Zenon
<1> HIDE DEF S
<1>6. N \in S
  <2>1. \A n \in 0 .. N : n \in S
    BY <1>1, <1>4, <1>5, UpTo
  <2> QED
    BY <1>1, <2>1
<1>7. f[N] \in Seq(X)
  BY <1>1, <1>3
<1>8. \E pos : FilteredBy(f[N], s, T, N, pos)
  BY <1>6, Zenon DEF S
<1> QED
  BY <1>2, <1>3, <1>7, <1>8 DEF N

LEMMA FilteredKeeps ==
    ASSUME NEW X, NEW s \in Seq(X), NEW T
    PROVE  /\ Filtered(s, T) \in Seq(X)
           /\ ToSet(Filtered(s, T)) = ToSet(s) \intersect T
           /\ Distinct(s) => Distinct(Filtered(s, T))
<1> DEFINE r == Filtered(s, T)
<1>1. PICK pos : FilteredBy(r, s, T, Len(s), pos)
  BY FilteredPositions
<1>2. r \in Seq(X) /\ DOMAIN s = 1 .. Len(s) /\ DOMAIN r = 1 .. Len(r) /\ Len(r) \in Nat
  BY FilteredPositions
<1> HIDE DEF r
<1>3. /\ \A i \in DOMAIN r : pos[i] \in DOMAIN s /\ s[pos[i]] \in T
      /\ \A i, j \in DOMAIN r : i < j => pos[i] < pos[j]
      /\ \A m \in DOMAIN s : s[m] \in T => \E i \in DOMAIN r : pos[i] = m
      /\ \A i \in DOMAIN r : r[i] = s[pos[i]]
  BY <1>1, <1>2 DEF FilteredBy
<1>4. ToSet(r) = ToSet(s) \intersect T
  BY <1>3 DEF ToSet
<1>5. ASSUME Distinct(s), NEW i \in DOMAIN r, NEW j \in DOMAIN r, r[i] = r[j]
      PROVE  i = j
  <2>1. pos[i] = pos[j]
    BY <1>3, <1>5 DEF Distinct
  <2>2. ~(i < j) /\ ~(j < i)
    BY <1>2, <1>3, <2>1
  <2> QED
    BY <1>2, <2>2
<1> QED
  BY <1>2, <1>4, <1>5 DEF Distinct, r

(* What comes before an element does so after filtering, if it is left. *)
LEMMA FilteredInOrder ==
    ASSUME NEW X, NEW s \in Seq(X), NEW T, Distinct(s),
           NEW i \in DOMAIN Filtered(s, T), NEW d \in ToSet(Filtered(s, T)),
           NEW n \in DOMAIN s, s[n] = Filtered(s, T)[i], \E m \in 1 .. n - 1 : s[m] = d
    PROVE  d \in ToSet(SubSeq(Filtered(s, T), 1, i - 1))
<1> DEFINE r == Filtered(s, T)
<1>1. PICK pos : FilteredBy(r, s, T, Len(s), pos)
  BY FilteredPositions
<1>2. r \in Seq(X) /\ DOMAIN s = 1 .. Len(s) /\ DOMAIN r = 1 .. Len(r) /\ Len(r) \in Nat
  BY FilteredPositions
<1>3. d \in T
  BY FilteredKeeps
<1>4. i \in DOMAIN r /\ s[n] = r[i]
  OBVIOUS
<1> HIDE DEF r
<1>5. /\ \A x \in DOMAIN r : pos[x] \in DOMAIN s /\ s[pos[x]] \in T
      /\ \A x, y \in DOMAIN r : x < y => pos[x] < pos[y]
      /\ \A m \in DOMAIN s : s[m] \in T => \E x \in DOMAIN r : pos[x] = m
      /\ \A x \in DOMAIN r : r[x] = s[pos[x]]
  BY <1>1, <1>2 DEF FilteredBy
<1>6. pos[i] = n
  BY <1>4, <1>5 DEF Distinct
<1>7. PICK m \in 1 .. n - 1 : s[m] = d
  OBVIOUS
<1>8. m \in DOMAIN s /\ m < n
  BY <1>2
<1>9. PICK j \in DOMAIN r : pos[j] = m
  BY <1>3, <1>5, <1>7, <1>8
<1>10. r[j] = d /\ j < i
  <2>1. ~(i < j) /\ i # j
    BY <1>2, <1>4, <1>5, <1>6, <1>8, <1>9
  <2> QED
    BY <1>2, <1>4, <1>5, <1>7, <1>9, <2>1
<1>11. j \in DOMAIN SubSeq(r, 1, i - 1) /\ SubSeq(r, 1, i - 1)[j] = r[j]
  BY <1>2, <1>4, <1>10
<1> QED
  BY <1>10, <1>11 DEF ToSet, r

LEMMA Sorted ==
    ASSUME NEW S \in SUBSET Name, NEW l \in Alphabetical(S)
    PROVE  l \in Seq(Name) /\ ToSet(l) = S /\ Distinct(l)
<1>1. S \subseteq Nat /\ IsFiniteSet(S)
  BY RenderAssumption, FS_Subset
<1>2. Cardinality(S) \in Nat
  BY <1>1, FS_CardinalityType
<1> DEFINE n == Cardinality(S)
<1>3. l \in [1 .. n -> S] /\ \A i, j \in 1 .. n : i < j => l[i] < l[j]
  BY DEF Alphabetical
<1> HIDE DEF n
<1>4. l \in Seq(Name) /\ DOMAIN l = 1 .. n
  BY <1>2, <1>3 DEF n
<1>5. \A i, j \in 1 .. n : l[i] = l[j] => i = j
  <2> SUFFICES ASSUME NEW i \in 1 .. n, NEW j \in 1 .. n, l[i] = l[j] PROVE i = j
    OBVIOUS
  <2>1. l[i] \in Nat /\ l[j] \in Nat
    BY <1>1, <1>3
  <2>2. ~(i < j) /\ ~(j < i)
    BY <1>3, <2>1
  <2>3. i \in Nat /\ j \in Nat
    BY <1>2 DEF n
  <2> QED
    BY <2>2, <2>3
<1>6. l \in Injection(1 .. n, S)
  BY <1>3, <1>5 DEF Injection, IsInjective
<1>7. IsFiniteSet(1 .. n) /\ Cardinality(1 .. n) = n
  BY <1>2, FS_Interval DEF n
<1>8. l \in Surjection(1 .. n, S)
  BY <1>1, <1>6, <1>7, FS_Injection DEF n
<1> QED
  BY <1>3, <1>4, <1>5, <1>8 DEF Surjection, ToSet, Distinct

(* Names in a sequence without repetitions are as many as its length. *)
LEMMA AsManyAsLong ==
    ASSUME NEW X, NEW s \in Seq(X), Distinct(s)
    PROVE  Cardinality(ToSet(s)) = Len(s)
<1>1. /\ DOMAIN s = 1 .. Len(s) /\ Len(s) \in Nat
      /\ s \in [1 .. Len(s) -> ToSet(s)]
  BY DEF ToSet
<1>2. s \in Injection(1 .. Len(s), ToSet(s)) /\ s \in Surjection(1 .. Len(s), ToSet(s))
  BY <1>1 DEF Injection, IsInjective, Surjection, Distinct, ToSet
<1>3. IsFiniteSet(1 .. Len(s)) /\ Cardinality(1 .. Len(s)) = Len(s)
  BY <1>1, FS_Interval
<1> QED
  BY <1>2, <1>3, FS_Surjection

-----------------------------------------------------------------------------
(* Tables, and the packages of them that are listed. *)

(* A table as it is read differs from what has been locked at most by its    *)
(* virtual packages.                                                         *)
SameTable(a, t) ==
    /\ DOMAIN a = Name
    /\ \A n \in Name : a[n] # None =>
        t[n] # None /\ a[n].deps = t[n].deps /\ a[n].categories = t[n].categories
    /\ \A n \in Name \ Virtual : t[n] # None => a[n] # None

LEMMA ReadAsLocked ==
    ASSUME NEW t, IsTable(t)
    PROVE  SameTable(t, t) /\ SameTable(Collected(Entries(t)), t)
<1> DEFINE E == Entries(t)  a == Collected(E)
           Own(n) == {e \in E : e.name = n}
           Of(n) == {[name |-> n, deps |-> t[n].deps, category |-> k] : k \in t[n].categories}
<1>1. SameTable(t, t)
  BY DEF IsTable, SameTable
<1>2. E = UNION {Of(n) : n \in {n \in Name \ Virtual : t[n] # None}}
  BY DEF Entries
<1>3. ASSUME NEW n \in Name
      PROVE  Own(n) = IF n \notin Virtual /\ t[n] # None THEN Of(n) ELSE {}
  <2>1. \A m : \A e \in Of(m) : e.name = m
    OBVIOUS
  <2> HIDE DEF Of
  <2> QED
    BY <1>2, <2>1
<1>4. /\ DOMAIN a = Name
      /\ \A n \in Name :
          a[n] = IF Own(n) = {} THEN None
                 ELSE [deps |-> (CHOOSE e \in Own(n) : TRUE).deps,
                       categories |-> {e.category : e \in Own(n)}]
  BY DEF Collected
<1> HIDE DEF a, E
<1>5. ASSUME NEW n \in Name \ Virtual, t[n] # None
      PROVE  a[n] = [deps |-> t[n].deps, categories |-> t[n].categories]
  <2>1. Own(n) = Of(n)
    BY <1>3, <1>5
  <2>2. t[n].categories # {}
    BY <1>5 DEF IsTable
  <2>3. Of(n) # {} /\ \A e \in Of(n) : e.deps = t[n].deps
    <3>1. PICK k : k \in t[n].categories
      BY <2>2
    <3>2. [name |-> n, deps |-> t[n].deps, category |-> k] \in Of(n)
      BY <3>1
    <3>3. \A e \in Of(n) : e.deps = t[n].deps
      OBVIOUS
    <3> HIDE DEF Of
    <3> QED
      BY <3>2, <3>3
  <2>4. {e.category : e \in Of(n)} = t[n].categories
    <3>1. \A k : [name |-> n, deps |-> t[n].deps, category |-> k].category = k
      OBVIOUS
    <3>2. \A k \in t[n].categories : \E e \in Of(n) : e.category = k
      BY <3>1
    <3>3. \A e \in Of(n) : e.category \in t[n].categories
      BY <3>1
    <3> HIDE DEF Of
    <3> QED
      BY <3>2, <3>3
  <2>5. (CHOOSE e \in Own(n) : TRUE) \in Own(n)
    BY <2>1, <2>3
  <2> HIDE DEF Own, Of
  <2> QED
    BY <1>4, <2>1, <2>3, <2>4, <2>5
<1>6. ASSUME NEW n \in Name \ Virtual, t[n] # None PROVE a[n] # None
  <2>1. t[n].deps \subseteq Name /\ t[n].categories \subseteq Category
    BY <1>6, RenderAssumption DEF IsTable
  <2>2. [deps |-> t[n].deps, categories |-> t[n].categories]
            \in [deps : SUBSET Name, categories : SUBSET Category]
    BY <2>1
  <2> QED
    BY <1>5, <1>6, <2>2, RenderAssumption
<1>7. ASSUME NEW n \in Name, n \in Virtual \/ t[n] = None PROVE a[n] = None
  BY <1>3, <1>4, <1>7
<1>8. SameTable(a, t)
  BY <1>4, <1>5, <1>6, <1>7 DEF SameTable
<1> QED
  BY <1>1, <1>8 DEF a, E

ListedIn(t, for, m) ==
    {n \in Name \ Virtual :
        /\ t[n] # None
        /\ (m = "pip") <=> (n \in PipName)
        /\ t[n].categories \intersect for # {}}

(* The lines of a manager: each package that is listed, once. *)
GoodLines(t, for, m, l) ==
    l \in Seq(Name) /\ ToSet(l) = ListedIn(t, for, m) /\ Distinct(l)

(* ExplicitInOrder of the lines of a manager. *)
InGoodOrder(t, m, l) ==
    LET graph == Sorting!Needs(LookupOf(t, m))
    IN  \A i \in DOMAIN l : \A d \in graph[l[i]] \ Sorting!Tangled(graph) :
            d \in ToSet(l) => d \in ToSet(SubSeq(l, 1, i - 1))

LEMMA ListedAsLocked ==
    ASSUME NEW a, NEW t, SameTable(a, t), NEW c, NEW m
    PROVE  Listed(c, a, m) = ListedIn(t, CategoriesToInstall(c), m)
BY DEF Listed, ListedIn, SameTable

LEMMA LookupIsLookup ==
    ASSUME NEW a, NEW t, SameTable(a, t), IsTable(t), NEW m
    PROVE  Ordering!IsLookup(LookupOf(a, m))
<1> DEFINE D == {n \in Name : a[n] # None /\ ((m = "pip") <=> (n \in PipName))}
           l == LookupOf(a, m)
<1>1. l = [n \in D |-> a[n].deps]
  BY DEF LookupOf
<1>2. \A n \in D : a[n].deps \subseteq Name
  BY RenderAssumption DEF SameTable, IsTable
<1> HIDE DEF D, l
<1>3. DOMAIN l = D /\ l = [k \in DOMAIN l |-> l[k]] /\ \A k \in D : l[k] \subseteq Name
  BY <1>1, <1>2
<1>4. D \subseteq Name
  BY DEF D
<1> QED
  BY <1>3, <1>4 DEF Ordering!IsLookup, l

(* Once sorted, the lines of a manager are good, and in order with respect   *)
(* to the dependencies of the table that was locked.                         *)
LEMMA SortedLines ==
    ASSUME NEW a, NEW t, SameTable(a, t), IsTable(t), NEW c, NEW m,
           Ordering!Inv, Sorting!Done, lookup = LookupOf(a, m)
    PROVE  LET l == Filtered(out, Listed(c, a, m))
           IN  GoodLines(t, CategoriesToInstall(c), m, l) /\ InGoodOrder(t, m, l)
<1> DEFINE T == Listed(c, a, m)  l == Filtered(out, T)
           part == Ordering!Needs(lookup)
           graph == Sorting!Needs(LookupOf(t, m))
<1>1. /\ out \in Seq(Name) /\ Distinct(out)
      /\ data = [k \in DOMAIN Ordering!Graph \ Ordering!Yielded |-> Ordering!Graph[k] \ Ordering!Yielded]
      /\ Ordering!DependenciesFirst /\ Ordering!IsLookup(lookup)
  BY DEF Ordering!Inv, Ordering!YieldedOnce, Distinct
<1>2. l \in Seq(Name) /\ ToSet(l) = ToSet(out) \intersect T /\ Distinct(l)
  BY <1>1, FilteredKeeps
(* Every package of the manager has been yielded. *)
<1>3. T \subseteq DOMAIN lookup
  BY DEF Listed, LookupOf
<1>4. DOMAIN lookup \subseteq ToSet(out)
  <2>1. DOMAIN lookup \subseteq DOMAIN Ordering!Graph
    BY <1>1, Ordering!GraphOfLookup DEF Ordering!Graph
  <2>2. DOMAIN Ordering!Graph \subseteq Ordering!Yielded
    BY <1>1 DEF Sorting!Done
  <2>3. Ordering!Yielded = ToSet(out)
    BY DEF Ordering!Yielded, ToSet
  <2> QED
    BY <2>1, <2>2, <2>3
<1>5. ToSet(l) = T
  BY <1>2, <1>3, <1>4
<1>6. T = ListedIn(t, CategoriesToInstall(c), m)
  BY ListedAsLocked
<1>7. GoodLines(t, CategoriesToInstall(c), m, l)
  BY <1>2, <1>5, <1>6 DEF GoodLines
(* The graph that was sorted is part of that of the whole table. *)
<1>8. /\ DOMAIN part = DOMAIN lookup
      /\ \A k \in DOMAIN lookup : k \in DOMAIN graph /\ graph[k] = part[k]
  <2>1. \A k \in DOMAIN lookup : k \in DOMAIN LookupOf(t, m) /\ LookupOf(t, m)[k] = lookup[k]
    BY DEF LookupOf, SameTable
  <2> HIDE DEF Sorting!Done
  <2> QED
    BY <2>1 DEF Ordering!Needs, Sorting!Needs
<1>9. Ordering!Tangled(part) \subseteq Sorting!Tangled(graph)
  BY <1>8 DEF Ordering!Tangled, Sorting!Tangled, Ordering!Tangle, Sorting!Tangle
<1>10. InGoodOrder(t, m, l)
  <2> SUFFICES ASSUME NEW i \in DOMAIN l, NEW d \in graph[l[i]] \ Sorting!Tangled(graph),
                      d \in ToSet(l)
               PROVE  d \in ToSet(SubSeq(l, 1, i - 1))
    BY DEF InGoodOrder
  <2>1. l[i] \in ToSet(l) /\ l[i] \in DOMAIN lookup
    BY <1>3, <1>5 DEF ToSet
  <2>2. PICK n \in DOMAIN out : out[n] = l[i]
    BY <1>4, <2>1 DEF ToSet
  <2>3. d \in part[out[n]] \ Ordering!Tangled(part) /\ out[n] \in DOMAIN part
    BY <1>8, <1>9, <2>1, <2>2
  <2>4. \E x \in 1 .. n - 1 : out[x] = d
    BY <1>1, <2>2, <2>3 DEF Ordering!DependenciesFirst
  <2> HIDE DEF T
  <2> QED
    BY <1>1, <2>2, <2>4, FilteredInOrder
<1> QED
  BY <1>7, <1>10

-----------------------------------------------------------------------------
(* The calls. *)

LockInv == lock \in [Platform -> [rev : 1 .. MaxRev, hash : Hash, table : Tables]]

CallRecord ==
    [pc : Steps \ {"idle"}, args : Calls, content : {InMemory, Read},
     todo : Seq(Platform \X Kind), file : (Platform \X Kind) \union {<<>>},
     sorting : Manager \union {None}, lines : [Manager -> Seq(Name)]]

CallInv ==
    \/ call = [pc |-> "idle"]
    \/ call \in CallRecord

Rendering == call.pc \in {"sort", "open", "write"}

(* What RenderedIsCurrent says of one turn. *)
Settled(t) ==
    IF ~call.args.check THEN Current(call.args, t[1], t[2])
    ELSE t[2] = "explicit" =>
        LET f == FileName(call.args, t[1], t[2])
        IN  f \in DOMAIN files /\ files[f].hash = lock[t[1]].hash

(* A turn is to come, is the one being rendered, or is settled.              *)
TurnsInv ==
    call.pc \notin {"idle", "exit"} =>
        /\ ~Refused(call.args)
        /\ ToSet(call.todo) \subseteq Requested
        /\ call.pc = "done" => call.todo = <<>>
        /\ Rendering => call.file \in Requested
        /\ call.pc = "write" =>
              FileName(call.args, call.file[1], call.file[2]) \in DOMAIN files
        /\ \A t \in Requested :
              t \in ToSet(call.todo) \/ (Rendering /\ t = call.file) \/ Settled(t)

(* The lines of a manager in a file of kind k of a table. *)
Fits(t, k, for, m, l) ==
    /\ GoodLines(t, for, m, l)
    /\ k = "explicit" => InGoodOrder(t, m, l)

(* What is being sorted, and what has been.                                  *)
LinesInv ==
    /\ call.pc = "sort" =>
        /\ call.sorting \in Manager /\ call.file[2] = "explicit"
        /\ Ordering!Inv
        /\ lookup = LookupOf(call.content[call.file[1]], call.sorting)
        /\ call.sorting = "pip" =>
              Fits(lock[call.file[1]].table, "explicit", CategoriesToInstall(call.args),
                   "conda", call.lines["conda"])
    /\ call.pc \in {"open", "write"} =>
        \A m \in Manager :
            Fits(lock[call.file[1]].table, call.file[2], CategoriesToInstall(call.args),
                 m, call.lines[m])
    /\ call.pc # "sort" => DOMAIN data = {} /\ out = <<>>

(* A file that is whole is of a platform, and is right for it.               *)
FilesInv ==
    \A f \in DOMAIN files :
        /\ f.platform \in Platform \union {None} /\ f.yml \in {0, 1}
        /\ files[f].hash \in Hash \union {None}
        /\ files[f].whole =>
            /\ files[f].platform \in Platform /\ "main" \in files[f].for
            /\ files[f].kind = "env" <=> f.yml = 1
            /\ \A m \in Manager :
                Fits(lock[files[f].platform].table, files[f].kind, files[f].for, m,
                     files[f].lines[m])

CountInv == calls \in 0 .. MaxCalls

Inv == LockInv /\ CallInv /\ TurnsInv /\ LinesInv /\ FilesInv /\ CountInv

LEMMA TurnsAreTurns ==
    ASSUME NEW c \in Calls
    PROVE  /\ Turns(c) \in Seq(Platform \X Kind)
           /\ Len(PlatformsOf(c)) <= 1 =>
                  \A t, u \in ToSet(Turns(c)) : t[1] = u[1]
<1> DEFINE P == PlatformsOf(c)
           ss == [i \in DOMAIN P |-> [j \in DOMAIN c.kinds |-> <<P[i], c.kinds[j]>>]]
<1>1. P \in Seq(Platform)
  BY FilteredKeeps, RenderAssumption DEF PlatformsOf
<1>2. c.kinds \in Seq(Kind)
  BY RenderAssumption DEF IsCall
<1>3. Turns(c) = FlattenSeq(ss)
  BY DEF Turns
<1> HIDE DEF P
<1>4. ASSUME NEW i \in DOMAIN P PROVE ss[i] \in Seq(Platform \X Kind)
  <2> DEFINE k == c.kinds
  <2>1. /\ DOMAIN k = 1 .. Len(k) /\ Len(k) \in Nat /\ P[i] \in Platform
        /\ \A j \in DOMAIN k : k[j] \in Kind
    BY <1>1, <1>2
  <2> HIDE DEF k
  <2>2. [j \in DOMAIN k |-> <<P[i], k[j]>>] \in [1 .. Len(k) -> Platform \X Kind]
    BY <2>1
  <2>3. [j \in DOMAIN k |-> <<P[i], k[j]>>] \in Seq(Platform \X Kind)
    BY <2>1, <2>2
  <2> QED
    BY <2>3 DEF k
<1>5. ss \in Seq(Seq(Platform \X Kind)) /\ DOMAIN ss = DOMAIN P
  <2>1. DOMAIN P = 1 .. Len(P) /\ Len(P) \in Nat
    BY <1>1
  <2>2. ss = [i \in 1 .. Len(P) |-> ss[i]]
    BY <2>1
  <2> HIDE DEF ss
  <2> QED
    BY <1>4, <2>1, <2>2
<1>6. \A i \in DOMAIN P : \A t \in ToSet(ss[i]) : t[1] = P[i]
  <2> SUFFICES ASSUME NEW i \in DOMAIN P, NEW t \in ToSet(ss[i]) PROVE t[1] = P[i]
    OBVIOUS
  <2> DEFINE k == c.kinds
  <2>1. ss[i] = [j \in DOMAIN k |-> <<P[i], k[j]>>]
    OBVIOUS
  <2> HIDE DEF k, ss
  <2>2. PICK j \in DOMAIN k : t = ss[i][j]
    BY <2>1 DEF ToSet
  <2> QED
    BY <2>1, <2>2
<1> HIDE DEF ss
<1>7. /\ FlattenSeq(ss) \in Seq(Platform \X Kind)
      /\ \A t \in ToSet(FlattenSeq(ss)) : \E i \in DOMAIN P : t \in ToSet(ss[i])
  BY <1>5, Flattened
<1>8. \A t \in ToSet(Turns(c)) : \E i \in DOMAIN P : t[1] = P[i]
  BY <1>3, <1>6, <1>7
<1>9. ASSUME Len(P) <= 1 PROVE \A i, j \in DOMAIN P : i = j
  BY <1>1, <1>9
<1> QED
  BY <1>3, <1>7, <1>8, <1>9 DEF P

(* The check of the template, and KIND_FILE_EXT: one name, one turn. *)
LEMMA NamesApart ==
    ASSUME NEW c \in Calls, ~Refused(c),
           NEW t \in ToSet(Turns(c)), NEW u \in ToSet(Turns(c)),
           FileName(c, t[1], t[2]) = FileName(c, u[1], u[2])
    PROVE  t = u
<1>1. t \in Platform \X Kind /\ u \in Platform \X Kind
  BY TurnsAreTurns DEF ToSet
<1>2. Len(PlatformsOf(c)) \in Nat
  BY FilteredKeeps, RenderAssumption DEF PlatformsOf
<1>3. ASSUME NEW x, NEW k
      PROVE  /\ FileName(c, x, k).yml = IF k = "env" THEN 1 ELSE 0
             /\ FileName(c, x, k).platform = IF "platform" \in c.template THEN x ELSE None
  BY DEF FileName, BaseName, Refused
<1> DEFINE f == FileName(c, t[1], t[2])
<1>4. /\ f.yml = IF t[2] = "env" THEN 1 ELSE 0
      /\ f.platform = IF "platform" \in c.template THEN t[1] ELSE None
  BY <1>3
<1>5. /\ f.yml = IF u[2] = "env" THEN 1 ELSE 0
      /\ f.platform = IF "platform" \in c.template THEN u[1] ELSE None
  <2> DEFINE g == FileName(c, u[1], u[2])
  <2>1. f = g
    OBVIOUS
  <2>2. /\ g.yml = IF u[2] = "env" THEN 1 ELSE 0
        /\ g.platform = IF "platform" \in c.template THEN u[1] ELSE None
    BY <1>3
  <2> HIDE DEF f, g
  <2> QED
    BY <2>1, <2>2
<1> HIDE DEF f
<1>6. t[2] = u[2]
  <2>1. t[2] \in {"explicit", "env"} /\ u[2] \in {"explicit", "env"}
    BY <1>1 DEF Kind
  <2> QED
    BY <1>4, <1>5, <2>1
<1>7. t[1] = u[1]
  <2>1. CASE "platform" \in c.template
    BY <1>4, <1>5, <2>1
  <2>2. CASE "platform" \notin c.template
    BY <1>2, <2>2, TurnsAreTurns DEF Refused
  <2> QED
    BY <2>1, <2>2
<1> QED
  BY <1>1, <1>6, <1>7

(* Turns of a call that has begun. *)
LEMMA TurnsOfCall ==
    ASSUME CallInv, TurnsInv, call.pc \notin {"idle", "exit"}
    PROVE  /\ call.args \in Calls /\ call.todo \in Seq(Platform \X Kind)
           /\ Requested \subseteq Platform \X Kind
           /\ Rendering => call.file \in Platform \X Kind
           /\ call.todo # <<>> =>
                /\ Tail(call.todo) \in Seq(Platform \X Kind)
                /\ ToSet(call.todo) = {Head(call.todo)} \union ToSet(Tail(call.todo))
<1>1. call.args \in Calls /\ call.todo \in Seq(Platform \X Kind)
  BY DEF CallInv, CallRecord
<1>2. Requested \subseteq Platform \X Kind
  <2>1. Turns(call.args) \in Seq(Platform \X Kind)
    BY <1>1, TurnsAreTurns
  <2> QED
    BY <2>1 DEF Requested, ToSet
<1>3. Rendering => call.file \in Platform \X Kind
  BY <1>2 DEF TurnsInv
<1>4. ASSUME call.todo # <<>>
      PROVE  /\ Tail(call.todo) \in Seq(Platform \X Kind)
             /\ ToSet(call.todo) = {Head(call.todo)} \union ToSet(Tail(call.todo))
  <2> DEFINE s == call.todo  k == Tail(s)
  <2>1. /\ k \in Seq(Platform \X Kind) /\ Len(s) \in Nat /\ Len(s) >= 1
        /\ DOMAIN s = 1 .. Len(s) /\ DOMAIN k = 1 .. Len(s) - 1
        /\ \A i \in DOMAIN k : k[i] = s[i + 1]
        /\ Head(s) = s[1]
    BY <1>1, <1>4
  <2> HIDE DEF s, k
  <2>2. \A i \in DOMAIN s : i = 1 \/ (i - 1 \in DOMAIN k /\ k[i - 1] = s[i])
    BY <2>1
  <2>3. 1 \in DOMAIN s /\ \A i \in DOMAIN k : i + 1 \in DOMAIN s
    BY <2>1
  <2>4. ToSet(s) = {Head(s)} \union ToSet(k)
    BY <2>1, <2>2, <2>3 DEF ToSet
  <2> QED
    BY <2>1, <2>4 DEF s, k
<1> QED
  BY <1>1, <1>2, <1>3, <1>4

LEMMA ContentAsLocked ==
    ASSUME LockInv, CallInv, call.pc # "idle", NEW p \in Platform
    PROVE  IsTable(lock[p].table) /\ SameTable(call.content[p], lock[p].table)
<1>1. IsTable(lock[p].table)
  BY RenderAssumption DEF LockInv
<1>2. call.content \in {InMemory, Read}
  BY DEF CallInv, CallRecord
<1> QED
  BY <1>1, <1>2, ReadAsLocked DEF InMemory, Read

(* Tables are never locked anew. *)
LEMMA LockKept ==
    ASSUME LockInv, [Next]_vars
    PROVE  LockInv' /\ \A p \in Platform : lock'[p].table = lock[p].table
<1>1. CASE UNCHANGED lock
  BY <1>1 DEF LockInv
<1>2. CASE Relock
  <2>1. PICK p \in Platform, h \in Hash :
            /\ lock[p].rev < MaxRev
            /\ lock' = [lock EXCEPT ![p].rev = @ + 1, ![p].hash = h]
    BY <1>2 DEF Relock
  <2>2. lock[p] \in [rev : 1 .. MaxRev, hash : Hash, table : Tables]
    BY DEF LockInv
  <2>3. lock' = [lock EXCEPT ![p] = [lock[p] EXCEPT !.rev = lock[p].rev + 1, !.hash = h]]
    BY <2>1
  <2>4. lock[p].rev + 1 \in 1 .. MaxRev
    BY <2>1, <2>2, RenderAssumption
  <2> DEFINE new == [lock[p] EXCEPT !.rev = lock[p].rev + 1, !.hash = h]
  <2>5. new \in [rev : 1 .. MaxRev, hash : Hash, table : Tables] /\ new.table = lock[p].table
    BY <2>2, <2>4
  <2>6. lock' = [lock EXCEPT ![p] = new]
    BY <2>3
  <2> HIDE DEF new
  <2> QED
    BY <2>5, <2>6 DEF LockInv
<1> QED
  BY <1>1, <1>2 DEF Next, StartCall, Kill, Step, SkipFile, RenderEnv, RenderExplicit,
     SortStep, SortDone, Open, Write, EndCall, vars

LEMMA CallKept ==
    ASSUME LockInv, CallInv, TurnsInv, LinesInv, [Next]_vars
    PROVE  CallInv'
<1>1. ASSUME lock' = lock PROVE CallRecord' = CallRecord
  BY <1>1 DEF CallRecord, InMemory, Read
<1>2. ASSUME lock' = lock, call' \in CallRecord PROVE CallInv'
  BY <1>1, <1>2 DEF CallInv
<1>3. call.pc # "idle" => call \in CallRecord
  BY DEF CallInv
<1>4. CASE UNCHANGED vars
  BY <1>1, <1>4 DEF vars, CallInv
<1>5. CASE Relock \/ Kill
  BY <1>5 DEF Relock, Kill, CallInv
<1>6. CASE StartCall
  <2>1. PICK c \in Calls, content \in {InMemory, Read} :
          call' = [ pc   |-> IF Refused(c) THEN "exit" ELSE "files",
                    args |-> c, content |-> content, todo |-> Turns(c), file |-> <<>>,
                    sorting |-> None, lines |-> [m \in Manager |-> <<>>] ]
    BY <1>6 DEF StartCall
  <2>2. Turns(c) \in Seq(Platform \X Kind) /\ <<>> \in Seq(Name)
    BY TurnsAreTurns
  <2>3. call' \in CallRecord /\ lock' = lock
    BY <1>6, <2>1, <2>2 DEF StartCall, Steps, CallRecord
  <2> QED
    BY <1>2, <2>3
<1>7. CASE SkipFile
  <2>1. call \in CallRecord /\ call.todo # <<>> /\ call' = [call EXCEPT !.todo = Tail(call.todo)] /\ lock' = lock
    BY <1>3, <1>7 DEF SkipFile, InTurn
  <2>2. Tail(call.todo) \in Seq(Platform \X Kind)
    BY <2>1 DEF CallRecord
  <2>3. call' \in CallRecord
    BY <2>1, <2>2 DEF CallRecord
  <2> QED
    BY <1>2, <2>1, <2>3
<1>8. CASE RenderEnv
  <2>1. PICK p \in Platform :
          \E conda \in Alphabetical(Listed(call.args, call.content[p], "conda")),
             pip \in Alphabetical(Listed(call.args, call.content[p], "pip")) :
          call' = [call EXCEPT !.todo = Tail(call.todo), !.file = <<p, "env">>, !.pc = "open",
                               !.lines = [conda |-> conda, pip |-> pip]]
    BY <1>8 DEF RenderEnv
  <2>a. PICK conda \in Alphabetical(Listed(call.args, call.content[p], "conda")) :
          \E pip \in Alphabetical(Listed(call.args, call.content[p], "pip")) :
          call' = [call EXCEPT !.todo = Tail(call.todo), !.file = <<p, "env">>, !.pc = "open",
                               !.lines = [conda |-> conda, pip |-> pip]]
    BY <2>1
  <2>b. PICK pip \in Alphabetical(Listed(call.args, call.content[p], "pip")) :
          call' = [call EXCEPT !.todo = Tail(call.todo), !.file = <<p, "env">>, !.pc = "open",
                               !.lines = [conda |-> conda, pip |-> pip]]
    BY <2>a
  <2>2. call \in CallRecord /\ call.todo # <<>> /\ lock' = lock
    BY <1>3, <1>8 DEF RenderEnv, InTurn
  <2>3. Tail(call.todo) \in Seq(Platform \X Kind) /\ <<p, "env">> \in Platform \X Kind
    BY <2>2 DEF Kind, CallRecord
  <2>4. conda \in Seq(Name) /\ pip \in Seq(Name)
    BY Sorted DEF Listed
  <2>5. [conda |-> conda, pip |-> pip] \in [Manager -> Seq(Name)]
    BY <2>4 DEF Manager
  <2>6. call' \in CallRecord
    BY <2>b, <2>2, <2>3, <2>5 DEF Steps, CallRecord
  <2> QED
    BY <1>2, <2>2, <2>6
<1>9. CASE RenderExplicit
  <2>1. PICK p \in Platform :
          call' = [call EXCEPT !.todo = Tail(call.todo), !.file = <<p, "explicit">>, !.pc = "sort",
                        !.lines = [m \in Manager |-> <<>>], !.sorting = "conda"]
    BY <1>9 DEF RenderExplicit
  <2>2. call \in CallRecord /\ call.todo # <<>> /\ lock' = lock
    BY <1>3, <1>9 DEF RenderExplicit, InTurn
  <2>3. Tail(call.todo) \in Seq(Platform \X Kind) /\ <<p, "explicit">> \in Platform \X Kind
    BY <2>2 DEF Kind, CallRecord
  <2>4. [m \in Manager |-> <<>>] \in [Manager -> Seq(Name)] /\ "conda" \in Manager
    BY DEF Manager
  <2>5. call' \in CallRecord
    BY <2>1, <2>2, <2>3, <2>4 DEF Steps, CallRecord
  <2> QED
    BY <1>2, <2>2, <2>5
<1>10. CASE SortStep
  BY <1>2, <1>3, <1>10 DEF SortStep
<1>11. CASE SortDone
  <2> DEFINE m == call.sorting
             l == Filtered(out, Listed(call.args, call.content[call.file[1]], m))
  <2>1. call \in CallRecord /\ lock' = lock /\ m \in Manager /\ out \in Seq(Name)
    BY <1>3, <1>11 DEF SortDone, LinesInv, Ordering!Inv
  <2>2. l \in Seq(Name)
    BY <2>1, FilteredKeeps
  <2>3. \/ call' = [call EXCEPT !.lines[m] = l, !.sorting = "pip"]
        \/ call' = [call EXCEPT !.lines[m] = l, !.sorting = None, !.pc = "open"]
    BY <1>11 DEF SortDone
  <2> HIDE DEF l
  <2>4. [call.lines EXCEPT ![m] = l] \in [Manager -> Seq(Name)] /\ "pip" \in Manager
    BY <2>1, <2>2 DEF Manager, CallRecord
  <2>5. call' \in CallRecord
    BY <2>1, <2>3, <2>4 DEF Steps, CallRecord
  <2> QED
    BY <1>2, <2>1, <2>5
<1>12. CASE Open
  BY <1>2, <1>3, <1>12 DEF Open, Steps, CallRecord
<1>13. CASE Write
  BY <1>2, <1>3, <1>13 DEF Write, Steps, CallRecord
<1>14. CASE EndCall
  BY <1>2, <1>3, <1>14 DEF EndCall, Steps, CallRecord
<1> QED
  BY <1>4, <1>5, <1>6, <1>7, <1>8, <1>9, <1>10, <1>11, <1>12, <1>13, <1>14 DEF Next, Step
-----------------------------------------------------------------------------
(* The sort of a call is the sort of Toposort. *)

LEMMA SortingIsOrdering ==
    ASSUME Sorting!Next
    PROVE  Ordering!Next
<1>1. Sorting!Free = Ordering!Free
  BY DEF Sorting!Free, Ordering!Free
<1>2. ASSUME NEW i PROVE Sorting!Remove(i) <=> Ordering!Remove(i)
  BY DEF Sorting!Remove, Ordering!Remove
<1>3. Sorting!Stuck <=> Ordering!Stuck
  BY <1>1 DEF Sorting!Stuck, Ordering!Stuck
<1>4. ASSUME NEW i, NEW j PROVE Sorting!PoppedBefore(i, j) <=> Ordering!PoppedBefore(i, j)
  BY Zenon DEF Sorting!PoppedBefore, Ordering!PoppedBefore, Sorting!Cardinality, Ordering!Cardinality
<1>5. Sorting!NextRound => Ordering!NextRound
  BY <1>1 DEF Sorting!NextRound, Ordering!NextRound
<1>6. Sorting!Yield => Ordering!Yield
  BY <1>2 DEF Sorting!Yield, Ordering!Yield
<1>7. Sorting!PopKey => Ordering!PopKey
  BY <1>2, <1>3, <1>4, Zenon DEF Sorting!PopKey, Ordering!PopKey
<1> QED
  BY <1>5, <1>6, <1>7 DEF Sorting!Next, Ordering!Next

LEMMA SortKept == ASSUME Ordering!Inv, Sorting!Next PROVE Ordering!Inv'
BY SortingIsOrdering, Ordering!NextInv

LEMMA SortSame == ASSUME Ordering!Inv, UNCHANGED sort PROVE Ordering!Inv'
<1>1. [Ordering!Next]_Ordering!vars
  BY DEF sort, Ordering!vars
<1> QED
  BY <1>1, Ordering!NextInv

LEMMA SortBegun ==
    ASSUME NEW l, Ordering!IsLookup(l), Sorting!Begin(l)
    PROVE  Ordering!Inv' /\ lookup' = l
<1>1. Sorting!Initial(l) = Ordering!Initial(l)
  BY DEF Sorting!Initial, Ordering!Initial, Sorting!Prepared, Ordering!Prepared,
     Sorting!WithoutPip, Ordering!WithoutPip, Sorting!Occurring, Ordering!Occurring
<1>2. Ordering!Begin(l)
  BY <1>1 DEF Sorting!Begin, Ordering!Begin
<1> QED
  BY <1>2, Ordering!BeginInv DEF Sorting!Begin

LEMMA SortTyped ==
    ASSUME Ordering!Inv
    PROVE  Sorting!TypeOK
<1>1. Ordering!TypeOK
  BY Ordering!InvTypeOK
<1>2. \A l : /\ Sorting!IsLookup(l) <=> Ordering!IsLookup(l)
             /\ Sorting!Occurring(l) = Ordering!Occurring(l)
             /\ Sorting!Needs(l) = Ordering!Needs(l)
  BY DEF Sorting!IsLookup, Ordering!IsLookup, Sorting!Occurring, Ordering!Occurring,
     Sorting!Needs, Ordering!Needs
<1>3. Sorting!Free = Ordering!Free /\ Sorting!Yielded = Ordering!Yielded
  BY DEF Sorting!Free, Ordering!Free, Sorting!Yielded, Ordering!Yielded
<1> QED
  BY <1>1, <1>2, <1>3 DEF Sorting!TypeOK, Ordering!TypeOK
-----------------------------------------------------------------------------
(* The turns of a call. *)

LEMMA StaysSettled ==
    ASSUME UNCHANGED lock, call'.args = call.args, NEW t, Settled(t),
           LET f == FileName(call.args, t[1], t[2])
           IN  f \in DOMAIN files => f \in DOMAIN files' /\ files'[f] = files[f]
    PROVE  Settled(t)'
<1> DEFINE f == FileName(call.args, t[1], t[2])
<1>1. f' = f
  BY DEF FileName, BaseName
<1> QED
  BY <1>1 DEF Settled, Current, CategoriesToInstall

LEMMA SkipSettles ==
    ASSUME NEW p, NEW k \in Kind, Skipped(p)
    PROVE  Settled(<<p, k>>)
<1> DEFINE b == BaseName(call.args, p)
<1>1. call.args.check /\ b \in DOMAIN files /\ files[b].hash = lock[p].hash
  BY DEF Skipped
<1>2. FileName(call.args, p, "explicit") = b
  <2>1. "yml" \in DOMAIN b /\ b = [x \in DOMAIN b |-> b[x]]
    BY DEF BaseName
  <2>2. FileName(call.args, p, "explicit") = [b EXCEPT !.yml = b["yml"]]
    BY DEF FileName
  <2> HIDE DEF b
  <2>3. [b EXCEPT !.yml = b["yml"]] = b
    BY <2>1
  <2> QED
    BY <2>2, <2>3
<1> QED
  BY <1>1, <1>2 DEF Settled

LEMMA OneTurnTaken ==
    ASSUME CallInv, TurnsInv, NEW p, NEW k, InTurn(p, k),
           call'.args = call.args, call'.todo = Tail(call.todo),
           UNCHANGED <<lock, files>>
    PROVE  /\ <<p, k>> \in Requested /\ Requested' = Requested
           /\ ToSet(call'.todo) \subseteq Requested
           /\ \A t \in Requested : t = <<p, k>> \/ t \in ToSet(call'.todo) \/ Settled(t)'
<1>1. call.pc = "files" /\ call.todo # <<>> /\ <<p, k>> = Head(call.todo)
  BY DEF InTurn
<1>2. ToSet(call.todo) = {<<p, k>>} \union ToSet(call'.todo)
  BY <1>1, TurnsOfCall
<1>3. Requested' = Requested
  BY DEF Requested, Turns, PlatformsOf
<1>4. /\ ToSet(call.todo) \subseteq Requested
      /\ \A t \in Requested : t \in ToSet(call.todo) \/ Settled(t)
  BY <1>1 DEF TurnsInv, Rendering
<1> QED
  BY <1>2, <1>3, <1>4, StaysSettled

(* What is written to the file of one turn leaves the others settled.        *)
LEMMA OthersStaySettled ==
    ASSUME CallInv, TurnsInv, Rendering, UNCHANGED lock, call'.args = call.args,
           NEW f, f = FileName(call.args, call.file[1], call.file[2]),
           \A x \in DOMAIN files : x # f => x \in DOMAIN files' /\ files'[x] = files[x]
    PROVE  \A t \in Requested : t # call.file /\ Settled(t) => Settled(t)'
<1> SUFFICES ASSUME NEW t \in Requested, t # call.file, Settled(t) PROVE Settled(t)'
  OBVIOUS
<1>1. /\ call.args \in Calls /\ ~Refused(call.args) /\ call.file \in Requested
  BY TurnsOfCall DEF TurnsInv, Rendering
<1>2. FileName(call.args, t[1], t[2]) # f
  BY <1>1, NamesApart DEF Requested
<1> QED
  BY <1>2, StaysSettled

LEMMA TurnsKept ==
    ASSUME LockInv, CallInv, TurnsInv, [Next]_vars
    PROVE  TurnsInv'
<1>1. CASE UNCHANGED vars
  <2>1. lock' = lock /\ files' = files /\ call' = call
    BY <1>1 DEF vars
  <2>2. Requested' = Requested /\ \A t : Settled(t) => Settled(t)'
    BY <2>1, StaysSettled DEF Requested
  <2> QED
    BY <2>1, <2>2 DEF TurnsInv, Rendering, Refused, FileName, BaseName
<1>2. CASE Relock \/ Kill
  BY <1>2 DEF Relock, Kill, TurnsInv
<1>3. CASE StartCall
  <2>1. PICK c \in Calls, content \in {InMemory, Read} :
          call' = [ pc   |-> IF Refused(c) THEN "exit" ELSE "files",
                    args |-> c, content |-> content, todo |-> Turns(c), file |-> <<>>,
                    sorting |-> None, lines |-> [m \in Manager |-> <<>>] ]
    BY <1>3 DEF StartCall
  <2>2. /\ call'.pc = IF Refused(c) THEN "exit" ELSE "files"
        /\ call'.args = c /\ call'.todo = Turns(c)
    BY <2>1
  <2>3. Requested' = ToSet(call'.todo)
    BY <2>2 DEF Requested
  <2>4. (~Refused(call.args))' <=> ~Refused(c)
    BY <2>2 DEF Refused
  <2> QED
    BY <2>2, <2>3, <2>4 DEF TurnsInv, Rendering
<1>4. CASE SkipFile
  <2>1. PICK p \in Platform, k \in Kind : InTurn(p, k) /\ Skipped(p)
    BY <1>4 DEF SkipFile
  <2>2. /\ lock' = lock /\ files' = files /\ call'.pc = "files"
        /\ call'.args = call.args /\ call'.todo = Tail(call.todo)
    BY <1>4, <2>1 DEF SkipFile, InTurn, CallInv, CallRecord
  <2>3. /\ Requested' = Requested /\ ToSet(call'.todo) \subseteq Requested
        /\ \A t \in Requested : t = <<p, k>> \/ t \in ToSet(call'.todo) \/ Settled(t)'
    BY <2>1, <2>2, OneTurnTaken
  <2>4. Settled(<<p, k>>)'
    BY <2>1, <2>2, SkipSettles, StaysSettled
  <2>5. ~Refused(call.args)'
    BY <2>1, <2>2 DEF TurnsInv, InTurn, Refused
  <2> QED
    BY <2>2, <2>3, <2>4, <2>5 DEF TurnsInv, Rendering
<1>5. CASE RenderEnv \/ RenderExplicit
  <2>1. PICK p \in Platform, k \in Kind :
          /\ InTurn(p, k) /\ lock' = lock /\ files' = files
          /\ call'.pc \in {"sort", "open"} /\ call'.file = <<p, k>>
          /\ call'.args = call.args /\ call'.todo = Tail(call.todo)
    <3>1. ASSUME NEW k, InTurn(k, "env") \/ InTurn(k, "explicit")
          PROVE  call \in CallRecord
      BY <3>1 DEF InTurn, CallInv, CallRecord
    <3>2. CASE RenderEnv
      BY <3>1, <3>2 DEF RenderEnv, Kind, CallRecord
    <3>3. CASE RenderExplicit
      BY <3>1, <3>3 DEF RenderExplicit, Kind, CallRecord
    <3> QED
      BY <1>5, <3>2, <3>3
  <2>2. /\ <<p, k>> \in Requested
        /\ Requested' = Requested /\ ToSet(call'.todo) \subseteq Requested
        /\ \A t \in Requested : t = <<p, k>> \/ t \in ToSet(call'.todo) \/ Settled(t)'
    BY <2>1, OneTurnTaken
  <2>3. ~Refused(call.args)'
    BY <2>1 DEF TurnsInv, InTurn, Refused
  <2> QED
    BY <2>1, <2>2, <2>3 DEF TurnsInv, Rendering
<1>6. CASE SortStep \/ SortDone \/ Open \/ Write \/ EndCall
  <2>1. /\ call.pc \in {"sort", "open", "write", "files"} /\ lock' = lock
        /\ call'.args = call.args /\ call'.todo = call.todo /\ call'.file = call.file
    <3>1. CASE SortStep
      BY <3>1 DEF SortStep
    <3>2. CASE SortDone
      <4>1. call \in CallRecord
        BY <3>2 DEF SortDone, CallInv
      <4> DEFINE m == call.sorting
                 l == Filtered(out, Listed(call.args, call.content[call.file[1]], m))
      <4>2. \/ call' = [call EXCEPT !.lines[m] = l, !.sorting = "pip"]
            \/ call' = [call EXCEPT !.lines[m] = l, !.sorting = None, !.pc = "open"]
        BY <3>2 DEF SortDone
      <4> HIDE DEF l
      <4> QED
        BY <3>2, <4>1, <4>2 DEF SortDone, CallRecord
    <3>3. CASE Open \/ Write \/ EndCall
      BY <3>3 DEF Open, Write, EndCall, CallInv, CallRecord
    <3> QED
      BY <1>6, <3>1, <3>2, <3>3
  <2>2. /\ ~Refused(call.args) /\ ToSet(call.todo) \subseteq Requested
        /\ Rendering => call.file \in Requested
        /\ \A t \in Requested :
              t \in ToSet(call.todo) \/ (Rendering /\ t = call.file) \/ Settled(t)
    BY <2>1 DEF TurnsInv
  <2>3. Requested' = Requested /\ ~Refused(call.args)'
    BY <2>1, <2>2 DEF Requested, Turns, PlatformsOf, Refused
  <2> DEFINE f == FileName(call.args, call.file[1], call.file[2])
  <2>4. f' = f
    BY <2>1 DEF FileName, BaseName
  <2>5. CASE SortStep \/ SortDone
    <3>1. call.pc = "sort" /\ call'.pc \in {"sort", "open"} /\ files' = files
      BY <2>5 DEF SortStep, SortDone, CallInv, CallRecord
    <3>2. \A t : Settled(t) => Settled(t)'
      BY <2>1, <3>1, StaysSettled
    <3> QED
      BY <2>1, <2>2, <2>3, <3>1, <3>2 DEF TurnsInv, Rendering
  <2>6. CASE Open
    <3>1. /\ call.pc = "open" /\ call'.pc = "write" /\ f \in DOMAIN files'
          /\ \A x \in DOMAIN files : x # f => x \in DOMAIN files' /\ files'[x] = files[x]
      BY <2>6 DEF Open, CallInv, CallRecord
    <3>2. \A t \in Requested : t # call.file /\ Settled(t) => Settled(t)'
      BY <2>1, <3>1, OthersStaySettled DEF Rendering
    <3> HIDE DEF f
    <3> QED
      BY <2>1, <2>2, <2>3, <2>4, <3>1, <3>2 DEF TurnsInv, Rendering, f
  <2>7. CASE Write
    <3>1. /\ call.pc = "write" /\ call'.pc = "files" /\ f \in DOMAIN files
          /\ DOMAIN files' = DOMAIN files
          /\ \A x \in DOMAIN files : x # f => files'[x] = files[x]
          /\ files'[f] = [ hash  |-> lock[call.file[1]].hash, whole |-> TRUE,
                           platform |-> call.file[1], kind |-> call.file[2],
                           rev |-> lock[call.file[1]].rev,
                           for   |-> CategoriesToInstall(call.args),
                           lines |-> call.lines ]
      BY <2>7 DEF Write, CallInv, CallRecord, TurnsInv
    <3>2. \A t \in Requested : t # call.file /\ Settled(t) => Settled(t)'
      BY <2>1, <3>1, OthersStaySettled DEF Rendering
    <3>3. Settled(call.file)'
      BY <2>1, <2>4, <3>1 DEF Settled, Current, CategoriesToInstall
    <3> QED
      BY <2>1, <2>2, <2>3, <3>1, <3>2, <3>3 DEF TurnsInv, Rendering
  <2>8. CASE EndCall
    <3>1. call.pc = "files" /\ call.todo = <<>> /\ call'.pc = "done" /\ files' = files
      BY <2>8 DEF EndCall, CallInv, CallRecord
    <3>2. \A t : Settled(t) => Settled(t)'
      BY <2>1, <3>1, StaysSettled
    <3> QED
      BY <2>1, <2>2, <2>3, <3>1, <3>2 DEF TurnsInv, Rendering
  <2> QED
    BY <1>6, <2>5, <2>6, <2>7, <2>8
<1> QED
  BY <1>1, <1>2, <1>3, <1>4, <1>5, <1>6 DEF Next, Step
-----------------------------------------------------------------------------
(* The lines of what is rendered, and of the files. *)

LEMMA LinesSame ==
    ASSUME LockInv, CallInv, TurnsInv, LinesInv, UNCHANGED <<lock, sort>>,
           \/ call' = call
           \/ call.pc = "open" /\ call' = [call EXCEPT !.pc = "write"]
    PROVE  LinesInv'
<1>1. Ordering!Inv => Ordering!Inv'
  BY SortSame
<1>2. /\ call'.pc = call.pc \/ (call.pc = "open" /\ call'.pc = "write")
      /\ call.pc # "idle" =>
          /\ call'.sorting = call.sorting /\ call'.file = call.file /\ call'.content = call.content
          /\ call'.args = call.args /\ call'.lines = call.lines
  BY DEF CallInv, CallRecord
<1>3. /\ lookup' = lookup /\ data' = data /\ out' = out
      /\ \A a, m : LookupOf(a, m)' = LookupOf(a, m)
      /\ \A c : CategoriesToInstall(c)' = CategoriesToInstall(c)
  BY DEF sort
<1> QED
  BY <1>1, <1>2, <1>3 DEF LinesInv

LEMMA LinesKept ==
    ASSUME LockInv, CallInv, TurnsInv, LinesInv, [Next]_vars
    PROVE  LinesInv'
<1>1. CASE UNCHANGED vars
  <2>1. call' = call /\ UNCHANGED <<lock, sort>>
    BY <1>1 DEF vars, sort
  <2> QED
    BY <2>1, LinesSame
<1>2. CASE Relock \/ Kill \/ StartCall \/ SkipFile \/ Write \/ EndCall
  <2>1. call.pc # "sort" /\ call'.pc \in {"idle", "exit", "files", "done"}
    <3>1. CASE Relock \/ Kill \/ StartCall
      BY <3>1 DEF Relock, Kill, StartCall, Idle
    <3>2. CASE SkipFile \/ Write \/ EndCall
      BY <3>2 DEF SkipFile, InTurn, Write, EndCall, CallInv, CallRecord
    <3> QED
      BY <1>2, <3>1, <3>2
  <2>2. data' = data /\ out' = out
    BY <1>2 DEF Relock, Kill, StartCall, SkipFile, Write, EndCall, sort
  <2> QED
    BY <2>1, <2>2 DEF LinesInv
<1>3. CASE RenderEnv
  <2>1. PICK p \in Platform :
          /\ InTurn(p, "env")
          /\ \E conda \in Alphabetical(Listed(call.args, call.content[p], "conda")),
                pip \in Alphabetical(Listed(call.args, call.content[p], "pip")) :
              call' = [call EXCEPT !.todo = Tail(call.todo), !.file = <<p, "env">>, !.pc = "open",
                                   !.lines = [conda |-> conda, pip |-> pip]]
    BY <1>3 DEF RenderEnv
  <2>2. PICK conda \in Alphabetical(Listed(call.args, call.content[p], "conda")) :
          \E pip \in Alphabetical(Listed(call.args, call.content[p], "pip")) :
              call' = [call EXCEPT !.todo = Tail(call.todo), !.file = <<p, "env">>, !.pc = "open",
                                   !.lines = [conda |-> conda, pip |-> pip]]
    BY <2>1
  <2>3. PICK pip \in Alphabetical(Listed(call.args, call.content[p], "pip")) :
              call' = [call EXCEPT !.todo = Tail(call.todo), !.file = <<p, "env">>, !.pc = "open",
                                   !.lines = [conda |-> conda, pip |-> pip]]
    BY <2>2
  <2>4. call \in CallRecord /\ call.pc = "files"
    BY <2>1 DEF InTurn, CallInv
  <2>5. /\ call'.pc = "open" /\ call'.file = <<p, "env">> /\ call'.args = call.args
        /\ call'.lines = [conda |-> conda, pip |-> pip]
    BY <2>3, <2>4 DEF CallRecord
  <2> DEFINE t == lock[p].table
             for == CategoriesToInstall(call.args)
  <2>6. SameTable(call.content[p], t)
    BY <2>4, ContentAsLocked
  <2>7. /\ Listed(call.args, call.content[p], "conda") = ListedIn(t, for, "conda")
        /\ Listed(call.args, call.content[p], "pip") = ListedIn(t, for, "pip")
    BY <2>6, ListedAsLocked
  <2> HIDE DEF t, for
  <2>8. GoodLines(t, for, "conda", conda) /\ GoodLines(t, for, "pip", pip)
    <3>1. ListedIn(t, for, "conda") \in SUBSET Name /\ ListedIn(t, for, "pip") \in SUBSET Name
      BY DEF ListedIn
    <3> QED
      BY <2>7, <3>1, Sorted DEF GoodLines
  <2>9. \A m \in Manager : Fits(t, "env", for, m, call'.lines[m])
    BY <2>5, <2>8 DEF Fits, Manager
  <2>10. lock'[p].table = t /\ CategoriesToInstall(call'.args) = for
    BY <1>3, <2>5 DEF RenderEnv, t, for
  <2>11. DOMAIN data' = {} /\ out' = <<>>
    BY <1>3, <2>4 DEF RenderEnv, LinesInv, sort
  <2> QED
    BY <2>5, <2>9, <2>10, <2>11 DEF LinesInv
<1>4. CASE RenderExplicit
  <2>1. PICK p \in Platform :
          /\ InTurn(p, "explicit")
          /\ call' = [call EXCEPT !.todo = Tail(call.todo), !.file = <<p, "explicit">>, !.pc = "sort",
                        !.lines = [m \in Manager |-> <<>>], !.sorting = "conda"]
          /\ Sorting!Begin(LookupOf(call.content[p], "conda"))
    BY <1>4 DEF RenderExplicit
  <2>2. call \in CallRecord /\ call.pc = "files"
    BY <2>1 DEF InTurn, CallInv
  <2>3. /\ call'.pc = "sort" /\ call'.file = <<p, "explicit">> /\ call'.sorting = "conda"
        /\ call'.content = call.content
    BY <2>1, <2>2 DEF CallRecord
  <2>4. Ordering!IsLookup(LookupOf(call.content[p], "conda"))
    BY <2>2, ContentAsLocked, LookupIsLookup
  <2> DEFINE l == LookupOf(call.content[p], "conda")
  <2>5. PICK ll : ll = l
    OBVIOUS
  <2>6. Ordering!Inv' /\ lookup' = l
    <3>1. Ordering!IsLookup(ll) /\ Sorting!Begin(ll)
      BY <2>1, <2>4, <2>5
    <3> HIDE DEF l
    <3> QED
      BY <2>5, <3>1, SortBegun
  <2>7. LookupOf(call.content[p], "conda") = LookupOf(call.content[p], "conda")'
    BY <2>3
  <2> QED
    BY <2>3, <2>6, <2>7 DEF LinesInv, Manager
<1>5. CASE SortStep
  <2>1. call.pc = "sort" /\ call' = call /\ lock' = lock /\ Ordering!Inv
    BY <1>5 DEF SortStep, LinesInv
  <2>2. Ordering!Inv' /\ lookup' = lookup
    BY <1>5, <2>1, SortKept DEF SortStep, Sorting!Next, Sorting!NextRound, Sorting!Yield,
       Sorting!PopKey, Sorting!Remove
  <2> QED
    BY <2>1, <2>2 DEF LinesInv, LookupOf, CategoriesToInstall
<1>6. CASE SortDone
  <2> DEFINE p == call.file[1]
             m == call.sorting
             for == CategoriesToInstall(call.args)
             table == lock[p].table
             l == Filtered(out, Listed(call.args, call.content[p], m))
  <2>1. /\ call.pc = "sort" /\ Sorting!Done /\ lock' = lock
        /\ \/ /\ m = "conda" /\ call' = [call EXCEPT !.lines[m] = l, !.sorting = "pip"]
              /\ Sorting!Begin(LookupOf(call.content[p], "pip"))
           \/ /\ m # "conda"
              /\ call' = [call EXCEPT !.lines[m] = l, !.sorting = None, !.pc = "open"]
              /\ data' = <<>> /\ out' = <<>>
    BY <1>6, Zenon DEF SortDone
  <2>2. call \in CallRecord /\ p \in Platform /\ m \in Manager /\ call.file[2] = "explicit"
    <3>1. call.file \in Platform \X Kind
      BY <2>1, TurnsOfCall DEF Rendering
    <3> QED
      BY <2>1, <3>1 DEF CallInv, LinesInv
  <2>3. Fits(table, "explicit", for, m, l)
    <3>1. Ordering!Inv /\ lookup = LookupOf(call.content[p], m)
      BY <2>1 DEF LinesInv
    <3>2. IsTable(lock[p].table) /\ SameTable(call.content[p], lock[p].table)
      BY <2>1, <2>2, ContentAsLocked
    <3> QED
      BY <2>1, <3>1, <3>2, SortedLines DEF Fits
  <2> HIDE DEF l
  <2>4. /\ call'.file = call.file /\ call'.args = call.args /\ call'.content = call.content
        /\ call'.lines = [call.lines EXCEPT ![m] = l]
    BY <2>1, <2>2 DEF CallRecord
  <2>5. for' = for /\ table' = table
    BY <2>1, <2>4 DEF CategoriesToInstall
  <2>6. DOMAIN call.lines = Manager /\ call'.lines[m] = l
    BY <2>2, <2>4 DEF CallRecord
  <2> HIDE DEF for, table
  <2>7. CASE m = "conda"
    <3>1. /\ call' = [call EXCEPT !.lines[m] = l, !.sorting = "pip"]
          /\ Sorting!Begin(LookupOf(call.content[p], "pip"))
      BY <2>1, <2>7
    <3>2. call'.pc = "sort" /\ call'.sorting = "pip"
      BY <2>1, <2>2, <3>1 DEF CallRecord
    <3>3. PICK ll : ll = LookupOf(call.content[p], "pip")
      OBVIOUS
    <3>4. Ordering!IsLookup(ll) /\ Sorting!Begin(ll)
      BY <2>1, <2>2, <3>1, <3>3, ContentAsLocked, LookupIsLookup
    <3>5. Ordering!Inv' /\ lookup' = ll
      BY <3>4, SortBegun
    <3>6. ll = LookupOf(call'.content[call'.file[1]], "pip")
      BY <2>4, <3>3
    <3> QED
      BY <2>2, <2>3, <2>4, <2>5, <2>6, <2>7, <3>2, <3>5, <3>6 DEF LinesInv, Manager, for, table
  <2>8. CASE m # "conda"
    <3>1. /\ call' = [call EXCEPT !.lines[m] = l, !.sorting = None, !.pc = "open"]
          /\ data' = <<>> /\ out' = <<>> /\ m = "pip"
      BY <2>1, <2>2, <2>8 DEF Manager
    <3>2. call'.pc = "open"
      BY <2>2, <3>1 DEF CallRecord
    <3>3. Fits(table, "explicit", for, "conda", call.lines["conda"])
      BY <2>1, <3>1 DEF LinesInv, for, table
    <3>4. call'.lines["conda"] = call.lines["conda"]
      BY <2>4, <2>6, <3>1 DEF Manager
    <3>5. \A x \in Manager : Fits(table, "explicit", for, x, call'.lines[x])
      BY <2>3, <2>6, <3>1, <3>3, <3>4 DEF Manager
    <3>6. DOMAIN data' = {}
      BY <3>1
    <3> QED
      BY <2>2, <2>4, <2>5, <3>1, <3>2, <3>5, <3>6 DEF LinesInv, for, table
  <2> QED
    BY <2>7, <2>8
<1>7. CASE Open
  BY <1>7, LinesSame DEF Open
<1> QED
  BY <1>1, <1>2, <1>3, <1>4, <1>5, <1>6, <1>7 DEF Next, Step
LEMMA FilesSame ==
    ASSUME FilesInv, UNCHANGED files, \A p \in Platform : lock'[p].table = lock[p].table
    PROVE  FilesInv'
BY DEF FilesInv

(* A file is opened, written or left a beginning of. *)
LEMMA FileChanged ==
    ASSUME FilesInv, \A p \in Platform : lock'[p].table = lock[p].table,
           NEW f, NEW x, f.platform \in Platform \union {None}, f.yml \in {0, 1},
           files' = [y \in DOMAIN files \union {f} |-> IF y = f THEN x ELSE files[y]],
           x.hash \in Hash \union {None},
           x.whole =>
              /\ x.platform \in Platform /\ "main" \in x.for /\ (x.kind = "env" <=> f.yml = 1)
              /\ \A m \in Manager : Fits(lock[x.platform].table, x.kind, x.for, m, x.lines[m])
    PROVE  FilesInv'
<1>1. \A y \in DOMAIN files' : files'[y] = IF y = f THEN x ELSE files[y]
  OBVIOUS
<1>2. \A y \in DOMAIN files' : y = f \/ y \in DOMAIN files
  OBVIOUS
<1> QED
  BY <1>1, <1>2 DEF FilesInv

LEMMA FilesKept ==
    ASSUME LockInv, CallInv, TurnsInv, LinesInv, FilesInv, [Next]_vars
    PROVE  FilesInv'
<1>1. \A p \in Platform : lock'[p].table = lock[p].table
  BY LockKept
<1>2. CASE UNCHANGED files
  BY <1>1, <1>2, FilesSame
<1> DEFINE p == call.file[1]
           f == FileName(call.args, p, call.file[2])
<1>3. ASSUME call.pc \in {"open", "write"}
      PROVE  /\ call \in CallRecord /\ p \in Platform /\ lock[p].hash \in Hash
             /\ f.platform \in Platform \union {None} /\ f.yml \in {0, 1}
             /\ call.file[2] = "env" <=> f.yml = 1
             /\ call.pc = "write" => f \in DOMAIN files
  <2>1. call.file \in Platform \X Kind /\ call \in CallRecord
    BY <1>3, TurnsOfCall DEF Rendering, CallInv
  <2>2. p \in Platform
    BY <2>1
  <2>3. ASSUME NEW c, ~Refused(c), NEW y, NEW k
        PROVE  /\ FileName(c, y, k).platform \in {y, None}
               /\ FileName(c, y, k).yml = IF k = "env" THEN 1 ELSE 0
    BY <2>3 DEF FileName, BaseName, Refused
  <2>4. lock[p].hash \in Hash
    BY <2>2 DEF LockInv
  <2>5. call.pc = "write" => f \in DOMAIN files
    BY DEF TurnsInv
  <2>6. /\ f.platform \in Platform \union {None} /\ f.yml \in {0, 1}
        /\ call.file[2] = "env" <=> f.yml = 1
    <3>1. ~Refused(call.args)
      BY <1>3 DEF TurnsInv
    <3>2. f.platform \in {p, None} /\ f.yml = IF call.file[2] = "env" THEN 1 ELSE 0
      BY <2>3, <3>1
    <3> HIDE DEF f
    <3> QED
      BY <2>2, <3>2
  <2> QED
    BY <2>1, <2>2, <2>4, <2>5, <2>6
<1>4. CASE Open
  <2> DEFINE x == [hash |-> None, whole |-> FALSE]
  <2>1. /\ call.pc = "open"
        /\ files' = [y \in DOMAIN files \union {f} |-> IF y = f THEN x ELSE files[y]]
    BY <1>4 DEF Open
  <2>2. x.hash = None /\ ~x.whole
    OBVIOUS
  <2> HIDE DEF f, x
  <2> QED
    BY <1>1, <1>3, <2>1, <2>2, FileChanged
<1>5. CASE Write
  <2> DEFINE x == [ hash  |-> lock[p].hash, whole |-> TRUE,
                    platform |-> p, kind |-> call.file[2], rev |-> lock[p].rev,
                    for   |-> CategoriesToInstall(call.args),
                    lines |-> call.lines ]
  <2>1. call.pc = "write" /\ files' = [files EXCEPT ![f] = x]
    BY <1>5 DEF Write
  <2>2. /\ x.hash = lock[p].hash /\ x.platform = p /\ x.kind = call.file[2]
        /\ x.for = CategoriesToInstall(call.args) /\ x.lines = call.lines
    OBVIOUS
  <2>3. \A m \in Manager :
            Fits(lock[p].table, call.file[2], CategoriesToInstall(call.args), m, call.lines[m])
    BY <2>1 DEF LinesInv
  <2>4. "main" \in CategoriesToInstall(call.args)
    BY DEF CategoriesToInstall
  <2> HIDE DEF f, x, p
  <2>5. files' = [y \in DOMAIN files \union {f} |-> IF y = f THEN x ELSE files[y]]
    <3>1. DOMAIN files \union {f} = DOMAIN files
      BY <1>3, <2>1
    <3> QED
      BY <2>1, <3>1
  <2>6. /\ x.platform \in Platform /\ "main" \in x.for /\ x.hash \in Hash \union {None}
        /\ x.kind = "env" <=> f.yml = 1
        /\ \A m \in Manager : Fits(lock[x.platform].table, x.kind, x.for, m, x.lines[m])
    BY <1>3, <2>1, <2>2, <2>3, <2>4
  <2> QED
    BY <1>1, <1>3, <2>1, <2>5, <2>6, FileChanged
<1>6. CASE Kill
  <2>1. call.pc = "write"
    BY <1>6 DEF Kill
  <2>2. PICK h \in {None, lock[p].hash} : files' = [files EXCEPT ![f] = [hash |-> h, whole |-> FALSE]]
    BY <1>6 DEF Kill
  <2> DEFINE x == [hash |-> h, whole |-> FALSE]
  <2>3. x.hash = h /\ ~x.whole /\ files' = [files EXCEPT ![f] = x]
    BY <2>2
  <2> HIDE DEF f, x, p
  <2>4. files' = [y \in DOMAIN files \union {f} |-> IF y = f THEN x ELSE files[y]]
    <3>1. DOMAIN files \union {f} = DOMAIN files
      BY <1>3, <2>1
    <3> QED
      BY <2>3, <3>1
  <2> QED
    BY <1>1, <1>3, <2>1, <2>2, <2>3, <2>4, FileChanged
<1> QED
  BY <1>2, <1>4, <1>5, <1>6 DEF Next, Relock, StartCall, Step, SkipFile, RenderEnv,
     RenderExplicit, SortStep, SortDone, EndCall, vars

LEMMA CountKept == ASSUME CountInv, [Next]_vars PROVE CountInv'
<1>1. CASE UNCHANGED calls
  BY <1>1 DEF CountInv
<1>2. CASE StartCall
  BY <1>2, RenderAssumption DEF StartCall, CountInv
<1> QED
  BY <1>1, <1>2 DEF Next, Relock, Kill, Step, SkipFile, RenderEnv, RenderExplicit,
     SortStep, SortDone, Open, Write, EndCall, vars

-----------------------------------------------------------------------------
LEMMA InitInv == ASSUME Init PROVE Inv
<1>1. LockInv
  BY RenderAssumption DEF Init, LockInv
<1>2. call.pc = "idle" /\ DOMAIN data = {} /\ out = <<>> /\ DOMAIN files = {}
  BY DEF Init
<1> QED
  BY <1>1, <1>2, RenderAssumption
  DEF Init, Inv, CallInv, TurnsInv, LinesInv, FilesInv, CountInv

LEMMA NextInv == Inv /\ [Next]_vars => Inv'
BY LockKept, CallKept, TurnsKept, LinesKept, FilesKept, CountKept DEF Inv

(* What is rendered is right for the lock all along: the invariant that the  *)
(* theorems follow from (do_render, render_lockfile_for_platform).           *)
THEOREM InvHolds == Spec => []Inv
BY InitInv, NextInv, PTL DEF Spec

(* The types, those of the sort while there is one, and names of files that  *)
(* KIND_FILE_EXT and the template can give (do_render).                      *)
THEOREM TypeCorrect == Spec => []TypeOK
<1>1. Inv => TypeOK
  <2> SUFFICES ASSUME Inv PROVE TypeOK
    OBVIOUS
  <2>1. \A p \in Platform :
          lock[p].rev \in 1 .. MaxRev /\ lock[p].hash \in Hash /\ IsTable(lock[p].table)
    BY RenderAssumption DEF Inv, LockInv
  <2>2. call.pc \in Steps
    BY DEF Inv, CallInv, CallRecord, Steps
  <2>3. IF call.pc = "sort" THEN Sorting!TypeOK ELSE DOMAIN data = {} /\ out = <<>>
    BY SortTyped DEF Inv, LinesInv
  <2> QED
    BY <2>1, <2>2, <2>3 DEF Inv, CountInv, FilesInv, TypeOK
<1> QED
  BY <1>1, InvHolds, PTL

(* When do_render returns, what it was asked for is there and of the lock as *)
(* it is: its check of the template and KIND_FILE_EXT keep the turns of a    *)
(* call from writing over one another's files, for any template.             *)
THEOREM RendersCurrent == Spec => []RenderedIsCurrent
<1>1. Inv => RenderedIsCurrent
  <2> SUFFICES ASSUME Inv, call.pc = "done", NEW t \in Requested PROVE Settled(t)
    BY DEF RenderedIsCurrent, Settled
  <2>1. t \in ToSet(call.todo) \/ Settled(t)
    BY DEF Inv, TurnsInv, Rendering
  <2>2. call.todo = <<>>
    BY DEF Inv, TurnsInv
  <2> QED
    BY <2>1, <2>2 DEF ToSet
<1> QED
  BY <1>1, InvHolds, PTL

(* A whole file lists, each once, the packages of its categories and with a  *)
(* package its dependencies, whatever the extras and the cycles are (the     *)
(* filter of render_lockfile_for_platform over apply_categories' result),    *)
(* and its name tells its kind (do_render's second check of the template).   *)
THEOREM InstallsWhole == Spec => []Installable
<1>1. Inv => Installable
  <2> SUFFICES ASSUME Inv, NEW f \in Whole
               PROVE  LET table == lock[files[f].platform].table
                          names == ToSet(LinesOf(f))
                      IN  /\ \A n \in Name \ Virtual :
                              table[n] # None /\ table[n].categories \intersect files[f].for # {}
                                => n \in names
                          /\ \A n \in names : \A d \in table[n].deps :
                              table[d] # None => d \in names \union Virtual
                          /\ Cardinality(names) = Len(LinesOf(f))
                          /\ files[f].kind = "env" <=> f.yml = 1
    BY DEF Installable
  <2> DEFINE table == lock[files[f].platform].table
             for   == files[f].for
             c     == files[f].lines["conda"]
             p     == files[f].lines["pip"]
             names == ToSet(c \o p)
  <2>1. IsTable(table) /\ "main" \in for
    BY RenderAssumption DEF Inv, FilesInv, LockInv, Whole
  <2>2. GoodLines(table, for, "conda", c) /\ GoodLines(table, for, "pip", p)
    BY DEF Inv, FilesInv, Whole, Manager, Fits
  <2>3. LinesOf(f) = c \o p
    BY DEF LinesOf
  <2> HIDE DEF table, for, c, p
  <2>4. /\ c \in Seq(Name) /\ p \in Seq(Name) /\ Distinct(c) /\ Distinct(p)
        /\ ToSet(c) = ListedIn(table, for, "conda") /\ ToSet(p) = ListedIn(table, for, "pip")
    BY <2>2 DEF GoodLines
  <2>5. /\ c \o p \in Seq(Name) /\ names = ToSet(c) \union ToSet(p) /\ Distinct(c \o p)
    <3> DEFINE s == c \o p
    <3>1. /\ s \in Seq(Name) /\ DOMAIN s = 1 .. Len(c) + Len(p)
          /\ DOMAIN c = 1 .. Len(c) /\ DOMAIN p = 1 .. Len(p)
          /\ Len(c) \in Nat /\ Len(p) \in Nat
          /\ \A i \in DOMAIN c : s[i] = c[i]
          /\ \A i \in DOMAIN s \ DOMAIN c : i - Len(c) \in DOMAIN p /\ s[i] = p[i - Len(c)]
          /\ \A i \in DOMAIN p : i + Len(c) \in DOMAIN s /\ s[i + Len(c)] = p[i]
      BY <2>4
    <3> HIDE DEF s
    <3>2. \A i \in DOMAIN s : IF i \in DOMAIN c THEN s[i] \in ToSet(c) ELSE s[i] \in ToSet(p)
      BY <3>1 DEF ToSet
    <3>3. DOMAIN c \subseteq DOMAIN s
      BY <3>1
    <3>4. ToSet(s) = ToSet(c) \union ToSet(p)
      <4>1. ToSet(s) \subseteq ToSet(c) \union ToSet(p)
        BY <3>2 DEF ToSet
      <4>2. ToSet(c) \subseteq ToSet(s)
        BY <3>1, <3>3 DEF ToSet
      <4>3. ToSet(p) \subseteq ToSet(s)
        BY <3>1 DEF ToSet
      <4> QED
        BY <4>1, <4>2, <4>3
    <3>5. ToSet(c) \intersect ToSet(p) = {}
      BY <2>4 DEF ListedIn
    <3>6. ASSUME NEW i \in DOMAIN s, NEW j \in DOMAIN s, s[i] = s[j] PROVE i = j
      <4>1. CASE i \in DOMAIN c /\ j \in DOMAIN c
        BY <2>4, <3>1, <3>6, <4>1 DEF Distinct
      <4>2. CASE i \notin DOMAIN c /\ j \notin DOMAIN c
        <5>1. i - Len(c) = j - Len(c)
          BY <2>4, <3>1, <3>6, <4>2 DEF Distinct
        <5> QED
          BY <3>1, <5>1
      <4>3. CASE ~(i \in DOMAIN c <=> j \in DOMAIN c)
        BY <3>2, <3>5, <3>6, <4>3
      <4> QED
        BY <4>1, <4>2, <4>3
    <3> QED
      BY <3>1, <3>4, <3>6 DEF Distinct, s
  <2>6. names = {n \in Name \ Virtual : table[n] # None /\ table[n].categories \intersect for # {}}
    BY <2>4, <2>5 DEF ListedIn
  <2>7. Cardinality(names) = Len(c \o p)
    BY <2>5, AsManyAsLong
  <2> HIDE DEF names
  <2>8. ASSUME NEW n \in names, NEW d \in table[n].deps, table[d] # None, d \notin Virtual
        PROVE  d \in names
    <3>1. n \in Name /\ table[n] # None /\ table[n].categories \intersect for # {}
      BY <2>6
    <3>2. d \in Name
      BY <2>1, <2>8, <3>1 DEF IsTable
    <3>3. "main" \in table[d].categories \/ table[n].categories \subseteq table[d].categories
      BY <2>1, <2>8, <3>1 DEF IsTable
    <3>4. table[d].categories \intersect for # {}
      BY <2>1, <3>1, <3>3
    <3> QED
      BY <2>6, <2>8, <3>2, <3>4
  <2>9. files[f].kind = "env" <=> f.yml = 1
    BY DEF Inv, FilesInv, Whole
  <2> QED
    BY <2>3, <2>6, <2>7, <2>8, <2>9 DEF table, for, names
<1> QED
  BY <1>1, InvHolds, PTL

(* In an explicit file a package follows what it needs of its manager, where *)
(* no cycle is upstream: Toposort's order survives the filter by category,   *)
(* and the sort of what was read from a file without virtual packages.       *)
THEOREM KeepsOrder == Spec => []ExplicitInOrder
<1>1. Inv => ExplicitInOrder
  <2> SUFFICES ASSUME Inv, NEW f \in Whole, files[f].kind = "explicit", NEW m \in Manager
               PROVE  InGoodOrder(lock[files[f].platform].table, m, files[f].lines[m])
    BY DEF ExplicitInOrder, InGoodOrder
  <2> QED
    BY DEF Inv, FilesInv, Whole, Fits
<1> QED
  BY <1>1, InvHolds, PTL
=============================================================================
