--------------------------- MODULE LockSpecProofs ---------------------------
(***************************************************************************)
(* What is to be locked, for any source files: the channels and the pip     *)
(* repositories of the files are unified in one way or not at all, the last *)
(* file that names a package decides on it, no requirement is lost or let   *)
(* in, and a solve is skipped if and only if its outcome would be what is   *)
(* locked.                                                                  *)
(***************************************************************************)
EXTENDS LockSpec, TLAPS, FiniteSetTheorems, SequenceTheorems, WellFoundedInduction

-----------------------------------------------------------------------------
(* Sequences. *)

LEMMA LeastNumber ==
    ASSUME NEW S \in SUBSET Nat, S # {}
    PROVE  \E x \in S : \A y \in S : x <= y
<1>1. PICK x \in S : \A y \in S : ~(<<y, x>> \in OpToRel(<, Nat))
  BY NatLessThanWellFounded, WFMin
<1>2. ASSUME NEW y \in S PROVE x <= y
  <2>1. CASE y < x
    <3>1. <<y, x>> \in Nat \X Nat /\ <<y, x>>[1] < <<y, x>>[2]
      BY <2>1
    <3> QED
      BY <1>1, <3>1 DEF OpToRel
  <2> QED
    BY <2>1
<1> QED
  BY <1>2

(* A set of numbers that has 0 and the successors of its members up to N.    *)
LEMMA UpTo ==
    ASSUME NEW N \in Nat, NEW S, 0 \in S,
           \A n \in 1 .. N : n - 1 \in S => n \in S
    PROVE  \A n \in 0 .. N : n \in S
<1> DEFINE Bad == {n \in 0 .. N : n \notin S}
<1> SUFFICES ASSUME Bad # {} PROVE FALSE
  OBVIOUS
<1>1. Bad \in SUBSET Nat
  OBVIOUS
<1> HIDE DEF Bad
<1>2. PICK x \in Bad : \A y \in Bad : x <= y
  BY <1>1, LeastNumber
<1>3. x \in 1 .. N /\ x \notin S
  BY <1>2 DEF Bad
<1>4. x - 1 \in 0 .. N /\ ~(x <= x - 1)
  BY <1>3
<1>5. x - 1 \in S
  BY <1>2, <1>4 DEF Bad
<1> QED
  BY <1>3, <1>5

LEMMA Flattening ==
    ASSUME NEW X, NEW ss \in Seq(Seq(X))
    PROVE  \E f \in [0 .. Len(ss) -> Seq(X)] :
              /\ f[0] = <<>>
              /\ \A i \in 1 .. Len(ss) : f[i] = f[i - 1] \o ss[i]
              /\ FlattenSeq(ss) = f[Len(ss)]
<1> DEFINE N == Len(ss)
           Def(g, n) == g = [i \in 1 .. n |-> IF i = 1 THEN ss[i] ELSE g[i - 1] \o ss[i]]
<1>1. N \in Nat /\ \A i \in 1 .. N : ss[i] \in Seq(X)
  OBVIOUS
<1> HIDE DEF N
<1>2. \A n \in 0 .. N : \E g : Def(g, n)
  <2> DEFINE Has == {n \in 0 .. N : \E g : Def(g, n)}
  <2>1. 0 \in Has
    <3> DEFINE g == [i \in 1 .. 0 |-> <<>>]
    <3>1. Def(g, 0)
      OBVIOUS
    <3>2. \E x : Def(x, 0)
      <4> HIDE DEF Def, g
      <4> QED
        BY <3>1
    <3>3. 0 \in 0 .. N
      BY <1>1
    <3> QED
      BY <3>2, <3>3, Zenon
  <2>2. ASSUME NEW n \in 1 .. N, n - 1 \in Has PROVE n \in Has
    <3>1. PICK h : Def(h, n - 1)
      BY <2>2
    <3> DEFINE g == [i \in 1 .. n |-> IF i = 1 THEN ss[i] ELSE h[i - 1] \o ss[i]]
    <3>2. ASSUME NEW i \in 1 .. n, i # 1 PROVE g[i - 1] = h[i - 1]
      <4>1. i - 1 \in 1 .. n - 1 /\ i - 1 \in 1 .. n
        BY <1>1, <3>2
      <4> QED
        BY <3>1, <4>1
    <3>3. Def(g, n)
      BY <3>2
    <3>4. \E x : Def(x, n)
      <4> HIDE DEF Def, g
      <4> QED
        BY <3>3
    <3>5. n \in 0 .. N
      BY <1>1
    <3> QED
      BY <3>4, <3>5, Zenon
  <2> HIDE DEF Has
  <2>3. \A n \in 0 .. N : n \in Has
    BY <1>1, <2>1, <2>2, UpTo
  <2> QED
    BY <2>3, Zenon DEF Has
<1>3. CASE N = 0
  <2> DEFINE f == [i \in 0 .. 0 |-> <<>>]
  <2>1. f \in [0 .. N -> Seq(X)] /\ f[0] = <<>> /\ ss = <<>> /\ 1 .. N = {}
    BY <1>3 DEF N
  <2>2. FlattenSeq(ss) = f[N]
    BY <1>3, <2>1 DEF FlattenSeq, N
  <2> QED
    BY <2>1, <2>2 DEF N
<1>4. CASE N # 0
  <2> DEFINE h == CHOOSE g : Def(g, N)
             f == [i \in 0 .. N |-> IF i = 0 THEN <<>> ELSE h[i]]
  <2>1. Def(h, N)
    <3>1. N \in 0 .. N
      BY <1>1
    <3> HIDE DEF Def
    <3> QED
      BY <1>2, <3>1, Zenon
  <2>2. FlattenSeq(ss) = h[N]
    BY <1>4 DEF FlattenSeq, N
  <2> HIDE DEF h
  <2>3. \A i \in 1 .. N : h[i] = IF i = 1 THEN ss[i] ELSE h[i - 1] \o ss[i]
    BY <2>1
  <2>4. /\ f[0] = <<>> /\ f[0] \in Seq(X) /\ 0 \in 0 .. N
        /\ \A i \in 1 .. N : /\ i - 1 \in 0 .. N /\ i \in 0 .. N
                            /\ f[i] = IF i = 1 THEN ss[i] ELSE f[i - 1] \o ss[i]
    <3>1. ASSUME NEW i \in 1 .. N, i # 1 PROVE f[i - 1] = h[i - 1]
      BY <1>1, <3>1
    <3>2. ASSUME NEW i \in 1 .. N PROVE i \in 0 .. N /\ i - 1 \in 0 .. N /\ f[i] = h[i]
      BY <1>1
    <3>3. f[0] = <<>> /\ f[0] \in Seq(X) /\ 0 \in 0 .. N
      BY <1>1
    <3> HIDE DEF f
    <3> QED
      BY <2>3, <3>1, <3>2, <3>3
  <2>5. f = [i \in 0 .. N |-> f[i]] /\ f[N] = h[N]
    BY <1>1, <1>4
  <2> HIDE DEF f
  <2>6. ASSUME NEW i \in 1 .. N PROVE f[i] = f[i - 1] \o ss[i]
    <3>1. CASE i = 1
      <4>1. f[i] = ss[i] /\ f[i - 1] = <<>> /\ ss[i] \in Seq(X)
        BY <1>1, <2>4, <3>1
      <4>2. <<>> \o ss[i] = ss[i]
        BY <4>1
      <4> QED
        BY <4>1, <4>2
    <3>2. CASE i # 1
      BY <2>4, <3>2
    <3> QED
      BY <3>1, <3>2
  <2>7. \A n \in 0 .. N : f[n] \in Seq(X)
    <3> DEFINE S == {i \in 0 .. N : f[i] \in Seq(X)}
    <3>1. 0 \in S
      BY <2>4
    <3>2. ASSUME NEW n \in 1 .. N, n - 1 \in S PROVE n \in S
      <4>1. f[n - 1] \in Seq(X) /\ ss[n] \in Seq(X) /\ n \in 0 .. N
        BY <1>1, <2>4, <3>2
      <4>2. f[n - 1] \o ss[n] \in Seq(X)
        BY <4>1
      <4> QED
        BY <2>6, <4>1, <4>2
    <3> HIDE DEF S
    <3>3. \A n \in 0 .. N : n \in S
      BY <1>1, <3>1, <3>2, UpTo
    <3> QED
      BY <3>3 DEF S
  <2>8. f \in [0 .. N -> Seq(X)]
    BY <2>5, <2>7
  <2> QED
    BY <2>2, <2>4, <2>5, <2>6, <2>8 DEF N
<1> QED
  BY <1>3, <1>4

(* A sequence of sequences put together has what is in them. *)
LEMMA Flattened ==
    ASSUME NEW X, NEW ss \in Seq(Seq(X))
    PROVE  /\ FlattenSeq(ss) \in Seq(X)
           /\ ToSet(FlattenSeq(ss)) = UNION {ToSet(ss[i]) : i \in DOMAIN ss}
<1> DEFINE N == Len(ss)
<1>1. N \in Nat /\ DOMAIN ss = 1 .. N /\ \A i \in 1 .. N : ss[i] \in Seq(X)
  OBVIOUS
<1>2. PICK f \in [0 .. N -> Seq(X)] :
          /\ f[0] = <<>>
          /\ \A i \in 1 .. N : f[i] = f[i - 1] \o ss[i]
          /\ FlattenSeq(ss) = f[N]
  BY Flattening
<1> HIDE DEF N
<1> DEFINE S == {n \in 0 .. N : ToSet(f[n]) = UNION {ToSet(ss[i]) : i \in 1 .. n}}
<1>3. 0 \in S
  <2>1. ToSet(<<>>) = {} /\ 1 .. 0 = {}
    BY DEF ToSet
  <2> QED
    BY <1>1, <1>2, <2>1
<1>4. ASSUME NEW n \in 1 .. N, n - 1 \in S PROVE n \in S
  <2>1. n - 1 \in 0 .. N /\ n \in 0 .. N /\ 1 .. n = 1 .. (n - 1) \union {n}
    BY <1>1
  <2>2. f[n - 1] \in Seq(X) /\ ss[n] \in Seq(X)
    BY <1>1, <1>2, <2>1
  <2>3. \A a, b \in Seq(X) : ToSet(a \o b) = ToSet(a) \union ToSet(b)
    <3> SUFFICES ASSUME NEW a \in Seq(X), NEW b \in Seq(X) PROVE ToSet(a \o b) = ToSet(a) \union ToSet(b)
      OBVIOUS
    <3>1. \A x \in ToSet(a \o b) : x \in ToSet(a) \/ x \in ToSet(b)
      BY DEF ToSet
    <3>2. \A i \in DOMAIN a : i \in DOMAIN (a \o b) /\ (a \o b)[i] = a[i]
      OBVIOUS
    <3>3. \A i \in DOMAIN b : Len(a) + i \in DOMAIN (a \o b) /\ (a \o b)[Len(a) + i] = b[i]
      OBVIOUS
    <3>4. \A x \in ToSet(a) : x \in ToSet(a \o b)
      BY <3>2 DEF ToSet
    <3>5. \A x \in ToSet(b) : x \in ToSet(a \o b)
      BY <3>3 DEF ToSet
    <3> QED
      BY <3>1, <3>4, <3>5
  <2>4. ToSet(f[n]) = ToSet(f[n - 1]) \union ToSet(ss[n])
    BY <1>2, <2>2, <2>3
  <2>5. UNION {ToSet(ss[i]) : i \in 1 .. n} = ToSet(ss[n]) \union UNION {ToSet(ss[i]) : i \in 1 .. n - 1}
    BY <2>1
  <2> QED
    BY <1>4, <2>1, <2>4, <2>5
<1> HIDE DEF S
<1>5. N \in S
  <2>1. \A n \in 0 .. N : n \in S
    BY <1>1, <1>3, <1>4, UpTo
  <2> QED
    BY <1>1, <2>1
<1>6. f[N] \in Seq(X)
  BY <1>1, <1>2
<1> QED
  BY <1>1, <1>2, <1>5, <1>6 DEF S

LEMMA FilteredHas ==
    ASSUME NEW X, NEW s \in Seq(X), NEW T
    PROVE  /\ Filtered(s, T) \in Seq(X)
           /\ ToSet(Filtered(s, T)) = ToSet(s) \intersect T
<1> DEFINE ss == [i \in DOMAIN s |-> IF s[i] \in T THEN <<s[i]>> ELSE <<>>]
<1>1. ss \in Seq(Seq(X)) /\ DOMAIN ss = DOMAIN s
  <2>1. \A i \in DOMAIN s : ss[i] \in Seq(X)
    OBVIOUS
  <2>2. Len(s) \in Nat /\ ss \in [1 .. Len(s) -> Seq(X)] /\ DOMAIN s = 1 .. Len(s)
    BY <2>1
  <2> HIDE DEF ss
  <2> QED
    BY <2>2
<1>2. \A i \in DOMAIN s : ToSet(ss[i]) = {s[i]} \intersect T
  BY DEF ToSet
<1>3. Filtered(s, T) = FlattenSeq(ss)
  BY DEF Filtered
<1> HIDE DEF ss
<1>4. ToSet(s) = {s[i] : i \in DOMAIN s}
  BY DEF ToSet
<1> QED
  BY <1>1, <1>2, <1>3, <1>4, Flattened

(* What is left when the first e is removed is a sequence. *)
LEMMA RemovedFirst ==
    ASSUME NEW X, NEW s \in Seq(X), NEW e
    PROVE  RemoveFirst(s, e) \in Seq(X)
<1> DEFINE I == {i \in 1 .. Len(s) : s[i] = e}
<1>1. CASE I = {}
  BY <1>1 DEF RemoveFirst
<1>2. CASE I # {}
  <2>1. I \in SUBSET Nat
    OBVIOUS
  <2>2. \E x \in I : \A y \in I : x <= y
    <3> HIDE DEF I
    <3> QED
      BY <1>2, <2>1, LeastNumber
  <2>3. Min(I) \in I
    <3> HIDE DEF I
    <3> QED
      BY <2>2 DEF Min
  <2>4. RemoveFirst(s, e) = RemoveAt(s, Min(I))
    BY <1>2 DEF RemoveFirst, SelectInSeq
  <2> DEFINE m == Min(I)
  <2>5. m \in Nat /\ m \in 1 .. Len(s)
    BY <2>3
  <2> HIDE DEF m, I
  <2>6. SubSeq(s, 1, m - 1) \in Seq(X) /\ SubSeq(s, m + 1, Len(s)) \in Seq(X)
    BY <2>5
  <2>7. RemoveAt(s, m) \in Seq(X)
    BY <2>6 DEF RemoveAt
  <2> QED
    BY <2>4, <2>7 DEF m
<1> QED
  BY <1>1, <1>2

(* One of the longest lists is the first of them. *)
LEMMA LongestIsOne ==
    ASSUME NEW X, NEW lists \in Seq(Seq(X)), lists # <<>>
    PROVE  \E i \in DOMAIN lists :
               /\ Longest(lists) = lists[i]
               /\ \A j \in DOMAIN lists : Len(lists[j]) <= Len(lists[i])
<1> DEFINE First(i, n) == /\ i \in 1 .. n
                          /\ \A j \in 1 .. n : Len(lists[j]) <= Len(lists[i])
                          /\ \A j \in 1 .. i - 1 : Len(lists[j]) < Len(lists[i])
           N == Len(lists)
           S == {n \in 0 .. N : n = 0 \/ \E i \in Nat : First(i, n)}
<1>1. N \in Nat \ {0} /\ DOMAIN lists = 1 .. N /\ \A i \in 1 .. N : Len(lists[i]) \in Nat
  OBVIOUS
<1> HIDE DEF N
<1>2. 0 \in S
  BY <1>1
<1>3. ASSUME NEW n \in 1 .. N, n - 1 \in S PROVE n \in S
  <2>1. CASE n = 1
    <3>1. First(1, n)
      BY <1>1, <2>1
    <3> QED
      BY <1>1, <3>1
  <2>2. CASE n # 1
    <3>1. PICK i \in Nat : First(i, n - 1)
      BY <1>1, <1>3, <2>2
    <3>2. ASSUME Len(lists[n]) <= Len(lists[i]) PROVE First(i, n)
      <4>1. i \in 1 .. n /\ \A j \in 1 .. i - 1 : Len(lists[j]) < Len(lists[i])
        BY <1>1, <3>1
      <4>2. \A j \in 1 .. n : j \in 1 .. n - 1 \/ j = n
        BY <1>1
      <4>3. \A j \in 1 .. n : Len(lists[j]) <= Len(lists[i])
        BY <3>1, <3>2, <4>2
      <4> QED
        BY <4>1, <4>3
    <3>3. ASSUME Len(lists[n]) > Len(lists[i]) PROVE First(n, n)
      <4>1. \A j \in 1 .. n - 1 : Len(lists[j]) < Len(lists[n])
        BY <1>1, <3>1, <3>3
      <4> QED
        BY <1>1, <4>1
    <3>4. n \in 0 .. N /\ i \in Nat /\ n \in Nat /\ i \in 1 .. N
      BY <1>1, <3>1
    <3>5. \E x \in Nat : First(x, n)
      <4> HIDE DEF First
      <4>1. Len(lists[n]) <= Len(lists[i]) \/ Len(lists[n]) > Len(lists[i])
        BY <1>1, <3>4
      <4> QED
        BY <3>2, <3>3, <3>4, <4>1
    <3> QED
      <4> HIDE DEF First
      <4> QED
        BY <3>4, <3>5
  <2> QED
    BY <2>1, <2>2
<1>4. \E i \in Nat : First(i, N)
  <2> HIDE DEF S
  <2>1. \A n \in 0 .. N : n \in S
    BY <1>1, <1>2, <1>3, UpTo
  <2>2. N \in S
    BY <1>1, <2>1
  <2> QED
    BY <1>1, <2>2 DEF S
<1> DEFINE k == CHOOSE i \in DOMAIN lists :
                    /\ \A j \in DOMAIN lists : Len(lists[j]) <= Len(lists[i])
                    /\ \A j \in 1 .. i - 1 : Len(lists[j]) < Len(lists[i])
<1>5. /\ k \in DOMAIN lists
      /\ \A j \in DOMAIN lists : Len(lists[j]) <= Len(lists[k])
  BY <1>1, <1>4
<1>6. Longest(lists) = lists[k]
  BY DEF Longest
<1> QED
  BY <1>5, <1>6

(* The end of t is s. *)
EndsWith(t, s) ==
    Len(s) <= Len(t) /\ \A k \in 0 .. Len(s) - 1 : s[Len(s) - k] = t[Len(t) - k]

LEMMA SuffixEnds ==
    ASSUME NEW X, NEW s \in Seq(X), NEW t \in Seq(X)
    PROVE  IsSuffix(s, t) <=> EndsWith(t, s)
<1> DEFINE r == Reverse(s)  q == Reverse(t)  m == Len(s)
<1>1. /\ r \in Seq(X) /\ Len(r) = Len(s) /\ \A i \in 1 .. Len(s) : r[i] = s[(Len(s) - i) + 1]
      /\ q \in Seq(X) /\ Len(q) = Len(t) /\ \A i \in 1 .. Len(t) : q[i] = t[(Len(t) - i) + 1]
  BY DEF Reverse
<1> HIDE DEF r, q
<1>2. IsSuffix(s, t) <=> m <= Len(t) /\ SubSeq(r, 1, m) = SubSeq(q, 1, m)
  BY <1>1 DEF IsSuffix, IsPrefix, r, q
<1>3. ASSUME m <= Len(t)
      PROVE  SubSeq(r, 1, m) = SubSeq(q, 1, m) <=> \A i \in 1 .. m : r[i] = q[i]
  <2>1. /\ SubSeq(r, 1, m) \in Seq(X) /\ Len(SubSeq(r, 1, m)) = m
        /\ \A i \in 1 .. m : SubSeq(r, 1, m)[i] = r[i]
    BY <1>1
  <2>2. /\ SubSeq(q, 1, m) \in Seq(X) /\ Len(SubSeq(q, 1, m)) = m
        /\ \A i \in 1 .. m : SubSeq(q, 1, m)[i] = q[i]
    BY <1>1, <1>3
  <2> QED
    BY <2>1, <2>2
<1>4. ASSUME m <= Len(t)
      PROVE  (\A i \in 1 .. m : r[i] = q[i]) <=> \A k \in 0 .. m - 1 : s[m - k] = t[Len(t) - k]
  <2>1. ASSUME \A i \in 1 .. m : r[i] = q[i], NEW k \in 0 .. m - 1
        PROVE  s[m - k] = t[Len(t) - k]
    <3>1. k + 1 \in 1 .. m /\ k + 1 \in 1 .. Len(t) /\ (m - (k + 1)) + 1 = m - k
          /\ (Len(t) - (k + 1)) + 1 = Len(t) - k
      BY <1>4
    <3> QED
      BY <1>1, <2>1, <3>1
  <2>2. ASSUME \A k \in 0 .. m - 1 : s[m - k] = t[Len(t) - k], NEW i \in 1 .. m
        PROVE  r[i] = q[i]
    <3>1. i - 1 \in 0 .. m - 1 /\ i \in 1 .. Len(t) /\ (m - i) + 1 = m - (i - 1)
          /\ (Len(t) - i) + 1 = Len(t) - (i - 1)
      BY <1>4
    <3> QED
      BY <1>1, <2>2, <3>1
  <2> QED
    BY <2>1, <2>2
<1> QED
  BY <1>2, <1>3, <1>4 DEF EndsWith

LEMMA LastEnds ==
    ASSUME NEW X, NEW s \in Seq(X), NEW t \in Seq(X), Len(s) <= Len(t)
    PROVE  s = LastOf(t, Len(s)) <=> EndsWith(t, s)
<1> DEFINE m == Len(s)  b == Len(t) - m  l == LastOf(t, m)
<1>1. b \in Nat /\ m \in Nat /\ Len(t) = b + m
  OBVIOUS
<1>2. l = SubSeq(t, b + 1, Len(t))
  BY DEF LastOf
<1>3. l \in Seq(X) /\ Len(l) = m /\ \A i \in 1 .. m : l[i] = t[b + i]
  BY <1>1, <1>2
<1> HIDE DEF l
<1>4. s = l <=> \A i \in 1 .. m : s[i] = t[b + i]
  <2>1. s = l => \A i \in 1 .. m : s[i] = t[b + i]
    BY <1>3
  <2>2. ASSUME \A i \in 1 .. m : s[i] = t[b + i] PROVE s = l
    <3>1. Len(s) = Len(l) /\ \A i \in 1 .. Len(s) : s[i] = l[i]
      BY <1>3, <2>2
    <3> QED
      BY <1>3, <3>1, SeqEqual
  <2> QED
    BY <2>1, <2>2
<1>5. (\A i \in 1 .. m : s[i] = t[b + i]) <=> \A k \in 0 .. m - 1 : s[m - k] = t[Len(t) - k]
  <2>1. ASSUME \A i \in 1 .. m : s[i] = t[b + i], NEW k \in 0 .. m - 1
        PROVE  s[m - k] = t[Len(t) - k]
    <3>1. m - k \in 1 .. m /\ b + (m - k) = Len(t) - k
      BY <1>1
    <3> QED
      BY <2>1, <3>1
  <2>2. ASSUME \A k \in 0 .. m - 1 : s[m - k] = t[Len(t) - k], NEW i \in 1 .. m
        PROVE  s[i] = t[b + i]
    <3>1. m - i \in 0 .. m - 1 /\ m - (m - i) = i /\ Len(t) - (m - i) = b + i
      BY <1>1
    <3> QED
      BY <2>2, <3>1
  <2> QED
    BY <2>1, <2>2
<1> QED
  BY <1>4, <1>5 DEF EndsWith, l

(* Lists can be unified if and only if of any two, one ends with the other.   *)
(* The longest of them then ends with all of them.                            *)
LEMMA UnifiedIffCompatible ==
    ASSUME NEW X, NEW lists \in Seq(Seq(X)), lists # <<>>
    PROVE  /\ Unifiable(lists) <=>
                  \A i, j \in DOMAIN lists :
                      IsSuffix(lists[i], lists[j]) \/ IsSuffix(lists[j], lists[i])
           /\ Unifiable(lists) => \A i \in DOMAIN lists : IsSuffix(lists[i], Longest(lists))
<1>1. PICK n \in DOMAIN lists :
          /\ Longest(lists) = lists[n]
          /\ \A j \in DOMAIN lists : Len(lists[j]) <= Len(lists[n])
  BY LongestIsOne
<1>2. \A i \in DOMAIN lists : lists[i] \in Seq(X) /\ Len(lists[i]) \in Nat
  OBVIOUS
<1>3. \A i, j \in DOMAIN lists : IsSuffix(lists[i], lists[j]) <=> EndsWith(lists[j], lists[i])
  BY <1>2, SuffixEnds
<1>4. Unifiable(lists) <=> \A i \in DOMAIN lists : EndsWith(lists[n], lists[i])
  BY <1>1, <1>2, LastEnds DEF Unifiable
<1>5. ASSUME Unifiable(lists), NEW i \in DOMAIN lists, NEW j \in DOMAIN lists,
             Len(lists[i]) <= Len(lists[j])
      PROVE  EndsWith(lists[j], lists[i])
  <2>1. EndsWith(lists[n], lists[i]) /\ EndsWith(lists[n], lists[j])
    BY <1>4, <1>5
  <2> SUFFICES ASSUME NEW k \in 0 .. Len(lists[i]) - 1
               PROVE  lists[i][Len(lists[i]) - k] = lists[j][Len(lists[j]) - k]
    BY <1>5 DEF EndsWith
  <2>2. k \in 0 .. Len(lists[j]) - 1
    BY <1>2, <1>5
  <2> QED
    BY <2>1, <2>2 DEF EndsWith
<1>6. ASSUME NEW i \in DOMAIN lists, EndsWith(lists[i], lists[n])
      PROVE  EndsWith(lists[n], lists[i])
  <2>1. Len(lists[i]) = Len(lists[n])
    BY <1>1, <1>2, <1>6 DEF EndsWith
  <2> QED
    BY <1>6, <2>1 DEF EndsWith
<1>7. Unifiable(lists) => \A i, j \in DOMAIN lists :
          EndsWith(lists[j], lists[i]) \/ EndsWith(lists[i], lists[j])
  BY <1>2, <1>5
<1>8. (\A i, j \in DOMAIN lists : EndsWith(lists[j], lists[i]) \/ EndsWith(lists[i], lists[j]))
      => Unifiable(lists)
  BY <1>4, <1>6
<1> QED
  BY <1>1, <1>3, <1>4, <1>7, <1>8

-----------------------------------------------------------------------------
(* The inductive invariant: what the calls that have parsed the files found. *)

Arguments == [files : Lists(MaxFiles), filter : Filters, overrides : Overrides, repo : Repos]

Inv ==
    /\ sources \in Arguments
    /\ Parsed => parsed \in ParseSourceFiles(sources.files)
    /\ outcome \in {"locked", "skipped", "relocked"} => CanUnify(parsed)
    /\ outcome = "ChannelAggregationError" => ~CanUnify(parsed)

LEMMA ListsAreLists ==
    ASSUME NEW files \in Lists(MaxFiles)
    PROVE  /\ files \in Seq(Files) /\ files # <<>>
           /\ Reverse(files) \in Lists(MaxFiles)
           /\ \A i \in DOMAIN files, f \in Files : [files EXCEPT ![i] = f] \in Lists(MaxFiles)
<1>1. PICK m \in 1 .. MaxFiles : files \in [1 .. m -> Files]
  BY DEF Lists
<1>2. MaxFiles \in Nat /\ m \in Nat /\ m # 0
  BY LockSpecAssumption, <1>1
<1>3. \A g \in [1 .. m -> Files] : g \in Lists(MaxFiles)
  BY <1>1 DEF Lists
<1>4. files \in Seq(Files) /\ Len(files) = m /\ DOMAIN files = 1 .. m
  BY <1>1, <1>2
<1>5. Reverse(files) \in [1 .. m -> Files]
  <2>1. \A i \in 1 .. m : (m - i) + 1 \in 1 .. m
    BY <1>2
  <2> QED
    BY <1>1, <1>4, <2>1 DEF Reverse
<1>6. \A i \in DOMAIN files, f \in Files : [files EXCEPT ![i] = f] \in [1 .. m -> Files]
  BY <1>1
<1>7. files # <<>>
  BY <1>2, <1>4
<1> QED
  BY <1>3, <1>4, <1>5, <1>6, <1>7

LEMMA InitInv == ASSUME Init PROVE Inv
BY DEF Init, Inv, Arguments, Parsed

LEMMA EditKept == ASSUME Inv, Edit PROVE sources' \in Arguments
<1>1. sources \in Arguments /\ sources.files \in Lists(MaxFiles)
  BY DEF Inv, Arguments
<1>2. CASE \E i \in DOMAIN sources.files, f \in Files : sources' = [sources EXCEPT !.files[i] = f]
  <2>1. PICK i \in DOMAIN sources.files, f \in Files : sources' = [sources EXCEPT !.files[i] = f]
    BY <1>2
  <2>2. sources' = [sources EXCEPT !.files = [sources.files EXCEPT ![i] = f]]
    BY <1>1, <2>1 DEF Arguments
  <2>3. [sources.files EXCEPT ![i] = f] \in Lists(MaxFiles)
    BY <1>1, <2>1, ListsAreLists
  <2> QED
    BY <1>1, <2>2, <2>3 DEF Arguments
<1>3. CASE sources' = [sources EXCEPT !.files = Reverse(@)]
  <2>1. Reverse(sources.files) \in Lists(MaxFiles)
    BY <1>1, ListsAreLists
  <2> QED
    BY <1>1, <1>3, <2>1 DEF Arguments
<1>4. CASE \/ \E f \in Filters   : sources' = [sources EXCEPT !.filter = f]
           \/ \E o \in Overrides : sources' = [sources EXCEPT !.overrides = o]
           \/ \E r \in Repos     : sources' = [sources EXCEPT !.repo = r]
  BY <1>1, <1>4 DEF Arguments
<1> QED
  BY <1>2, <1>3, <1>4 DEF Edit

LEMMA NextInv == ASSUME Inv, [Next]_vars PROVE Inv'
<1>1. ASSUME NEW reinsert \in BOOLEAN, NEW removeNulls \in BOOLEAN, Lock(reinsert, removeNulls)
      PROVE  Inv'
  BY <1>1 DEF Inv, Lock, Parsed
<1>2. CASE ParserRaises
  BY <1>2 DEF Inv, ParserRaises, Parsed
<1>3. CASE Refuse
  BY <1>3 DEF Inv, Refuse, Parsed
<1>4. CASE Edit
  <2>1. sources' \in Arguments
    BY <1>4, EditKept
  <2>2. outcome' = "edited"
    BY <1>4 DEF Edit
  <2> QED
    BY <2>1, <2>2 DEF Inv, Parsed
<1>5. CASE Check
  BY <1>5 DEF Inv, Check, Parsed
<1>6. CASE UNCHANGED vars
  BY <1>6 DEF Inv, vars, Parsed, Arguments
<1> QED
  BY <1>1, <1>2, <1>3, <1>4, <1>5, <1>6 DEF Next

(* Whatever has been parsed comes from the files as they are, and was unified *)
(* unless it was refused.                                                     *)
THEOREM InvHolds == Spec => []Inv
<1>1. Init => Inv
  BY InitInv
<1>2. Inv /\ [Next]_vars => Inv'
  BY NextInv
<1> QED
  BY <1>1, <1>2, PTL DEF Spec

-----------------------------------------------------------------------------
(* Channels and pip repositories. *)

LEMMA FileChannels ==
    ASSUME NEW f \in Files
    PROVE  /\ Channels(f) \in Seq(STRING)
           /\ f.repositories \in Seq(STRING)
           /\ \A c \in Parses(f) : c.channels = Channels(f) /\ c.repositories = f.repositories
<1>1. f.channels \in Seq(STRING) /\ f.repositories \in Seq(STRING)
  BY LockSpecAssumption DEF IsFile
<1>2. Channels(f) \in Seq(STRING)
  BY <1>1, RemovedFirst DEF Channels
<1>3. \A c \in Parses(f) : c.channels = Channels(f) /\ c.repositories = f.repositories
  BY DEF Parses
<1> QED
  BY <1>1, <1>2, <1>3

LEMMA ParsedOf ==
    ASSUME NEW files \in Lists(MaxFiles), NEW contents \in ParseSourceFiles(files)
    PROVE  /\ DOMAIN contents = DOMAIN files
           /\ contents = [i \in DOMAIN files |-> contents[i]]
           /\ \A i \in DOMAIN files : files[i] \in Files /\ contents[i] \in Parses(files[i])
           /\ ChannelsOf(contents) = [i \in DOMAIN files |-> Channels(files[i])]
           /\ ChannelsOf(contents) \in Seq(Seq(STRING)) /\ ChannelsOf(contents) # <<>>
           /\ RepositoriesOf(contents) = [i \in DOMAIN files |-> files[i].repositories]
           /\ RepositoriesOf(contents) \in Seq(Seq(STRING)) /\ RepositoriesOf(contents) # <<>>
<1>1. files \in Seq(Files) /\ files # <<>>
  BY ListsAreLists
<1>2. /\ DOMAIN contents = DOMAIN files /\ contents = [i \in DOMAIN files |-> contents[i]]
      /\ \A i \in DOMAIN files : contents[i] \in Parses(files[i])
  BY DEF ParseSourceFiles
<1>3. \A i \in DOMAIN files : files[i] \in Files
  BY <1>1
<1>4. \A i \in DOMAIN files :
          /\ contents[i].channels = Channels(files[i]) /\ Channels(files[i]) \in Seq(STRING)
          /\ contents[i].repositories = files[i].repositories /\ files[i].repositories \in Seq(STRING)
  BY <1>2, <1>3, FileChannels
<1>5. ChannelsOf(contents) = [i \in DOMAIN files |-> Channels(files[i])]
  BY <1>2, <1>4 DEF ChannelsOf
<1>6. DOMAIN files = 1 .. Len(files) /\ Len(files) \in Nat /\ Len(files) # 0
  BY <1>1
<1>7. ChannelsOf(contents) \in [1 .. Len(files) -> Seq(STRING)]
  BY <1>4, <1>5, <1>6
<1>8. ChannelsOf(contents) \in Seq(Seq(STRING)) /\ Len(ChannelsOf(contents)) = Len(files)
  BY <1>6, <1>7
<1>9. RepositoriesOf(contents) = [i \in DOMAIN files |-> files[i].repositories]
  BY <1>2, <1>4 DEF RepositoriesOf
<1>10. RepositoriesOf(contents) \in [1 .. Len(files) -> Seq(STRING)]
  BY <1>4, <1>6, <1>9
<1>11. RepositoriesOf(contents) \in Seq(Seq(STRING)) /\ Len(RepositoriesOf(contents)) = Len(files)
  BY <1>6, <1>10
<1>12. ChannelsOf(contents) # <<>> /\ RepositoriesOf(contents) # <<>>
  BY <1>6, <1>8, <1>11
<1> QED
  BY <1>2, <1>3, <1>5, <1>8, <1>9, <1>11, <1>12

(* Lists of which each is compatible with each other, as two files' are. *)
Compatible(lists) ==
    \A i, j \in DOMAIN lists : IsSuffix(lists[i], lists[j]) \/ IsSuffix(lists[j], lists[i])

LEMMA UnifiedInInv == ASSUME Inv PROVE SourcesUnified
<1> DEFINE channels == [i \in DOMAIN sources.files |-> Channels(sources.files[i])]
           repos    == [i \in DOMAIN sources.files |-> sources.files[i].repositories]
           spec     == MakeLockSpec(sources, parsed)
<1>1. sources.files \in Lists(MaxFiles)
  BY DEF Inv, Arguments
<1>2. ASSUME Parsed
      PROVE  /\ ChannelsOf(parsed) = channels /\ RepositoriesOf(parsed) = repos
             /\ Unifiable(channels) <=> Compatible(channels)
             /\ Unifiable(channels) => \A i \in DOMAIN channels : IsSuffix(channels[i], Longest(channels))
             /\ Unifiable(repos) <=> Compatible(repos)
             /\ Unifiable(repos) => \A i \in DOMAIN repos : IsSuffix(repos[i], Longest(repos))
  <2>1. parsed \in ParseSourceFiles(sources.files)
    BY <1>2 DEF Inv
  <2>2. ChannelsOf(parsed) = channels /\ channels \in Seq(Seq(STRING)) /\ channels # <<>>
    BY <1>1, <2>1, ParsedOf
  <2>3. RepositoriesOf(parsed) = repos /\ repos \in Seq(Seq(STRING)) /\ repos # <<>>
    BY <1>1, <2>1, ParsedOf
  <2> HIDE DEF channels, repos
  <2>4. /\ Unifiable(channels) <=> Compatible(channels)
        /\ Unifiable(channels) => \A i \in DOMAIN channels : IsSuffix(channels[i], Longest(channels))
    BY <2>2, UnifiedIffCompatible DEF Compatible
  <2>5. /\ Unifiable(repos) <=> Compatible(repos)
        /\ Unifiable(repos) => \A i \in DOMAIN repos : IsSuffix(repos[i], Longest(repos))
    BY <2>3, UnifiedIffCompatible DEF Compatible
  <2> QED
    BY <2>2, <2>3, <2>4, <2>5
<1>3. DOMAIN channels = DOMAIN repos
  OBVIOUS
<1>4. /\ Parsed /\ sources.overrides = <<>> => spec.channels = Longest(ChannelsOf(parsed))
      /\ Parsed => spec.repositories = Longest(RepositoriesOf(parsed))
  BY DEF MakeLockSpec
<1> HIDE DEF channels, repos, spec
<1>5. outcome = "ChannelAggregationError" => ~(Compatible(channels) /\ Compatible(repos))
  BY <1>2 DEF Inv, Parsed, CanUnify
<1>6. ASSUME outcome \in {"locked", "skipped", "relocked"}
      PROVE  /\ Compatible(channels) /\ Compatible(repos)
             /\ \A i \in DOMAIN repos :
                    /\ sources.overrides = <<>> => IsSuffix(channels[i], spec.channels)
                    /\ IsSuffix(repos[i], spec.repositories)
  <2>1. Parsed /\ CanUnify(parsed)
    BY <1>6 DEF Inv, Parsed
  <2>2. /\ Compatible(channels) /\ \A i \in DOMAIN channels : IsSuffix(channels[i], Longest(channels))
        /\ Compatible(repos) /\ \A i \in DOMAIN repos : IsSuffix(repos[i], Longest(repos))
    BY <1>2, <2>1 DEF CanUnify
  <2>3. /\ sources.overrides = <<>> => spec.channels = Longest(channels)
        /\ spec.repositories = Longest(repos)
    BY <1>2, <1>4, <2>1
  <2> QED
    BY <1>3, <2>2, <2>3
<1> QED
  BY <1>5, <1>6 DEF SourcesUnified, Compatible, channels, repos, spec

(* The files are refused if and only if two of them disagree on the priority  *)
(* of a channel or of a pip repository, in whatever order they come, and what *)
(* is locked keeps every file's priorities.                                   *)
THEOREM UnifiesSources == Spec => []SourcesUnified
<1>1. Inv => SourcesUnified
  BY UnifiedInInv
<1> QED
  BY <1>1, InvHolds, PTL

-----------------------------------------------------------------------------
(* What the parsers make of the lines of a file. *)

(* No prover knows of the two that they are strings. *)
Category == STRING \union {"main", "dev"}

Dependency == [key : {Conda, Pip} \X Nat, category : Category, version : Nat, markers : Places]

AnyLine == Lines(Forms, Places, Places)

LEMMA Names ==
    /\ \A n \in DOMAIN CondaName : n \in Nat /\ CondaName[n] \in Nat
    /\ PipName \in DOMAIN CondaName
    /\ None # "elsewhere"
BY LockSpecAssumption

LEMMA OneOfLines ==
    /\ CondaLine \subseteq AnyLine /\ OwnLine \subseteq AnyLine /\ TomlLine \subseteq AnyLine
    /\ \A e \in AnyLine : e.name \in Nat /\ CondaName[e.name] \in Nat /\ e.version \in Nat
                          /\ e.marker \in Places
    /\ \A e \in CondaLine : e.marker = None /\ e.form = "version"
    /\ \A e \in OwnLine : e.marker = None /\ e.form = "version" /\ e.selector = None
    /\ \A e \in TomlLine : e.selector = None /\ e.form # "editable"
<1>1. /\ CondaLine \subseteq AnyLine /\ OwnLine \subseteq AnyLine /\ TomlLine \subseteq AnyLine
  BY DEF CondaLine, OwnLine, TomlLine, AnyLine, Lines, Forms, Places
<1>2. \A e \in AnyLine : e.name \in Nat /\ CondaName[e.name] \in Nat /\ e.version \in Nat
                         /\ e.marker \in Places
  BY Names DEF AnyLine, Lines
<1>3. /\ \A e \in CondaLine : e.marker = None /\ e.form = "version"
      /\ \A e \in OwnLine : e.marker = None /\ e.form = "version" /\ e.selector = None
      /\ \A e \in TomlLine : e.selector = None /\ e.form # "editable"
  BY DEF CondaLine, OwnLine, TomlLine, Lines
<1> QED
  BY <1>1, <1>2, <1>3

LEMMA SeqOfMore ==
    ASSUME NEW X, NEW Y, X \subseteq Y
    PROVE  Seq(X) \subseteq Seq(Y)
<1> SUFFICES ASSUME NEW s \in Seq(X) PROVE s \in Seq(Y)
  OBVIOUS
<1>1. Len(s) \in Nat /\ s \in [1 .. Len(s) -> Y]
  OBVIOUS
<1> QED
  BY <1>1

LEMMA ToSetIn ==
    ASSUME NEW X, NEW s \in Seq(X)
    PROVE  ToSet(s) \subseteq X
BY DEF ToSet

LEMMA ToSetOfBoth ==
    ASSUME NEW X, NEW a \in Seq(X), NEW b \in Seq(X)
    PROVE  a \o b \in Seq(X) /\ ToSet(a \o b) = ToSet(a) \union ToSet(b)
<1>1. \A x \in ToSet(a \o b) : x \in ToSet(a) \/ x \in ToSet(b)
  BY DEF ToSet
<1>2. \A i \in DOMAIN a : i \in DOMAIN (a \o b) /\ (a \o b)[i] = a[i]
  OBVIOUS
<1>3. \A i \in DOMAIN b : Len(a) + i \in DOMAIN (a \o b) /\ (a \o b)[Len(a) + i] = b[i]
  OBVIOUS
<1>4. \A x \in ToSet(a) : x \in ToSet(a \o b)
  BY <1>2 DEF ToSet
<1>5. \A x \in ToSet(b) : x \in ToSet(a \o b)
  BY <1>3 DEF ToSet
<1> QED
  BY <1>1, <1>4, <1>5

LEMMA ToSetOfEmpty == ASSUME NEW X PROVE <<>> \in Seq(X) /\ ToSet(<<>>) = {}
BY DEF ToSet

LEMMA CondaDepsHas ==
    ASSUME NEW entries \in Seq(AnyLine), NEW category \in Category
    PROVE  /\ CondaDeps(entries, category) \in Seq(Dependency)
           /\ ToSet(CondaDeps(entries, category)) = {CondaDep(e, category) : e \in ToSet(entries)}
<1> DEFINE s == CondaDeps(entries, category)
<1>1. DOMAIN s = DOMAIN entries /\ \A i \in DOMAIN entries : s[i] = CondaDep(entries[i], category)
  BY DEF CondaDeps
<1>2. \A e \in AnyLine : CondaDep(e, category) \in Dependency
  BY OneOfLines DEF CondaDep, Dep, Dependency, Conda, Places
<1>3. \A i \in DOMAIN entries : entries[i] \in AnyLine
  OBVIOUS
<1>4. s \in Seq(Dependency)
  <2>1. Len(entries) \in Nat /\ DOMAIN entries = 1 .. Len(entries)
    OBVIOUS
  <2>2. s = [i \in 1 .. Len(entries) |-> s[i]]
    BY <2>1 DEF CondaDeps
  <2>3. \A i \in 1 .. Len(entries) : s[i] \in Dependency
    BY <1>1, <1>2, <1>3, <2>1
  <2> HIDE DEF s
  <2> QED
    BY <2>1, <2>2, <2>3
<1> HIDE DEF s
<1> QED
  BY <1>1, <1>4 DEF ToSet, s

LEMMA PythonDepsHas ==
    ASSUME NEW entries \in Seq(AnyLine), NEW manager \in {Conda, Pip}, NEW category \in Category
    PROVE  /\ PythonDeps(entries, manager, category) \in Seq(Dependency)
           /\ ToSet(PythonDeps(entries, manager, category)) =
                  {PythonDep(e, manager, category) : e \in ToSet(entries)}
<1> DEFINE s == PythonDeps(entries, manager, category)
<1>1. /\ DOMAIN s = DOMAIN entries
      /\ \A i \in DOMAIN entries : s[i] = PythonDep(entries[i], manager, category)
  BY DEF PythonDeps
<1>2. \A e \in AnyLine : PythonDep(e, manager, category) \in Dependency
  BY OneOfLines DEF PythonDep, Translated, Dep, Dependency
<1>3. \A i \in DOMAIN entries : entries[i] \in AnyLine
  OBVIOUS
<1>4. s \in Seq(Dependency)
  <2>1. Len(entries) \in Nat /\ DOMAIN entries = 1 .. Len(entries)
    OBVIOUS
  <2>2. s = [i \in 1 .. Len(entries) |-> s[i]]
    BY <2>1 DEF PythonDeps
  <2>3. \A i \in 1 .. Len(entries) : s[i] \in Dependency
    BY <1>1, <1>2, <1>3, <2>1
  <2> HIDE DEF s
  <2> QED
    BY <2>1, <2>2, <2>3
<1> HIDE DEF s
<1> QED
  BY <1>1, <1>4 DEF ToSet, s

LEMMA KeptHas ==
    ASSUME NEW X, NEW entries \in Seq(X)
    PROVE  /\ Kept(entries) \in Seq(X)
           /\ ToSet(Kept(entries)) = {e \in ToSet(entries) : e.selector # "elsewhere"}
BY FilteredHas DEF Kept

LEMMA EvaluatedHas ==
    ASSUME NEW deps \in Seq(Dependency)
    PROVE  /\ Evaluated(deps) \in Seq(Dependency)
           /\ ToSet(Evaluated(deps)) = {d \in ToSet(deps) : d.markers # "elsewhere"}
BY FilteredHas DEF Evaluated

(* The dependencies of a file are those that it declares (see DeclaredIsThere). *)
Honours(f, deps) ==
    /\ deps \in Seq(Dependency)
    /\ \A r \in Declared(f) :
           AppliesHere(r.entry) => \E d \in ToSet(deps) : StandsFor(f, d, r)
    /\ \A d \in ToSet(deps) \ {PipItself} : \E r \in Declared(f) :
           /\ StandsFor(f, d, r)
           /\ AppliesHere(r.entry) \/ r.entry \in Unmarked(f)

LEMMA PipItselfIsOne == PipItself \in Dependency
BY Names DEF PipItself, Dep, Dependency, Conda, Places, Category

LEMMA EnvironmentHonours ==
    ASSUME NEW f, f.kind = "environment", IsEnvironment(f), NEW deps \in Environment(f)
    PROVE  Honours(f, deps)
<1> DEFINE specs == CondaDeps(Kept(f.specs), f.category)
           kept  == Kept(f.pip)
           pip   == Filtered(kept, {e \in ToSet(f.pip) : e.form # "editable"})
           pips  == Evaluated(PythonDeps(pip, Pip, f.category))
<1>1. f.category \in Category /\ f.specs \in Seq(AnyLine) /\ f.specs \in Seq(CondaLine)
      /\ f.pip \in Seq(AnyLine)
  BY OneOfLines, SeqOfMore DEF IsEnvironment, AnyLine, Category
<1>2. /\ specs \in Seq(Dependency)
      /\ ToSet(specs) = {CondaDep(e, f.category) :
                             e \in {x \in ToSet(f.specs) : x.selector # "elsewhere"}}
  <2>1. /\ Kept(f.specs) \in Seq(AnyLine)
        /\ ToSet(Kept(f.specs)) = {x \in ToSet(f.specs) : x.selector # "elsewhere"}
    BY <1>1, KeptHas
  <2> QED
    BY <1>1, <2>1, CondaDepsHas
<1>3. kept \in Seq(AnyLine) /\ ToSet(kept) = {x \in ToSet(f.pip) : x.selector # "elsewhere"}
  BY <1>1, KeptHas
<1> HIDE DEF kept
<1>4. /\ pip \in Seq(AnyLine)
      /\ ToSet(pip) = {x \in ToSet(f.pip) : x.selector # "elsewhere" /\ x.form # "editable"}
  <2>1. pip \in Seq(AnyLine) /\ ToSet(pip) = ToSet(kept) \intersect {e \in ToSet(f.pip) : e.form # "editable"}
    BY <1>3, FilteredHas
  <2> HIDE DEF pip
  <2> QED
    BY <1>3, <2>1
<1> HIDE DEF pip
<1>5. /\ pips \in Seq(Dependency)
      /\ ToSet(pips) = {d \in {PythonDep(e, Pip, f.category) : e \in ToSet(pip)} : d.markers # "elsewhere"}
  <2>1. /\ PythonDeps(pip, Pip, f.category) \in Seq(Dependency)
        /\ ToSet(PythonDeps(pip, Pip, f.category)) = {PythonDep(e, Pip, f.category) : e \in ToSet(pip)}
    BY <1>1, <1>4, PythonDepsHas
  <2> QED
    BY <2>1, EvaluatedHas
<1>6. \A e : PythonDep(e, Pip, f.category).markers = e.marker
  BY DEF PythonDep, Dep
<1>7. deps = specs \o (IF kept = <<>> THEN <<>> ELSE Append(pips, PipItself))
  BY DEF Environment, kept, pip
<1> HIDE DEF specs, pips
<1>8. /\ deps \in Seq(Dependency)
      /\ ToSet(specs) \subseteq ToSet(deps) /\ ToSet(pips) \subseteq ToSet(deps)
      /\ ToSet(deps) \subseteq ToSet(specs) \union ToSet(pips) \union {PipItself}
  <2>1. CASE kept = <<>>
    <3>1. ToSet(pip) = {}
      BY <1>3, <1>4, <2>1, ToSetOfEmpty
    <3>2. ToSet(pips) = {}
      BY <1>5, <3>1
    <3>3. deps = specs
      BY <1>2, <1>7, <2>1
    <3> QED
      BY <1>2, <3>2, <3>3
  <2>2. CASE kept # <<>>
    <3> DEFINE own  == <<PipItself>>
               both == pips \o own
    <3>1. own \in Seq(Dependency) /\ ToSet(own) = {PipItself}
      BY PipItselfIsOne DEF ToSet
    <3>2. deps = specs \o both
      BY <1>5, <1>7, <2>2, PipItselfIsOne
    <3> HIDE DEF own
    <3>3. both \in Seq(Dependency) /\ ToSet(both) = ToSet(pips) \union {PipItself}
      BY <1>5, <3>1, ToSetOfBoth
    <3> HIDE DEF both
    <3>4. deps \in Seq(Dependency) /\ ToSet(deps) = ToSet(specs) \union ToSet(both)
      BY <1>2, <3>2, <3>3, ToSetOfBoth
    <3> QED
      BY <3>3, <3>4
  <2> QED
    BY <2>1, <2>2
<1>9. Declared(f) = {Requirement(e, {f.category}) : e \in ToSet(f.specs) \union ToSet(f.pip)}
  <2>1. ToSet(f.specs \o f.pip) = ToSet(f.specs) \union ToSet(f.pip)
    BY <1>1, ToSetOfBoth
  <2> QED
    BY <2>1 DEF Declared
<1>10. ASSUME NEW e \in ToSet(f.specs), e.selector # "elsewhere"
       PROVE  /\ CondaDep(e, f.category) \in ToSet(deps)
              /\ StandsFor(f, CondaDep(e, f.category), Requirement(e, {f.category}))
              /\ AppliesHere(e)
  <2>1. e \in CondaLine
    BY <1>1, ToSetIn
  <2>2. e.form = "version" /\ e.marker = None /\ None # "elsewhere"
    BY <2>1, OneOfLines, Names
  <2> QED
    BY <1>2, <1>8, <1>10, <2>2 DEF CondaDep, Dep, StandsFor, Requirement, AppliesHere
<1>11. ASSUME NEW e \in ToSet(f.pip), AppliesHere(e)
       PROVE  /\ PythonDep(e, Pip, f.category) \in ToSet(deps)
              /\ StandsFor(f, PythonDep(e, Pip, f.category), Requirement(e, {f.category}))
  <2>1. e \in ToSet(pip) /\ e.marker # "elsewhere"
    BY <1>4, <1>11 DEF AppliesHere
  <2>2. PythonDep(e, Pip, f.category) \in ToSet(pips)
    BY <1>5, <1>6, <2>1
  <2> QED
    BY <1>8, <2>2 DEF PythonDep, Dep, StandsFor, Requirement, Translated, Conda, Pip
<1>12. ASSUME NEW r \in Declared(f), AppliesHere(r.entry)
       PROVE  \E d \in ToSet(deps) : StandsFor(f, d, r)
  <2>1. PICK e \in ToSet(f.specs) \union ToSet(f.pip) : r = Requirement(e, {f.category})
    BY <1>9
  <2>2. r.entry = e
    BY <2>1 DEF Requirement
  <2> QED
    BY <1>10, <1>11, <1>12, <2>1, <2>2 DEF AppliesHere
<1>13. ASSUME NEW d \in ToSet(deps) \ {PipItself}
       PROVE  \E r \in Declared(f) : StandsFor(f, d, r) /\ AppliesHere(r.entry)
  <2>1. CASE d \in ToSet(specs)
    <3>1. PICK e \in ToSet(f.specs) : e.selector # "elsewhere" /\ d = CondaDep(e, f.category)
      BY <1>2, <2>1
    <3>2. Requirement(e, {f.category}) \in Declared(f) /\ Requirement(e, {f.category}).entry = e
      BY <1>9 DEF Requirement
    <3> QED
      BY <1>10, <3>1, <3>2
  <2>2. CASE d \in ToSet(pips)
    <3>1. PICK e \in ToSet(pip) : d = PythonDep(e, Pip, f.category) /\ e.marker # "elsewhere"
      BY <1>5, <1>6, <2>2
    <3>2. e \in ToSet(f.pip) /\ AppliesHere(e)
      BY <1>4, <3>1 DEF AppliesHere
    <3>3. Requirement(e, {f.category}) \in Declared(f) /\ Requirement(e, {f.category}).entry = e
      BY <1>9, <3>2 DEF Requirement
    <3> QED
      BY <1>11, <3>1, <3>2, <3>3
  <2> QED
    BY <1>8, <1>13, <2>1, <2>2
<1> QED
  BY <1>8, <1>12, <1>13 DEF Honours

(* A function over the positions of a sequence is a sequence. *)
LEMMA SeqOver ==
    ASSUME NEW X, NEW Y, NEW s \in Seq(Y), NEW t \in [DOMAIN s -> X]
    PROVE  t \in Seq(X) /\ DOMAIN t = DOMAIN s
<1>1. Len(s) \in Nat /\ DOMAIN s = 1 .. Len(s)
  OBVIOUS
<1>2. t \in [1 .. Len(s) -> X]
  BY <1>1
<1> QED
  BY <1>1, <1>2

LEMMA MetaHonours ==
    ASSUME NEW f, f.kind = "meta", f.outputs \in Seq([run : Seq(CondaLine), test : Seq(CondaLine)]),
           NEW deps \in Meta(f)
    PROVE  Honours(f, deps)
<1>0. PICK outputs : outputs = f.outputs
  OBVIOUS
<1> DEFINE Output   == [run : Seq(CondaLine), test : Seq(CondaLine)]
           run(p)   == CondaDeps(Kept(p.run), "main")
           test(p)  == CondaDeps(Kept(p.test), "dev")
           parts    == [i \in DOMAIN outputs |-> run(outputs[i]) \o test(outputs[i])]
           there(s) == {e \in ToSet(s) : e.selector # "elsewhere"}
<1>1. ASSUME NEW s \in Seq(CondaLine), NEW category \in {"main", "dev"}
      PROVE  /\ CondaDeps(Kept(s), category) \in Seq(Dependency)
             /\ ToSet(CondaDeps(Kept(s), category)) = {CondaDep(e, category) : e \in there(s)}
  <2>1. s \in Seq(AnyLine)
    BY OneOfLines, SeqOfMore
  <2>2. Kept(s) \in Seq(AnyLine) /\ ToSet(Kept(s)) = there(s)
    BY <2>1, KeptHas
  <2>3. category \in Category
    BY DEF Category
  <2> QED
    BY <2>2, <2>3, CondaDepsHas
<1>2. \A p \in Output :
          /\ run(p) \o test(p) \in Seq(Dependency)
          /\ ToSet(run(p) \o test(p)) = {CondaDep(e, "main") : e \in there(p.run)}
                                        \union {CondaDep(e, "dev") : e \in there(p.test)}
  <2> TAKE p \in Output
  <2>1. /\ run(p) \in Seq(Dependency) /\ ToSet(run(p)) = {CondaDep(e, "main") : e \in there(p.run)}
        /\ test(p) \in Seq(Dependency) /\ ToSet(test(p)) = {CondaDep(e, "dev") : e \in there(p.test)}
    BY <1>1
  <2> HIDE DEF run, test
  <2> QED
    BY <2>1, ToSetOfBoth
<1>3. deps = FlattenSeq(parts)
  BY <1>0 DEF Meta
<1> HIDE DEF run, test
<1>4. /\ outputs \in Seq(Output) /\ \A i \in DOMAIN outputs : outputs[i] \in Output
      /\ \A p \in Output : p.run \in Seq(CondaLine) /\ p.test \in Seq(CondaLine)
  <2>1. outputs \in Seq(Output)
    BY <1>0
  <2>2. \A p \in Output : p.run \in Seq(CondaLine) /\ p.test \in Seq(CondaLine)
    OBVIOUS
  <2> HIDE DEF Output
  <2> QED
    BY <2>1, <2>2
<1> HIDE DEF Output
<1>5. parts \in Seq(Seq(Dependency)) /\ DOMAIN parts = DOMAIN outputs
      /\ \A i \in DOMAIN outputs : parts[i] = run(outputs[i]) \o test(outputs[i])
  <2>1. \A i \in DOMAIN outputs : parts[i] = run(outputs[i]) \o test(outputs[i])
                                    /\ parts[i] \in Seq(Dependency)
    BY <1>2, <1>4
  <2>2. parts = [i \in DOMAIN outputs |-> parts[i]]
    OBVIOUS
  <2> HIDE DEF parts
  <2>3. parts \in [DOMAIN outputs -> Seq(Dependency)]
    BY <2>1, <2>2
  <2> QED
    BY <1>4, <2>1, <2>3, SeqOver
<1> HIDE DEF parts
<1>6. deps \in Seq(Dependency) /\ ToSet(deps) = UNION {ToSet(parts[i]) : i \in DOMAIN outputs}
  BY <1>3, <1>5, Flattened
<1>7. Declared(f) =
          UNION {{Requirement(e, {"main"}) : e \in ToSet(p.run)}
                 \union {Requirement(e, {"dev"}) : e \in ToSet(p.test)} : p \in ToSet(outputs)}
  BY <1>0 DEF Declared
<1>12. \A p \in ToSet(outputs) :
           /\ \A e \in ToSet(p.run) : Requirement(e, {"main"}) \in Declared(f)
           /\ \A e \in ToSet(p.test) : Requirement(e, {"dev"}) \in Declared(f)
  <2> TAKE p \in ToSet(outputs)
  <2> DEFINE own == {Requirement(e, {"main"}) : e \in ToSet(p.run)}
                    \union {Requirement(e, {"dev"}) : e \in ToSet(p.test)}
  <2>1. own \subseteq Declared(f)
    BY <1>7
  <2> QED
    BY <2>1
<1>8. ASSUME NEW e \in CondaLine, e.selector # "elsewhere", NEW category
      PROVE  AppliesHere(e) /\ StandsFor(f, CondaDep(e, category), Requirement(e, {category}))
  BY <1>8, OneOfLines, Names DEF AppliesHere, StandsFor, CondaDep, Dep, Requirement
<1>9. \A e, categories : Requirement(e, categories).entry = e
  BY DEF Requirement
<1>10. ASSUME NEW r \in Declared(f), AppliesHere(r.entry)
       PROVE  \E d \in ToSet(deps) : StandsFor(f, d, r)
  <2>1. PICK p \in ToSet(outputs) : r \in {Requirement(e, {"main"}) : e \in ToSet(p.run)}
                                           \union {Requirement(e, {"dev"}) : e \in ToSet(p.test)}
    BY <1>7
  <2>2. PICK i \in DOMAIN outputs : p = outputs[i]
    BY DEF ToSet
  <2>3. /\ p \in Output /\ ToSet(p.run) \subseteq CondaLine /\ ToSet(p.test) \subseteq CondaLine
        /\ ToSet(parts[i]) = {CondaDep(e, "main") : e \in there(p.run)}
                             \union {CondaDep(e, "dev") : e \in there(p.test)}
        /\ ToSet(parts[i]) \subseteq ToSet(deps)
    <3>1. p \in Output
      BY <1>4, <2>2
    <3>2. ToSet(p.run) \subseteq CondaLine /\ ToSet(p.test) \subseteq CondaLine
      BY <1>4, <3>1, ToSetIn
    <3>3. ToSet(parts[i]) \subseteq ToSet(deps)
      BY <1>6, <2>2
    <3>4. ToSet(parts[i]) = {CondaDep(e, "main") : e \in there(p.run)}
                            \union {CondaDep(e, "dev") : e \in there(p.test)}
      <4>1. parts[i] = run(p) \o test(p)
        BY <1>5, <2>2
      <4>2. ToSet(run(p) \o test(p)) = {CondaDep(e, "main") : e \in there(p.run)}
                                       \union {CondaDep(e, "dev") : e \in there(p.test)}
        BY <1>2, <3>1
      <4> HIDE DEF there
      <4> QED
        BY <4>1, <4>2
    <3> QED
      BY <3>1, <3>2, <3>3, <3>4
  <2>4. CASE r \in {Requirement(e, {"main"}) : e \in ToSet(p.run)}
    <3>1. PICK e \in ToSet(p.run) : r = Requirement(e, {"main"})
      BY <2>4
    <3>2. e \in CondaLine /\ e.selector # "elsewhere"
      BY <1>9, <1>10, <2>3, <3>1 DEF AppliesHere
    <3> QED
      BY <1>8, <2>3, <3>1, <3>2
  <2>5. CASE r \in {Requirement(e, {"dev"}) : e \in ToSet(p.test)}
    <3>1. PICK e \in ToSet(p.test) : r = Requirement(e, {"dev"})
      BY <2>5
    <3>2. e \in CondaLine /\ e.selector # "elsewhere"
      BY <1>9, <1>10, <2>3, <3>1 DEF AppliesHere
    <3> QED
      BY <1>8, <2>3, <3>1, <3>2
  <2> QED
    BY <2>1, <2>4, <2>5
<1>11. ASSUME NEW d \in ToSet(deps)
       PROVE  \E r \in Declared(f) : StandsFor(f, d, r) /\ AppliesHere(r.entry)
  <2>1. PICK i \in DOMAIN outputs : d \in ToSet(parts[i])
    BY <1>6
  <2> DEFINE p == outputs[i]
  <2>2. /\ p \in Output /\ ToSet(p.run) \subseteq CondaLine /\ ToSet(p.test) \subseteq CondaLine
        /\ p \in ToSet(outputs)
        /\ ToSet(parts[i]) = {CondaDep(e, "main") : e \in there(p.run)}
                             \union {CondaDep(e, "dev") : e \in there(p.test)}
    <3>1. p \in Output /\ p \in ToSet(outputs)
      BY <1>4 DEF ToSet
    <3> QED
      BY <1>2, <1>4, <1>5, <3>1, ToSetIn
  <2> HIDE DEF p
  <2>3. CASE d \in {CondaDep(e, "main") : e \in there(p.run)}
    <3>1. PICK e \in there(p.run) : d = CondaDep(e, "main")
      BY <2>3
    <3>2. Requirement(e, {"main"}) \in Declared(f)
      BY <1>12, <2>2, <3>1
    <3> QED
      BY <1>8, <1>9, <2>2, <3>1, <3>2
  <2>4. CASE d \in {CondaDep(e, "dev") : e \in there(p.test)}
    <3>1. PICK e \in there(p.test) : d = CondaDep(e, "dev")
      BY <2>4
    <3>2. Requirement(e, {"dev"}) \in Declared(f)
      BY <1>12, <2>2, <3>1
    <3> QED
      BY <1>8, <1>9, <2>2, <3>1, <3>2
  <2> QED
    BY <2>1, <2>2, <2>3, <2>4
<1> QED
  BY <1>6, <1>10, <1>11 DEF Honours

-----------------------------------------------------------------------------
(* pyproject.toml: deps is what the requirements R of its sections are read   *)
(* as, before any marker is evaluated.                                        *)

Reads(f, deps, R) ==
    /\ deps \in Seq(Dependency)
    /\ \A r \in R : /\ r.entry.selector = None /\ r.entry.form # "editable"
                    /\ \E d \in ToSet(deps) : d.markers = r.entry.marker /\ StandsFor(f, d, r)
    /\ \A d \in ToSet(deps) : \E r \in R : d.markers = r.entry.marker /\ StandsFor(f, d, r)

Own(f) == {Requirement(e, {"main"}) : e \in ToSet(f.own)}

(* The dependencies are those of the requirements that apply. *)
Answers(f, deps, R) ==
    /\ deps \in Seq(Dependency)
    /\ \A r \in R : AppliesHere(r.entry) => \E d \in ToSet(deps) : StandsFor(f, d, r)
    /\ \A d \in ToSet(deps) : \E r \in R : StandsFor(f, d, r) /\ AppliesHere(r.entry)

LEMMA ReadBoth ==
    ASSUME NEW f, NEW a, NEW b, NEW A, NEW B, Reads(f, a, A), Reads(f, b, B)
    PROVE  Reads(f, a \o b, A \union B)
<1>1. a \in Seq(Dependency) /\ b \in Seq(Dependency)
  BY DEF Reads
<1>2. a \o b \in Seq(Dependency) /\ ToSet(a \o b) = ToSet(a) \union ToSet(b)
  BY <1>1, ToSetOfBoth
<1> DEFINE c == a \o b
<1> HIDE DEF c
<1> QED
  BY <1>2 DEF Reads, c

LEMMA OwnRead ==
    ASSUME NEW f, IsPyproject(f)
    PROVE  Reads(f, CondaDeps(f.own, "main"), Own(f))
<1>1. f.own \in Seq(OwnLine)
  BY DEF IsPyproject
<1>2. f.own \in Seq(AnyLine) /\ ToSet(f.own) \subseteq OwnLine
  BY <1>1, OneOfLines, SeqOfMore, ToSetIn
<1>3. "main" \in Category
  BY DEF Category
<1> DEFINE c == CondaDeps(f.own, "main")
<1>4. c \in Seq(Dependency) /\ ToSet(c) = {CondaDep(e, "main") : e \in ToSet(f.own)}
  BY <1>2, <1>3, CondaDepsHas
<1> HIDE DEF c
<1>5. ASSUME NEW e \in OwnLine
      PROVE  /\ CondaDep(e, "main").markers = e.marker
             /\ StandsFor(f, CondaDep(e, "main"), Requirement(e, {"main"}))
             /\ Requirement(e, {"main"}).entry = e
             /\ e.selector = None /\ e.form # "editable"
  BY OneOfLines DEF CondaDep, Dep, StandsFor, Requirement
<1> QED
  BY <1>2, <1>4, <1>5 DEF Reads, Own, c

(* Nothing but the manager of a dependency is changed when it is finished. *)
LEMMA FinishedAnswers ==
    ASSUME NEW f, IsPyproject(f), NEW deps, NEW R, Reads(f, deps, R)
    PROVE  Answers(f, Finished(f, deps), R \union Own(f))
<1> DEFINE all    == deps \o CondaDeps(f.own, "main")
           forced == [i \in DOMAIN all |->
                         IF all[i].key[2] \in f.forced THEN [all[i] EXCEPT !.key[1] = Pip] ELSE all[i]]
<1>1. Reads(f, all, R \union Own(f))
  BY OwnRead, ReadBoth
<1>2. Finished(f, deps) = Evaluated(forced)
  BY DEF Finished
<1> HIDE DEF all
<1>3. all \in Seq(Dependency) /\ \A i \in DOMAIN all : all[i] \in Dependency
  BY <1>1 DEF Reads
<1>4. ASSUME NEW d \in Dependency, NEW x, x = [d EXCEPT !.key[1] = Pip] \/ x = d
      PROVE  /\ x \in Dependency /\ x.markers = d.markers
             /\ \A r : StandsFor(f, x, r) <=> StandsFor(f, d, r)
  <2>1. PICK m \in {Conda, Pip}, n \in Nat : d.key = <<m, n>>
    BY DEF Dependency
  <2>2. CASE x = [d EXCEPT !.key[1] = Pip]
    <3>1. x = [d EXCEPT !.key = <<Pip, n>>]
      BY <2>1, <2>2 DEF Dependency
    <3> QED
      BY <2>1, <3>1 DEF Dependency, StandsFor
  <2> QED
    BY <1>4, <2>2
<1>5. /\ forced \in Seq(Dependency) /\ DOMAIN forced = DOMAIN all
      /\ \A i \in DOMAIN all : forced[i].markers = all[i].markers
                               /\ \A r : StandsFor(f, forced[i], r) <=> StandsFor(f, all[i], r)
  <2>1. \A i \in DOMAIN all : forced[i] = [all[i] EXCEPT !.key[1] = Pip] \/ forced[i] = all[i]
    OBVIOUS
  <2>2. forced = [i \in DOMAIN all |-> forced[i]]
    OBVIOUS
  <2> HIDE DEF forced
  <2>3. \A i \in DOMAIN all :
            /\ forced[i] \in Dependency /\ forced[i].markers = all[i].markers
            /\ \A r : StandsFor(f, forced[i], r) <=> StandsFor(f, all[i], r)
    BY <1>3, <1>4, <2>1
  <2>4. forced \in [DOMAIN all -> Dependency]
    BY <2>2, <2>3
  <2> QED
    BY <1>3, <2>3, <2>4, SeqOver
<1> HIDE DEF forced
<1>6. /\ Evaluated(forced) \in Seq(Dependency)
      /\ ToSet(Evaluated(forced)) = {d \in ToSet(forced) : d.markers # "elsewhere"}
  BY <1>5, EvaluatedHas
<1>7. ASSUME NEW r \in R \union Own(f), AppliesHere(r.entry)
      PROVE  \E d \in ToSet(Evaluated(forced)) : StandsFor(f, d, r)
  <2>1. PICK d \in ToSet(all) : d.markers = r.entry.marker /\ StandsFor(f, d, r)
    BY <1>1 DEF Reads
  <2>2. PICK i \in DOMAIN all : d = all[i]
    BY DEF ToSet
  <2>3. forced[i] \in ToSet(forced)
    BY <1>5 DEF ToSet
  <2>4. forced[i].markers # "elsewhere"
    BY <1>5, <1>7, <2>1, <2>2 DEF AppliesHere
  <2> QED
    BY <1>5, <1>6, <2>1, <2>2, <2>3, <2>4
<1>8. ASSUME NEW d \in ToSet(Evaluated(forced))
      PROVE  \E r \in R \union Own(f) : StandsFor(f, d, r) /\ AppliesHere(r.entry)
  <2>1. d \in ToSet(forced) /\ d.markers # "elsewhere"
    BY <1>6
  <2>2. PICK i \in DOMAIN all : d = forced[i]
    BY <1>5, <2>1 DEF ToSet
  <2>3. all[i] \in ToSet(all)
    BY DEF ToSet
  <2>4. PICK r \in R \union Own(f) : all[i].markers = r.entry.marker /\ StandsFor(f, all[i], r)
    BY <1>1, <2>3 DEF Reads
  <2>5. r.entry.selector = None /\ r.entry.form # "editable"
    BY <1>1 DEF Reads
  <2> QED
    BY <1>5, <2>1, <2>2, <2>4, <2>5, Names DEF AppliesHere
<1> QED
  BY <1>2, <1>6, <1>7, <1>8 DEF Answers

Sections(f) == UNION {InSection(f, s) : s \in ToSet(PoetrySections(f))}

LEMMA AnswersIsHonours ==
    ASSUME NEW f, f.kind = "pyproject", NEW deps,
           Answers(f, deps, (IF f.skip THEN {} ELSE Sections(f)) \union Own(f))
    PROVE  Honours(f, deps)
<1>1. Declared(f) = (IF f.skip THEN {} ELSE Sections(f)) \union Own(f)
  BY DEF Declared, Sections, Own
<1> QED
  BY <1>1 DEF Answers, Honours

(* Sections that are read one after the other. *)
LEMMA ReadAll ==
    ASSUME NEW f, NEW n \in Nat, NEW parts \in [1 .. n -> Seq(Dependency)],
           NEW R, \A i \in 1 .. n : Reads(f, parts[i], R[i]),
           NEW all, \A r \in all : \E i \in 1 .. n : r \in R[i],
           \A i \in 1 .. n : R[i] \subseteq all
    PROVE  Reads(f, FlattenSeq(parts), all)
<1>1. \A i \in 1 .. n : parts[i] \in Seq(Dependency)
  OBVIOUS
<1>2. parts \in Seq(Seq(Dependency)) /\ DOMAIN parts = 1 .. n
  OBVIOUS
<1>3. /\ FlattenSeq(parts) \in Seq(Dependency)
      /\ ToSet(FlattenSeq(parts)) = UNION {ToSet(parts[i]) : i \in 1 .. n}
  BY <1>2, Flattened
<1> DEFINE deps == FlattenSeq(parts)
<1>4. ASSUME NEW r \in all
      PROVE  /\ r.entry.selector = None /\ r.entry.form # "editable"
             /\ \E d \in ToSet(deps) : d.markers = r.entry.marker /\ StandsFor(f, d, r)
  <2>1. PICK i \in 1 .. n : r \in R[i]
    OBVIOUS
  <2>2. /\ r.entry.selector = None /\ r.entry.form # "editable"
        /\ \E d \in ToSet(parts[i]) : d.markers = r.entry.marker /\ StandsFor(f, d, r)
    BY <2>1 DEF Reads
  <2> QED
    BY <1>3, <2>2
<1>5. ASSUME NEW d \in ToSet(deps)
      PROVE  \E r \in all : d.markers = r.entry.marker /\ StandsFor(f, d, r)
  <2>1. PICK i \in 1 .. n : d \in ToSet(parts[i])
    BY <1>3
  <2>2. PICK r \in R[i] : d.markers = r.entry.marker /\ StandsFor(f, d, r)
    BY <2>1 DEF Reads
  <2> QED
    BY <2>2
<1> HIDE DEF deps
<1> QED
  BY <1>3, <1>4, <1>5 DEF Reads, deps

LEMMA LastIndex ==
    ASSUME NEW n \in Nat, NEW S \in SUBSET (1 .. n), S # {}
    PROVE  \E i \in S : \A j \in S : j <= i
<1> DEFINE T == {n - i : i \in S}
<1>1. T \in SUBSET Nat /\ T # {}
  <2>1. \A i \in S : n - i \in Nat
    OBVIOUS
  <2>2. PICK i \in S : TRUE
    OBVIOUS
  <2>3. n - i \in T
    BY <2>2
  <2> QED
    BY <2>1, <2>3
<1>2. PICK x \in T : \A y \in T : x <= y
  <2> HIDE DEF T
  <2> QED
    BY <1>1, LeastNumber
<1>3. PICK i \in S : x = n - i
  <2>1. x \in {n - i : i \in S}
    BY <1>2
  <2> QED
    BY <2>1, Zenon
<1>4. \A j \in S : n - i <= n - j
  BY <1>2, <1>3
<1>5. ASSUME NEW j \in S PROVE j <= i
  <2>1. n - i <= n - j /\ i \in Int /\ j \in Int
    BY <1>4
  <2> QED
    BY <2>1
<1> QED
  BY <1>5

LEMMA PythonDepIsOne ==
    ASSUME NEW e \in AnyLine, NEW manager \in {Conda, Pip}, NEW category \in Category
    PROVE  /\ PythonDep(e, manager, category) \in Dependency
           /\ PythonDep(e, manager, category).markers = e.marker
           /\ PythonDep(e, manager, category).version = e.version
           /\ PythonDep(e, manager, category).category = category
           /\ PythonDep(e, manager, category).key[2] \in {e.name, CondaName[e.name]}
BY OneOfLines DEF PythonDep, Translated, Dep, Dependency

(* The names of sections and extras are categories. *)
Section == [name : Category, entries : Seq(TomlLine)]

LEMMA PoetrySectionRead ==
    ASSUME NEW f, f.kind = "pyproject", f.layout = "poetry", IsPyproject(f), NEW s \in Section,
           NEW part, part = [j \in DOMAIN s.entries |-> PoetryDep(f, s.entries[j], s.name)]
    PROVE  Reads(f, part, InSection(f, s))
<1>1. /\ s.name \in Category /\ s.entries \in Seq(TomlLine) /\ f.nonConda \in {Conda, Pip}
      /\ f.extras \in Seq([name : STRING, names : SUBSET DOMAIN CondaName])
  BY DEF Section, IsPyproject
<1>2. ASSUME NEW e \in TomlLine
      PROVE  /\ PoetryManager(f, e) \in {Conda, Pip}
             /\ PoetryCategory(f, e, s.name) \in Category
             /\ PoetryCategory(f, e, s.name) \in
                    IF ExtrasOf(f, e.name) = {} THEN {s.name}
                    ELSE {f.extras[i].name : i \in ExtrasOf(f, e.name)}
  <2>1. PoetryManager(f, e) \in {Conda, Pip}
    BY <1>1 DEF PoetryManager
  <2>2. CASE ExtrasOf(f, e.name) = {}
    BY <1>1, <2>1, <2>2 DEF PoetryCategory
  <2>3. CASE ExtrasOf(f, e.name) # {}
    <3> DEFINE S == ExtrasOf(f, e.name)
               k == CHOOSE i \in S : \A j \in S : j <= i
    <3>1. S \in SUBSET DOMAIN f.extras /\ Len(f.extras) \in Nat /\ DOMAIN f.extras = 1 .. Len(f.extras)
      BY <1>1 DEF ExtrasOf
    <3>2. PoetryCategory(f, e, s.name) = f.extras[k].name
      BY <2>3 DEF PoetryCategory
    <3> HIDE DEF S
    <3>3. k \in S
      BY <2>3, <3>1, LastIndex DEF S
    <3> HIDE DEF k
    <3>4. f.extras[k].name \in Category
      <4> DEFINE extras == f.extras
                 Extra  == [name : STRING, names : SUBSET DOMAIN CondaName]
      <4>1. extras \in Seq(Extra) /\ k \in DOMAIN extras
        BY <1>1, <3>1, <3>3
      <4> HIDE DEF extras, Extra
      <4>2. extras[k] \in Extra
        BY <4>1
      <4> QED
        BY <4>2 DEF Category, extras, Extra
    <3> QED
      BY <2>1, <2>3, <3>2, <3>3, <3>4 DEF S
  <2> QED
    BY <2>2, <2>3
<1> DEFINE category(e) == IF e.form \in {"vcs", "path"} THEN "main" ELSE PoetryCategory(f, e, s.name)
           names(e) == IF ExtrasOf(f, e.name) = {} THEN {s.name}
                       ELSE {f.extras[i].name : i \in ExtrasOf(f, e.name)}
<1>3. ASSUME NEW e \in TomlLine
      PROVE  /\ PoetryDep(f, e, s.name) \in Dependency
             /\ PoetryDep(f, e, s.name).markers = e.marker
             /\ StandsFor(f, PoetryDep(f, e, s.name), Requirement(e, names(e)))
  <2>1. e \in AnyLine
    BY OneOfLines
  <2>2. category(e) \in Category
    BY <1>2 DEF Category
  <2>3. category(e) \in names(e) \/ (e.form \in {"vcs", "path"} /\ category(e) = "main")
    BY <1>2
  <2> HIDE DEF names, category
  <2>4. PoetryDep(f, e, s.name) = PythonDep(e, PoetryManager(f, e), category(e))
    BY DEF PoetryDep, category
  <2> DEFINE d == PythonDep(e, PoetryManager(f, e), category(e))
  <2>5. /\ d \in Dependency /\ d.markers = e.marker /\ d.version = e.version
        /\ d.category = category(e) /\ d.key[2] \in {e.name, CondaName[e.name]}
    BY <1>2, <2>1, <2>2, PythonDepIsOne
  <2> HIDE DEF d
  <2>6. StandsFor(f, d, Requirement(e, names(e)))
    BY <2>3, <2>5 DEF StandsFor, Requirement
  <2> QED
    BY <2>4, <2>5, <2>6 DEF d
<1>4. InSection(f, s) = {Requirement(e, names(e)) : e \in ToSet(s.entries)}
  BY DEF InSection
<1> HIDE DEF names, category
<1>5. \A j \in DOMAIN s.entries : s.entries[j] \in TomlLine /\ part[j] = PoetryDep(f, s.entries[j], s.name)
  BY <1>1
<1>6. part \in Seq(Dependency) /\ DOMAIN part = DOMAIN s.entries
  <2>1. \A j \in DOMAIN s.entries : part[j] \in Dependency
    BY <1>3, <1>5
  <2>2. part = [j \in DOMAIN s.entries |-> part[j]]
    BY <1>5
  <2> DEFINE entries == s.entries
  <2>3. entries \in Seq(TomlLine) /\ part = [j \in DOMAIN entries |-> part[j]]
        /\ \A j \in DOMAIN entries : part[j] \in Dependency
    BY <1>1, <2>1, <2>2
  <2> HIDE DEF entries
  <2>4. part \in [DOMAIN entries -> Dependency]
    BY <2>3
  <2>5. part \in Seq(Dependency) /\ DOMAIN part = DOMAIN entries
    BY <2>3, <2>4, SeqOver
  <2> QED
    BY <2>5 DEF entries
<1>7. \A e : Requirement(e, names(e)).entry = e
  BY DEF Requirement
<1>8. ASSUME NEW r \in InSection(f, s)
      PROVE  /\ r.entry.selector = None /\ r.entry.form # "editable"
             /\ \E d \in ToSet(part) : d.markers = r.entry.marker /\ StandsFor(f, d, r)
  <2>1. PICK j \in DOMAIN s.entries : r = Requirement(s.entries[j], names(s.entries[j]))
    BY <1>4 DEF ToSet
  <2>2. r.entry = s.entries[j] /\ s.entries[j] \in TomlLine
    BY <1>5, <1>7, <2>1
  <2>3. part[j] \in ToSet(part)
    BY <1>6 DEF ToSet
  <2> QED
    BY <1>3, <1>5, <2>1, <2>2, <2>3, OneOfLines
<1>9. ASSUME NEW d \in ToSet(part)
      PROVE  \E r \in InSection(f, s) : d.markers = r.entry.marker /\ StandsFor(f, d, r)
  <2>1. PICK j \in DOMAIN s.entries : d = part[j]
    BY <1>6 DEF ToSet
  <2>2. Requirement(s.entries[j], names(s.entries[j])) \in InSection(f, s)
    BY <1>4 DEF ToSet
  <2> QED
    BY <1>3, <1>5, <1>7, <2>1, <2>2
<1> QED
  BY <1>6, <1>8, <1>9 DEF Reads

LEMMA PoetryHonours ==
    ASSUME NEW f, f.kind = "pyproject", f.layout = "poetry", ~f.skip, IsPyproject(f),
           NEW deps \in Poetry(f)
    PROVE  Honours(f, deps)
<1> DEFINE sections == PoetrySections(f)
           n == Len(sections)
           parts == [i \in DOMAIN sections |->
                        [j \in DOMAIN sections[i].entries |->
                            PoetryDep(f, sections[i].entries[j], sections[i].name)]]
<1>1. sections \in Seq(Section)
  <2>1. f.main \in Seq(TomlLine) /\ f.dev \in Seq(TomlLine)
        /\ f.groups \in Seq([name : STRING, entries : Seq(TomlLine)])
    BY DEF IsPyproject
  <2>2. [name : STRING, entries : Seq(TomlLine)] \subseteq Section
    BY DEF Section, Category
  <2>3. f.groups \in Seq(Section)
    BY <2>1, <2>2, SeqOfMore
  <2>4. /\ [name |-> "main", entries |-> f.main] \in Section
        /\ [name |-> "dev", entries |-> f.dev] \in Section
    BY <2>1 DEF Section, Category
  <2> QED
    BY <2>3, <2>4 DEF PoetrySections
<1>2. deps = Finished(f, FlattenSeq(parts))
  BY DEF Poetry
<1> HIDE DEF sections
<1>3. n \in Nat /\ DOMAIN sections = 1 .. n
  BY <1>1
<1>4. \A i \in 1 .. n : Reads(f, parts[i], InSection(f, sections[i]))
  BY <1>1, <1>3, PoetrySectionRead
<1>5. parts = [i \in 1 .. n |-> parts[i]]
  BY <1>3
<1> HIDE DEF parts, n
<1>6. Reads(f, FlattenSeq(parts), Sections(f))
  <2> DEFINE R == [i \in 1 .. n |-> InSection(f, sections[i])]
  <2>1. \A i \in 1 .. n : R[i] = InSection(f, sections[i]) /\ Reads(f, parts[i], R[i])
    BY <1>4
  <2> HIDE DEF R
  <2>2. parts \in [1 .. n -> Seq(Dependency)]
    BY <1>5, <2>1 DEF Reads
  <2>3. ToSet(sections) = {sections[i] : i \in 1 .. n}
    BY <1>3 DEF ToSet
  <2>4. /\ \A r \in Sections(f) : \E i \in 1 .. n : r \in R[i]
        /\ \A i \in 1 .. n : R[i] \subseteq Sections(f)
    BY <2>1, <2>3 DEF Sections, sections
  <2> QED
    BY <1>3, <2>1, <2>2, <2>4, ReadAll
<1>8. Answers(f, deps, Sections(f) \union Own(f))
  BY <1>2, <1>6, FinishedAnswers
<1> QED
  BY <1>8, AnswersIsHonours

LEMMA SectionRead ==
    ASSUME NEW f, f.kind = "pyproject", f.layout # "poetry", IsPyproject(f), NEW s \in Section
    PROVE  Reads(f, SectionDeps(f, s), InSection(f, s))
<1> DEFINE category == IF s.name \in DevTags THEN "dev" ELSE s.name
           deps     == SectionDeps(f, s)
<1>1. /\ category \in Category /\ f.nonConda \in {Conda, Pip}
      /\ s.entries \in Seq(AnyLine) /\ ToSet(s.entries) \subseteq TomlLine
  <2>1. s.entries \in Seq(TomlLine) /\ s.name \in Category /\ f.nonConda \in {Conda, Pip}
    BY DEF Section, IsPyproject
  <2> QED
    BY <2>1, OneOfLines, SeqOfMore, ToSetIn DEF Category
<1>2. InSection(f, s) = {Requirement(e, {category}) : e \in ToSet(s.entries)}
  BY DEF InSection
<1>3. deps = PythonDeps(s.entries, f.nonConda, category)
  BY DEF SectionDeps
<1> HIDE DEF category, deps
<1>4. /\ deps \in Seq(Dependency)
      /\ ToSet(deps) = {PythonDep(e, f.nonConda, category) : e \in ToSet(s.entries)}
  BY <1>1, <1>3, PythonDepsHas
<1>5. ASSUME NEW e \in ToSet(s.entries)
      PROVE  /\ PythonDep(e, f.nonConda, category).markers = e.marker
             /\ StandsFor(f, PythonDep(e, f.nonConda, category), Requirement(e, {category}))
             /\ Requirement(e, {category}).entry = e
             /\ e.selector = None /\ e.form # "editable"
  <2>1. e \in TomlLine /\ e \in AnyLine
    BY <1>1, OneOfLines
  <2> DEFINE d == PythonDep(e, f.nonConda, category)
  <2>2. /\ d.markers = e.marker /\ d.version = e.version
        /\ d.category = category /\ d.key[2] \in {e.name, CondaName[e.name]}
    BY <1>1, <2>1, PythonDepIsOne
  <2> HIDE DEF d
  <2>3. StandsFor(f, d, Requirement(e, {category}))
    BY <2>2 DEF StandsFor, Requirement
  <2> QED
    BY <2>1, <2>2, <2>3, OneOfLines DEF d, Requirement
<1>6. ASSUME NEW r \in InSection(f, s)
      PROVE  /\ r.entry.selector = None /\ r.entry.form # "editable"
             /\ \E d \in ToSet(deps) : d.markers = r.entry.marker /\ StandsFor(f, d, r)
  <2>1. PICK e \in ToSet(s.entries) : r = Requirement(e, {category})
    BY <1>2
  <2>2. PythonDep(e, f.nonConda, category) \in ToSet(deps)
    BY <1>4
  <2> QED
    BY <1>5, <2>1, <2>2
<1>7. ASSUME NEW d \in ToSet(deps)
      PROVE  \E r \in InSection(f, s) : d.markers = r.entry.marker /\ StandsFor(f, d, r)
  <2>1. PICK e \in ToSet(s.entries) : d = PythonDep(e, f.nonConda, category)
    BY <1>4
  <2>2. Requirement(e, {category}) \in InSection(f, s)
    BY <1>2
  <2> QED
    BY <1>5, <2>1, <2>2
<1> QED
  BY <1>4, <1>6, <1>7 DEF Reads, deps

LEMMA OrderedHas ==
    ASSUME NEW S, IsFiniteSet(S), NEW q \in SetToSeqs(S)
    PROVE  q \in Seq(S) /\ ToSet(q) = S
<1> DEFINE n == Cardinality(S)
<1>1. n \in Nat
  BY FS_CardinalityType
<1>2. q \in [1 .. n -> S] /\ \A i, j \in 1 .. n : i # j => q[i] # q[j]
  BY DEF SetToSeqs
<1>3. q \in Injection(1 .. n, S)
  BY <1>2 DEF Injection, IsInjective
<1>4. Cardinality(1 .. n) = n
  <2> HIDE DEF n
  <2>1. Cardinality(1 .. n) = IF 1 > n THEN 0 ELSE n - 1 + 1
    BY <1>1, FS_Interval
  <2> QED
    BY <1>1, <2>1
<1>5. q \in Surjection(1 .. n, S)
  BY <1>3, <1>4, FS_Injection
<1>6. \A x \in S : \E i \in 1 .. n : q[i] = x
  BY <1>5 DEF Surjection
<1> HIDE DEF n
<1> QED
  BY <1>1, <1>2, <1>6 DEF ToSet

Named(name, entries) == [name |-> name, entries |-> entries]

Groups(f) == UNION {InSection(f, s) : s \in ToSet(f.groups)}

LEMMA SectionsAre ==
    ASSUME NEW f, IsPyproject(f), f.dev \in Seq(TomlLine)
    PROVE  /\ f.groups \in Seq(Section)
           /\ Named("main", f.main) \in Section /\ Named("dev", f.dev) \in Section
           /\ Sections(f) = InSection(f, Named("main", f.main))
                            \union InSection(f, Named("dev", f.dev)) \union Groups(f)
<1>1. f.main \in Seq(TomlLine) /\ f.groups \in Seq([name : STRING, entries : Seq(TomlLine)])
  BY DEF IsPyproject
<1>2. [name : STRING, entries : Seq(TomlLine)] \subseteq Section
  BY DEF Section, Category
<1>3. f.groups \in Seq(Section)
  BY <1>1, <1>2, SeqOfMore
<1>4. Named("main", f.main) \in Section /\ Named("dev", f.dev) \in Section
  BY <1>1 DEF Section, Category, Named
<1> DEFINE two == <<Named("main", f.main), Named("dev", f.dev)>>
<1>5. two \in Seq(Section) /\ ToSet(two) = {Named("main", f.main), Named("dev", f.dev)}
  BY <1>4 DEF ToSet
<1>6. PoetrySections(f) = two \o f.groups
  BY DEF PoetrySections, Named
<1> HIDE DEF two
<1>7. ToSet(PoetrySections(f)) = {Named("main", f.main), Named("dev", f.dev)} \union ToSet(f.groups)
  BY <1>3, <1>5, <1>6, ToSetOfBoth
<1> QED
  BY <1>3, <1>4, <1>7 DEF Sections, Groups

LEMMA RequirementsAnswer ==
    ASSUME NEW f, f.kind = "pyproject", f.layout # "poetry", IsPyproject(f), f.dev \in Seq(TomlLine),
           NEW deps \in Requirements(f)
    PROVE  Answers(f, deps, (InSection(f, Named("main", f.main)) \union Groups(f)) \union Own(f))
<1> DEFINE groups   == f.groups
           first    == PythonDeps(f.main, f.nonConda, "main")
           these(p) == [k \in DOMAIN p |-> SectionDeps(f, groups[p[k]])]
<1>1. groups \in Seq(Section) /\ Named("main", f.main) \in Section
  BY SectionsAre
<1>2. PICK o \in SetToSeqs(DOMAIN groups) : deps = Finished(f, first \o FlattenSeq(these(o)))
  BY DEF Requirements
<1>3. Reads(f, first, InSection(f, Named("main", f.main)))
  <2>1. first = SectionDeps(f, Named("main", f.main))
    BY DEF SectionDeps, Named, DevTags
  <2> QED
    BY <1>1, <2>1, SectionRead
<1> HIDE DEF groups
<1> DEFINE parts == these(o)
           n == Len(o)
<1>4. o \in Seq(DOMAIN groups) /\ ToSet(o) = DOMAIN groups
  <2>1. IsFiniteSet(DOMAIN groups)
    BY <1>1, FS_Interval
  <2> QED
    BY <2>1, OrderedHas
<1>5. deps = Finished(f, first \o FlattenSeq(parts))
  BY <1>2
<1> HIDE DEF first
<1>6. n \in Nat /\ DOMAIN o = 1 .. n /\ \A k \in 1 .. n : o[k] \in DOMAIN groups /\ groups[o[k]] \in Section
  BY <1>1, <1>4
<1>7. \A k \in 1 .. n : parts[k] = SectionDeps(f, groups[o[k]])
                        /\ Reads(f, parts[k], InSection(f, groups[o[k]]))
  BY <1>6, SectionRead
<1>8. parts = [k \in 1 .. n |-> parts[k]]
  BY <1>6
<1> HIDE DEF parts, n
<1>9. Reads(f, FlattenSeq(parts), Groups(f))
  <2> DEFINE R == [k \in 1 .. n |-> InSection(f, groups[o[k]])]
  <2>1. \A k \in 1 .. n : R[k] = InSection(f, groups[o[k]]) /\ Reads(f, parts[k], R[k])
    BY <1>7
  <2> HIDE DEF R
  <2>2. parts \in [1 .. n -> Seq(Dependency)]
    BY <1>8, <2>1 DEF Reads
  <2>3. \A i \in DOMAIN groups : \E k \in 1 .. n : o[k] = i
    BY <1>4, <1>6 DEF ToSet
  <2>4. \A r \in Groups(f) : \E k \in 1 .. n : r \in R[k]
    <3> TAKE r \in Groups(f)
    <3>1. PICK s \in ToSet(groups) : r \in InSection(f, s)
      BY DEF Groups, groups
    <3>2. PICK i \in DOMAIN groups : s = groups[i]
      BY DEF ToSet
    <3> QED
      BY <2>1, <2>3, <3>1, <3>2
  <2>5. \A k \in 1 .. n : R[k] \subseteq Groups(f)
    <3> TAKE k \in 1 .. n
    <3>1. groups[o[k]] \in ToSet(groups)
      BY <1>6 DEF ToSet
    <3> QED
      BY <2>1, <3>1 DEF Groups, groups
  <2> QED
    BY <1>6, <2>1, <2>2, <2>4, <2>5, ReadAll
<1>10. Reads(f, first \o FlattenSeq(parts), InSection(f, Named("main", f.main)) \union Groups(f))
  BY <1>3, <1>9, ReadBoth
<1> QED
  BY <1>5, <1>10, FinishedAnswers

LEMMA RequirementsHonours ==
    ASSUME NEW f, f.kind = "pyproject", f.layout = "project", ~f.skip, IsPyproject(f),
           NEW deps \in Requirements(f)
    PROVE  Honours(f, deps)
<1>1. f.dev = <<>> /\ f.dev \in Seq(TomlLine)
  BY DEF IsPyproject
<1>2. InSection(f, Named("dev", f.dev)) = {}
  BY <1>1, ToSetOfEmpty DEF InSection, Named
<1>3. Sections(f) = InSection(f, Named("main", f.main)) \union Groups(f)
  BY <1>1, <1>2, SectionsAre
<1>4. Answers(f, deps, Sections(f) \union Own(f))
  BY <1>1, <1>3, RequirementsAnswer
<1> QED
  BY <1>4, AnswersIsHonours

LEMMA PdmHonours ==
    ASSUME NEW f, f.kind = "pyproject", f.layout = "pdm", ~f.skip, IsPyproject(f), NEW deps \in Pdm(f)
    PROVE  Honours(f, deps)
<1>1. f.dev \in Seq(TomlLine)
  BY DEF IsPyproject, Pdm
<1>2. PICK before \in Requirements(f) : deps = before \o PythonDeps(f.dev, f.nonConda, "dev")
  BY DEF Pdm
<1> DEFINE R    == (InSection(f, Named("main", f.main)) \union Groups(f)) \union Own(f)
           D    == InSection(f, Named("dev", f.dev))
           more == PythonDeps(f.dev, f.nonConda, "dev")
<1>3. Answers(f, before, R)
  BY <1>1, RequirementsAnswer
<1>4. Reads(f, more, D)
  <2>1. more = SectionDeps(f, Named("dev", f.dev))
    BY DEF SectionDeps, Named, DevTags
  <2>2. Named("dev", f.dev) \in Section
    BY <1>1, SectionsAre
  <2> QED
    BY <2>1, <2>2, SectionRead
<1>5. Declared(f) = R \union D
  <2>1. Declared(f) = Sections(f) \union Own(f)
    BY DEF Declared, Sections, Own
  <2> QED
    BY <1>1, <2>1, SectionsAre
<1>6. \A r \in D : r.entry \in Unmarked(f)
  BY DEF InSection, Named, Requirement, Unmarked
<1> HIDE DEF R, D, more
<1>7. deps \in Seq(Dependency) /\ ToSet(deps) = ToSet(before) \union ToSet(more)
  BY <1>2, <1>3, <1>4, ToSetOfBoth DEF Reads, Answers, more
<1>8. \A r \in Declared(f) : AppliesHere(r.entry) => \E d \in ToSet(deps) : StandsFor(f, d, r)
  BY <1>3, <1>4, <1>5, <1>7 DEF Reads, Answers
<1>9. \A d \in ToSet(deps) : \E r \in Declared(f) :
          StandsFor(f, d, r) /\ (AppliesHere(r.entry) \/ r.entry \in Unmarked(f))
  BY <1>3, <1>4, <1>5, <1>6, <1>7 DEF Reads, Answers
<1> QED
  BY <1>7, <1>8, <1>9 DEF Honours

LEMMA SkippedHonours ==
    ASSUME NEW f, f.kind = "pyproject", f.skip, IsPyproject(f)
    PROVE  Honours(f, Finished(f, <<>>))
<1>1. Reads(f, <<>>, {})
  BY ToSetOfEmpty DEF Reads
<1>2. Answers(f, Finished(f, <<>>), {} \union Own(f))
  BY <1>1, FinishedAnswers
<1> QED
  BY <1>2, AnswersIsHonours

LEMMA ParsesHonour ==
    ASSUME NEW f \in Files, NEW c \in Parses(f)
    PROVE  Honours(f, c.deps)
<1>1. IsFile(f)
  BY LockSpecAssumption
<1>2. CASE f.kind = "environment"
  <2>1. IsEnvironment(f) /\ c.deps \in Environment(f)
    BY <1>1, <1>2 DEF IsFile, Parses
  <2> QED
    BY <1>2, <2>1, EnvironmentHonours
<1>3. CASE f.kind = "meta"
  <2>1. f.outputs \in Seq([run : Seq(CondaLine), test : Seq(CondaLine)]) /\ c.deps \in Meta(f)
    BY <1>1, <1>3 DEF IsFile, Parses
  <2> QED
    BY <1>3, <2>1, MetaHonours
<1>4. CASE f.kind = "pyproject"
  <2>1. IsPyproject(f) /\ c.deps \in Pyproject(f)
    BY <1>1, <1>4 DEF IsFile, Parses
  <2>2. f.skip \in BOOLEAN /\ f.layout \in {"poetry", "project", "pdm"}
    BY <2>1 DEF IsPyproject
  <2>3. CASE f.skip
    <3>1. c.deps = Finished(f, <<>>)
      BY <2>1, <2>3 DEF Pyproject
    <3> QED
      BY <1>4, <2>1, <2>3, <3>1, SkippedHonours
  <2>4. CASE ~f.skip /\ f.layout = "poetry"
    BY <1>4, <2>1, <2>4, PoetryHonours DEF Pyproject
  <2>5. CASE ~f.skip /\ f.layout = "project"
    BY <1>4, <2>1, <2>5, RequirementsHonours DEF Pyproject
  <2>6. CASE ~f.skip /\ f.layout = "pdm"
    BY <1>4, <2>1, <2>6, PdmHonours DEF Pyproject
  <2> QED
    BY <2>2, <2>3, <2>4, <2>5, <2>6
<1> QED
  BY <1>1, <1>2, <1>3, <1>4 DEF IsFile

LEMMA DeclaredInInv == ASSUME Inv PROVE DeclaredIsThere
<1> SUFFICES ASSUME Parsed, NEW i \in DOMAIN parsed PROVE Honours(sources.files[i], parsed[i].deps)
  BY DEF DeclaredIsThere, Honours
<1>1. sources.files \in Lists(MaxFiles) /\ parsed \in ParseSourceFiles(sources.files)
  BY DEF Inv, Arguments
<1>2. sources.files[i] \in Files /\ parsed[i] \in Parses(sources.files[i])
  BY <1>1, ParsedOf
<1> QED
  BY <1>2, ParsesHonour

(* No selector, marker or order of groups loses a requirement that a file     *)
(* declares for the platform, or lets in one that it does not.                *)
THEOREM DeclaresAll == Spec => []DeclaredIsThere
<1>1. Inv => DeclaredIsThere
  BY DeclaredInInv
<1> QED
  BY <1>1, InvHolds, PTL

-----------------------------------------------------------------------------
(* The last of the files that name a package. *)

LEMMA Aggregating ==
    ASSUME NEW contents, Chained(contents) \in Seq(Dependency)
    PROVE  \E u : /\ u[0] = NoDeps
                  /\ \A i \in DOMAIN Chained(contents) : u[i] = Collect(u[i - 1], Chained(contents)[i])
                  /\ Aggregated(contents) = u[Len(Chained(contents))]
<1> DEFINE all == Chained(contents)
           N == Len(all)
           Def(g, n) == g = [i \in 0 .. n |-> IF i = 0 THEN NoDeps ELSE Collect(g[i - 1], all[i])]
<1>1. N \in Nat /\ DOMAIN all = 1 .. N
  OBVIOUS
<1>2. Aggregated(contents) = (CHOOSE g : Def(g, N))[N]
  BY DEF Aggregated
<1> HIDE DEF N, all
<1>3. \A n \in 0 .. N : \E g : Def(g, n)
  <2> DEFINE Has == {n \in 0 .. N : \E g : Def(g, n)}
  <2>1. 0 \in Has
    <3> DEFINE g == [i \in 0 .. 0 |-> NoDeps]
    <3>1. Def(g, 0)
      OBVIOUS
    <3>2. \E x : Def(x, 0)
      <4> HIDE DEF Def, g
      <4> QED
        BY <3>1
    <3>3. 0 \in 0 .. N
      BY <1>1
    <3> QED
      BY <3>2, <3>3, Zenon
  <2>2. ASSUME NEW n \in 1 .. N, n - 1 \in Has PROVE n \in Has
    <3>1. PICK h : Def(h, n - 1)
      BY <2>2
    <3> DEFINE g == [i \in 0 .. n |-> IF i = 0 THEN NoDeps ELSE Collect(h[i - 1], all[i])]
    <3>2. ASSUME NEW i \in 0 .. n, i # 0 PROVE g[i - 1] = h[i - 1]
      <4>1. i - 1 \in 0 .. n - 1 /\ i - 1 \in 0 .. n
        BY <1>1, <3>2
      <4> QED
        BY <3>1, <4>1
    <3>3. Def(g, n)
      BY <3>2
    <3>4. \E x : Def(x, n)
      <4> HIDE DEF Def, g
      <4> QED
        BY <3>3
    <3>5. n \in 0 .. N
      BY <1>1
    <3> QED
      BY <3>4, <3>5, Zenon
  <2> HIDE DEF Has
  <2>3. \A n \in 0 .. N : n \in Has
    BY <1>1, <2>1, <2>2, UpTo
  <2> QED
    BY <2>3, Zenon DEF Has
<1> DEFINE u == CHOOSE g : Def(g, N)
<1>4. Def(u, N)
  <2>1. N \in 0 .. N
    BY <1>1
  <2> HIDE DEF Def
  <2> QED
    BY <1>3, <2>1, Zenon
<1> HIDE DEF u
<1>5. u[0] = NoDeps /\ \A i \in 1 .. N : u[i] = Collect(u[i - 1], all[i])
  <2>1. \A i \in 0 .. N : u[i] = IF i = 0 THEN NoDeps ELSE Collect(u[i - 1], all[i])
    BY <1>4
  <2>2. 0 \in 0 .. N /\ \A i \in 1 .. N : i \in 0 .. N /\ i # 0
    BY <1>1
  <2> QED
    BY <2>1, <2>2
<1>6. Aggregated(contents) = u[N]
  BY <1>2 DEF u
<1> HIDE DEF Def
<1> QED
  BY <1>1, <1>5, <1>6 DEF N, all

(* What has been collected of the first n: each key with its last dependency. *)
LastOfEach(unique, all, n) ==
    /\ DOMAIN unique = {all[i].key : i \in 1 .. n}
    /\ \A k \in DOMAIN unique : \E i \in 1 .. n :
           /\ all[i].key = k /\ unique[k] = all[i]
           /\ \A j \in 1 .. n : all[j].key = k => j <= i

LEMMA LastCollected ==
    ASSUME NEW contents, Chained(contents) \in Seq(Dependency)
    PROVE  LastOfEach(Aggregated(contents), Chained(contents), Len(Chained(contents)))
<1> DEFINE all == Chained(contents)
           N == Len(all)
<1>1. N \in Nat /\ DOMAIN all = 1 .. N
  OBVIOUS
<1>2. PICK u : /\ u[0] = NoDeps
               /\ \A i \in 1 .. N : u[i] = Collect(u[i - 1], all[i])
               /\ Aggregated(contents) = u[N]
  BY <1>1, Aggregating
<1> HIDE DEF all, N
<1> DEFINE S == {n \in 0 .. N : LastOfEach(u[n], all, n)}
<1>3. 0 \in S
  <2>1. DOMAIN NoDeps = {} /\ 1 .. 0 = {}
    BY DEF NoDeps
  <2>2. LastOfEach(u[0], all, 0)
    BY <1>2, <2>1 DEF LastOfEach
  <2> QED
    BY <1>1, <2>2
<1>4. ASSUME NEW n \in 1 .. N, n - 1 \in S PROVE n \in S
  <2> DEFINE v == u[n - 1]  w == u[n]
  <2>1. LastOfEach(v, all, n - 1)
    BY <1>4
  <2>2. w = Collect(v, all[n])
    BY <1>2
  <2> HIDE DEF v, w
  <2>3. /\ DOMAIN w = DOMAIN v \union {all[n].key}
        /\ w[all[n].key] = all[n]
        /\ \A k \in DOMAIN v : k # all[n].key => w[k] = v[k]
    BY <2>2 DEF Collect
  <2>4. /\ \A i \in 1 .. n : i \in 1 .. n - 1 \/ i = n
        /\ \A i \in 1 .. n - 1 : i \in 1 .. n /\ i <= n
        /\ n \in 1 .. n /\ n <= n
    BY <1>1
  <2>5. DOMAIN w = {all[i].key : i \in 1 .. n}
    BY <2>1, <2>3, <2>4 DEF LastOfEach
  <2>6. ASSUME NEW k \in DOMAIN w
        PROVE  \E i \in 1 .. n : /\ all[i].key = k /\ w[k] = all[i]
                                 /\ \A j \in 1 .. n : all[j].key = k => j <= i
    <3>1. CASE k = all[n].key
      BY <2>3, <2>4, <3>1
    <3>2. CASE k # all[n].key
      <4>1. PICK i \in 1 .. n - 1 : /\ all[i].key = k /\ v[k] = all[i]
                                    /\ \A j \in 1 .. n - 1 : all[j].key = k => j <= i
        BY <2>1, <2>3, <2>6, <3>2 DEF LastOfEach
      <4>2. \A j \in 1 .. n : all[j].key = k => j <= i
        BY <2>4, <3>2, <4>1
      <4>3. w[k] = v[k] /\ i \in 1 .. n
        BY <2>3, <2>4, <2>6, <3>2, <4>1
      <4> QED
        BY <4>1, <4>2, <4>3
    <3> QED
      BY <3>1, <3>2
  <2>7. LastOfEach(w, all, n)
    BY <2>5, <2>6 DEF LastOfEach
  <2> QED
    BY <1>1, <2>7 DEF w
<1> HIDE DEF S
<1>5. N \in S
  <2>1. \A n \in 0 .. N : n \in S
    BY <1>1, <1>3, <1>4, UpTo
  <2> QED
    BY <1>1, <2>1
<1> QED
  BY <1>2, <1>5 DEF S, all, N

(* What is aggregated is what the last file that names a package says of it.  *)
LEMMA LastSays ==
    ASSUME NEW contents, Chained(contents) \in Seq(Dependency)
    PROVE  /\ DOMAIN Aggregated(contents) = Keys(contents)
           /\ \A k \in Keys(contents) : Aggregated(contents)[k] = Says(contents, k)
<1> DEFINE all == Chained(contents)
           N == Len(all)
           unique == Aggregated(contents)
<1>1. N \in Nat /\ DOMAIN all = 1 .. N
  OBVIOUS
<1>2. LastOfEach(unique, all, N)
  BY LastCollected
<1>3. Keys(contents) = {all[i].key : i \in 1 .. N}
  BY <1>1 DEF Keys
<1>4. ASSUME NEW k \in Keys(contents)
      PROVE  unique[k] = Says(contents, k)
  <2> DEFINE named == {i \in DOMAIN all : all[i].key = k}
             last == CHOOSE i \in named : \A j \in named : j <= i
  <2>1. Says(contents, k) = IF named = {} THEN None ELSE all[last]
    BY DEF Says
  <2> HIDE DEF unique, all, N
  <2>2. PICK i \in 1 .. N : /\ all[i].key = k /\ unique[k] = all[i]
                            /\ \A j \in 1 .. N : all[j].key = k => j <= i
    BY <1>2, <1>3, <1>4 DEF LastOfEach
  <2>3. i \in named /\ \A j \in named : j <= i
    BY <1>1, <2>2
  <2>4. last \in named /\ \A j \in named : j <= last
    <3> HIDE DEF named
    <3> QED
      BY <2>3
  <2>5. last = i
    <3>1. last <= i /\ i <= last
      BY <2>3, <2>4
    <3>2. last \in Nat /\ i \in Nat
      BY <1>1, <2>4
    <3> HIDE DEF last, named
    <3> QED
      BY <3>1, <3>2
  <2> HIDE DEF last, named
  <2> QED
    BY <2>1, <2>2, <2>3, <2>5
<1> QED
  BY <1>2, <1>3, <1>4 DEF LastOfEach

LEMMA ChainedIsOne ==
    ASSUME NEW files \in Lists(MaxFiles), NEW contents \in ParseSourceFiles(files)
    PROVE  Chained(contents) \in Seq(Dependency)
<1>1. /\ files \in Seq(Files) /\ DOMAIN contents = DOMAIN files
      /\ \A i \in DOMAIN files : files[i] \in Files /\ contents[i] \in Parses(files[i])
  BY ListsAreLists, ParsedOf
<1> DEFINE deps == [i \in DOMAIN contents |-> contents[i].deps]
<1>2. deps \in [DOMAIN files -> Seq(Dependency)]
  BY <1>1, ParsesHonour DEF Honours
<1>3. Chained(contents) = FlattenSeq(deps)
  BY DEF Chained
<1> HIDE DEF deps
<1>4. deps \in Seq(Seq(Dependency))
  BY <1>1, <1>2, SeqOver
<1> QED
  BY <1>3, <1>4, Flattened

LEMMA LastInInv == ASSUME Inv PROVE LastSourceWins
<1> SUFFICES ASSUME Parsed PROVE LastSourceWins
  BY DEF LastSourceWins
<1> DEFINE unique == Aggregated(parsed)
           deps == MakeLockSpec(sources, parsed).deps
<1>1. /\ DOMAIN unique = Keys(parsed)
      /\ \A k \in Keys(parsed) : unique[k] = Says(parsed, k)
  <2>1. sources.files \in Lists(MaxFiles) /\ parsed \in ParseSourceFiles(sources.files)
    BY DEF Inv, Arguments
  <2>2. Chained(parsed) \in Seq(Dependency)
    BY <2>1, ChainedIsOne
  <2> QED
    BY <2>2, LastSays
<1>2. deps = [k \in {l \in DOMAIN unique : Fits(unique[l], sources.filter)} |-> unique[k]]
  BY DEF MakeLockSpec
<1> HIDE DEF unique, deps
<1>3. /\ DOMAIN deps = {l \in DOMAIN unique : Fits(unique[l], sources.filter)}
      /\ \A k \in DOMAIN deps : deps[k] = unique[k]
  BY <1>2
<1> QED
  BY <1>1, <1>3 DEF LastSourceWins, deps

(* The last file that names a package decides on its version and on whether    *)
(* its category is filtered out, and nothing else is lost.                    *)
THEOREM LastWins == Spec => []LastSourceWins
<1>1. Inv => LastSourceWins
  BY LastInInv
<1> QED
  BY <1>1, InvHolds, PTL

-----------------------------------------------------------------------------
(* What is hashed: the keys are put in an order, each of them once.           *)
Key == {Conda, Pip} \X Nat

LEMMA KeysInOrder ==
    ASSUME NEW S \in SUBSET Key, IsFiniteSet(S)
    PROVE  /\ DOMAIN SortedKeys(S) = 1 .. Cardinality(S)
           /\ \A i \in 1 .. Cardinality(S) : SortedKeys(S)[i] \in S
           /\ \A k \in S : \E i \in 1 .. Cardinality(S) : SortedKeys(S)[i] = k
<1> DEFINE C == Cardinality(S)
           below(k) == {l \in S : Before(l, k)}
           rank(k) == Cardinality(below(k))
           at(i) == CHOOSE k \in S : rank(k) = i - 1
<1>1. SortedKeys(S) = [i \in 1 .. C |-> at(i)]
  BY DEF SortedKeys
<1>2. C \in Nat
  BY FS_CardinalityType
<1> HIDE DEF C
<1>3. /\ \A k \in S : ~Before(k, k)
      /\ \A k, l \in S : k # l => Before(k, l) \/ Before(l, k)
      /\ \A k, l, m \in S : Before(k, l) /\ Before(l, m) => Before(k, m)
  <2>1. \A k \in S : k = <<k[1], k[2]>> /\ k[1] \in Nat /\ k[2] \in Nat
    BY DEF Key, Conda, Pip
  <2>2. \A k \in S : ~Before(k, k)
    BY <2>1 DEF Before
  <2>3. \A k, l \in S : k # l => k[1] # l[1] \/ k[2] # l[2]
    BY <2>1
  <2>4. \A k, l \in S : k # l => Before(k, l) \/ Before(l, k)
    BY <2>1, <2>3 DEF Before
  <2>5. \A k, l, m \in S : Before(k, l) /\ Before(l, m) => Before(k, m)
    BY <2>1 DEF Before
  <2> QED
    BY <2>2, <2>4, <2>5
<1>4. ASSUME NEW k \in S PROVE IsFiniteSet(below(k)) /\ rank(k) \in 0 .. C - 1
  <2>1. below(k) \in SUBSET S /\ below(k) # S
    BY <1>3
  <2> HIDE DEF below
  <2>2. IsFiniteSet(below(k)) /\ rank(k) <= C /\ rank(k) # C
    BY <2>1, FS_Subset DEF C
  <2>3. rank(k) \in Nat
    BY <2>2, FS_CardinalityType
  <2> HIDE DEF rank
  <2> QED
    BY <1>2, <2>2, <2>3
<1>5. ASSUME NEW k \in S, NEW l \in S, Before(k, l) PROVE rank(k) # rank(l)
  <2>1. below(k) \in SUBSET below(l) /\ k \in below(l) /\ k \notin below(k)
    BY <1>3, <1>5
  <2>2. IsFiniteSet(below(l))
    BY <1>4
  <2> HIDE DEF below
  <2> QED
    BY <2>1, <2>2, FS_Subset
<1> HIDE DEF rank
<1>6. \A k, l \in S : rank(k) = rank(l) => k = l
  BY <1>3, <1>5
<1> DEFINE f == [k \in S |-> rank(k)]
           T == 0 .. C - 1
<1>7. IsFiniteSet(T) /\ Cardinality(T) = C
  <2>1. 0 \in Int /\ C - 1 \in Int
    BY <1>2
  <2>2. IsFiniteSet(T) /\ Cardinality(T) = IF 0 > C - 1 THEN 0 ELSE (C - 1) - 0 + 1
    <3>1. \A b \in Int : IsFiniteSet(0 .. b) /\ Cardinality(0 .. b) = IF 0 > b THEN 0 ELSE b - 0 + 1
      BY FS_Interval
    <3> QED
      BY <2>1, <3>1
  <2> HIDE DEF T
  <2> QED
    BY <1>2, <2>2
<1>8. f \in Injection(S, T)
  BY <1>4, <1>6 DEF Injection, IsInjective
<1> HIDE DEF f, T
<1>9. f \in Surjection(S, T)
  BY <1>7, <1>8, FS_Injection DEF C
<1>10. \A i \in 1 .. C : \E k \in S : rank(k) = i - 1
  <2> TAKE i \in 1 .. C
  <2>1. i - 1 \in T
    BY <1>2 DEF T
  <2>2. \E k \in S : f[k] = i - 1
    BY <1>9, <2>1 DEF Surjection
  <2> QED
    BY <2>2 DEF f
<1>11. \A i \in 1 .. C : at(i) \in S /\ rank(at(i)) = i - 1
  BY <1>10
<1>12. ASSUME NEW k \in S PROVE rank(k) + 1 \in 1 .. C /\ at(rank(k) + 1) = k
  <2>1. rank(k) + 1 \in 1 .. C /\ (rank(k) + 1) - 1 = rank(k)
    <3>1. \A r \in 0 .. C - 1 : r + 1 \in 1 .. C /\ (r + 1) - 1 = r
      BY <1>2
    <3> QED
      BY <1>4, <3>1
  <2>2. at(rank(k) + 1) \in S /\ rank(at(rank(k) + 1)) = rank(k)
    BY <1>11, <2>1
  <2> QED
    BY <1>6, <2>1, <2>2
<1> HIDE DEF at
<1> QED
  BY <1>1, <1>11, <1>12 DEF C

(* Without its nulls a dependency is still told from others.                  *)
LEMMA NullsTell ==
    ASSUME NEW d \in Dependency, NEW e \in Dependency,
           \/ d = e \/ NullsRemoved(d) = e \/ d = NullsRemoved(e)
           \/ NullsRemoved(d) = NullsRemoved(e)
    PROVE  d = e
<1> DEFINE All == {"key", "category", "version", "markers"}
<1>1. \A x \in Dependency : /\ x = [f \in All |-> x[f]]
                            /\ DOMAIN x = All
  BY DEF Dependency
<1>2. \A x \in Dependency :
          /\ x.markers # None => NullsRemoved(x) = x
          /\ x.markers = None => /\ DOMAIN NullsRemoved(x) = All \ {"markers"}
                                 /\ \A f \in All \ {"markers"} : NullsRemoved(x)[f] = x[f]
  <2> TAKE x \in Dependency
  <2> DEFINE K == {f \in All : f = "markers" => x.markers # None}
  <2>1. NullsRemoved(x) = [f \in K |-> x[f]]
    BY <1>1 DEF NullsRemoved
  <2>2. CASE x.markers # None
    <3>1. K = All
      BY <2>2
    <3> QED
      BY <1>1, <2>1, <2>2, <3>1
  <2>3. CASE x.markers = None
    <3>1. K = All \ {"markers"}
      BY <2>3
    <3> HIDE DEF K
    <3> QED
      BY <2>1, <2>3, <3>1
  <2> QED
    BY <2>2, <2>3
<1>3. CASE d.markers = None /\ e.markers = None
  <2>1. \A f \in All \ {"markers"} : d[f] = e[f]
    BY <1>1, <1>2, <1>3
  <2>2. \A f \in All : d[f] = e[f]
    BY <1>3, <2>1
  <2> HIDE DEF All
  <2> QED
    BY <1>1, <2>2
<1>4. CASE d.markers # None \/ e.markers # None
  <2>1. "markers" \in All
    OBVIOUS
  <2> HIDE DEF All
  <2> QED
    BY <1>1, <1>2, <1>4, <2>1
<1> QED
  BY <1>3, <1>4

(* What is hashed of the dependencies. *)
Specs(deps, removeNulls) ==
    LET keys == SortedKeys(DOMAIN deps)
    IN  [i \in DOMAIN keys |-> IF removeNulls THEN NullsRemoved(deps[keys[i]]) ELSE deps[keys[i]]]

(* What make_lock_spec makes of the dependencies. *)
IsDeps(deps) ==
    /\ deps = [k \in DOMAIN deps |-> deps[k]]
    /\ IsFiniteSet(DOMAIN deps) /\ DOMAIN deps \in SUBSET Key
    /\ \A k \in DOMAIN deps : deps[k] \in Dependency /\ deps[k].key = k

LEMMA SpecsPart ==
    ASSUME NEW D, NEW E, IsDeps(D), IsDeps(E), NEW a \in BOOLEAN, NEW b \in BOOLEAN,
           Specs(D, a) = Specs(E, b), NEW k \in DOMAIN D
    PROVE  k \in DOMAIN E /\ E[k] = D[k]
<1> DEFINE m == SortedKeys(DOMAIN D)
           n == SortedKeys(DOMAIN E)
           M == Cardinality(DOMAIN D)
           N == Cardinality(DOMAIN E)
           d(j) == IF a THEN NullsRemoved(D[m[j]]) ELSE D[m[j]]
           e(j) == IF b THEN NullsRemoved(E[n[j]]) ELSE E[n[j]]
<1>1. /\ DOMAIN m = 1 .. M /\ \A i \in 1 .. M : m[i] \in DOMAIN D
      /\ \A l \in DOMAIN D : \E i \in 1 .. M : m[i] = l
      /\ DOMAIN n = 1 .. N /\ \A i \in 1 .. N : n[i] \in DOMAIN E
  BY KeysInOrder DEF IsDeps
<1>2. Specs(D, a) = [j \in 1 .. M |-> d(j)] /\ Specs(E, b) = [j \in 1 .. N |-> e(j)]
  BY <1>1 DEF Specs
<1> HIDE DEF m, n, M, N
<1>3. PICK i \in 1 .. M : m[i] = k
  BY <1>1
<1>4. i \in 1 .. N
  BY <1>2
<1>5. d(i) = e(i)
  <2> HIDE DEF d, e
  <2>1. Specs(D, a)[i] = d(i) /\ Specs(E, b)[i] = e(i)
    BY <1>2, <1>4
  <2> QED
    BY <2>1
<1>6. D[m[i]] \in Dependency /\ E[n[i]] \in Dependency /\ D[m[i]].key = m[i] /\ E[n[i]].key = n[i]
  BY <1>1, <1>3, <1>4 DEF IsDeps
<1>7. D[m[i]] = E[n[i]]
  BY <1>5, <1>6, NullsTell
<1> QED
  BY <1>1, <1>3, <1>4, <1>6, <1>7

LEMMA SpecsTell ==
    ASSUME NEW D, NEW E, IsDeps(D), IsDeps(E), NEW a \in BOOLEAN, NEW b \in BOOLEAN,
           Specs(D, a) = Specs(E, b)
    PROVE  D = E
<1>1. \A k \in DOMAIN D : k \in DOMAIN E /\ E[k] = D[k]
  BY SpecsPart
<1>2. \A k \in DOMAIN E : k \in DOMAIN D /\ D[k] = E[k]
  BY SpecsPart
<1> QED
  BY <1>1, <1>2 DEF IsDeps

-----------------------------------------------------------------------------
(* Virtual packages. *)

(* Undoes what _reinsert_spurious_build_number does. *)
Unnumbered(repo) == {[p EXCEPT !.numbered = FALSE] : p \in repo}

LEMMA NumberedTells ==
    ASSUME NEW repo \in SUBSET VirtualPackage
    PROVE  Unnumbered(repo) = repo /\ Unnumbered(Numbered(repo)) = repo
<1>1. \A p \in repo : /\ ~p.numbered /\ [p EXCEPT !.numbered = FALSE] = p
                      /\ [[p EXCEPT !.numbered = TRUE] EXCEPT !.numbered = FALSE] = p
  BY DEF VirtualPackage
<1>2. Unnumbered(repo) = repo
  BY <1>1 DEF Unnumbered
<1>3. ASSUME NEW p \in Unnumbered(Numbered(repo)) PROVE p \in repo
  <2>1. PICK q \in Numbered(repo) : p = [q EXCEPT !.numbered = FALSE]
    BY DEF Unnumbered
  <2>2. CASE q \in {x \in repo : x.build = ""}
    BY <1>1, <2>1, <2>2
  <2>3. CASE q \in {[x EXCEPT !.numbered = TRUE] : x \in {y \in repo : y.build # "" /\ ~y.numbered}}
    <3>1. PICK x \in repo : q = [x EXCEPT !.numbered = TRUE]
      BY <2>3
    <3> QED
      BY <1>1, <2>1, <3>1
  <2> QED
    BY <2>2, <2>3 DEF Numbered
<1>4. ASSUME NEW p \in repo PROVE p \in Unnumbered(Numbered(repo))
  <2>1. CASE p.build = ""
    <3>1. p \in Numbered(repo)
      BY <2>1 DEF Numbered
    <3> QED
      BY <1>1, <3>1 DEF Unnumbered
  <2>2. CASE p.build # ""
    <3>1. [p EXCEPT !.numbered = TRUE] \in Numbered(repo)
      BY <1>1, <2>2 DEF Numbered
    <3> QED
      BY <1>1, <3>1 DEF Unnumbered
  <2> QED
    BY <2>1, <2>2
<1> QED
  BY <1>2, <1>3, <1>4

LEMMA VariantsEffective ==
    ASSUME NEW repo \in Repos
    PROVE  /\ OsxVariants(repo) \subseteq SUBSET VirtualPackage
           /\ repo \in OsxVariants(repo)
           /\ \A r \in OsxVariants(repo) : Effective(r) = Effective(repo)
<1>1. /\ repo \in SUBSET VirtualPackage
      /\ Osx10 \in VirtualPackage /\ Osx11 \in VirtualPackage /\ Osx10 # Osx11
  BY LockSpecAssumption
<1> QED
  BY <1>1 DEF OsxVariants, Effective, Toggled

LEMMA EffectiveVariants ==
    ASSUME NEW r \in Repos, NEW s \in Repos, Effective(r) = Effective(s)
    PROVE  OsxVariants(r) = OsxVariants(s)
<1>1. Osx10 # Osx11
  BY LockSpecAssumption
<1>2. Osx11 \in r <=> Osx11 \in s
  BY <1>1 DEF Effective
<1>3. CASE OsxPlatform /\ Osx11 \in r
  <2>1. \A p : p # Osx10 => (p \in r <=> p \in s)
    BY <1>2, <1>3 DEF Effective
  <2>2. CASE Osx10 \in r <=> Osx10 \in s
    BY <2>1, <2>2
  <2>3. CASE ~(Osx10 \in r <=> Osx10 \in s)
    <3>1. r = Toggled(s) /\ s = Toggled(r)
      BY <2>1, <2>3 DEF Toggled
    <3> QED
      BY <1>2, <1>3, <3>1 DEF OsxVariants
  <2> QED
    BY <2>2, <2>3
<1>4. CASE ~(OsxPlatform /\ Osx11 \in r)
  BY <1>2, <1>4 DEF Effective, OsxVariants
<1> QED
  BY <1>3, <1>4

(* A hash that this or an earlier release has computed is accepted if and only *)
(* if it is one of the same dependencies, channels and pip repositories, and   *)
(* of virtual packages that conda does not tell apart.                        *)
LEMMA HashTells ==
    ASSUME NEW A, NEW B, IsDeps(A.deps), IsDeps(B.deps),
           NEW r \in Repos, NEW s \in Repos, NEW v \in OsxVariants(r),
           NEW reinsert \in BOOLEAN, NEW removeNulls \in BOOLEAN
    PROVE  Computed(A, v, reinsert, removeNulls) \in Accepted(B, s)
               <=> /\ A.deps = B.deps /\ A.channels = B.channels
                   /\ A.repositories = B.repositories /\ Effective(r) = Effective(s)
<1> DEFINE V == IF reinsert THEN Numbered(v) ELSE v
<1>1. \A X, W, nulls : Content(X, W, nulls) =
          [ channels |-> X.channels, repositories |-> X.repositories,
            specs |-> Specs(X.deps, nulls), virtual |-> W ]
  BY DEF Content, Specs
<1>2. Computed(A, v, reinsert, removeNulls) = Content(A, V, removeNulls)
  BY DEF Computed
<1>3. ASSUME Content(A, V, removeNulls) \in Accepted(B, s)
      PROVE  /\ A.deps = B.deps /\ A.channels = B.channels
             /\ A.repositories = B.repositories /\ Effective(r) = Effective(s)
  <2>1. PICK W \in Variants(s), nulls \in BOOLEAN : Content(A, V, removeNulls) = Content(B, W, nulls)
    BY <1>3 DEF Accepted
  <2> HIDE DEF V
  <2>2. /\ A.channels = B.channels /\ A.repositories = B.repositories
        /\ Specs(A.deps, removeNulls) = Specs(B.deps, nulls) /\ V = W
    BY <1>1, <2>1
  <2>3. A.deps = B.deps
    BY <2>2, SpecsTell
  <2>4. PICK w \in OsxVariants(s) : W = w \/ W = Numbered(w)
    BY DEF Variants
  <2>5. v \in SUBSET VirtualPackage /\ w \in SUBSET VirtualPackage
    BY VariantsEffective
  <2>6. Unnumbered(V) = v /\ Unnumbered(W) = w
    BY <2>4, <2>5, NumberedTells DEF V
  <2> QED
    BY <2>2, <2>3, <2>6, VariantsEffective
<1>4. ASSUME A.deps = B.deps, A.channels = B.channels, A.repositories = B.repositories,
             Effective(r) = Effective(s)
      PROVE  Content(A, V, removeNulls) \in Accepted(B, s)
  <2>1. v \in OsxVariants(s)
    BY <1>4, EffectiveVariants
  <2>2. V \in Variants(s)
    BY <2>1 DEF Variants
  <2>3. Content(A, V, removeNulls) = Content(B, V, removeNulls)
    BY <1>1, <1>4
  <2> QED
    BY <2>2, <2>3 DEF Accepted
<1> HIDE DEF V
<1> QED
  BY <1>2, <1>3, <1>4

LEMMA LockSpecDeps ==
    ASSUME NEW s \in Arguments, NEW contents \in ParseSourceFiles(s.files)
    PROVE  IsDeps(MakeLockSpec(s, contents).deps)
<1> DEFINE all == Chained(contents)
           N == Len(all)
           unique == Aggregated(contents)
           deps == MakeLockSpec(s, contents).deps
           K == {all[i].key : i \in 1 .. N}
<1>1. all \in Seq(Dependency)
  BY ChainedIsOne DEF Arguments
<1>2. LastOfEach(unique, all, N)
  BY <1>1, LastCollected
<1>3. deps = [k \in {l \in DOMAIN unique : Fits(unique[l], s.filter)} |-> unique[k]]
  BY DEF MakeLockSpec
<1>4. N \in Nat /\ \A i \in 1 .. N : all[i] \in Dependency
  BY <1>1
<1> HIDE DEF all, N, unique, deps
<1>5. DOMAIN unique = K /\ \A k \in K : unique[k] \in Dependency /\ unique[k].key = k
  BY <1>2, <1>4 DEF LastOfEach
<1>6. IsFiniteSet(K) /\ K \in SUBSET Key
  <2> DEFINE f == [i \in 1 .. N |-> all[i].key]
  <2>1. f \in Surjection(1 .. N, K)
    BY DEF Surjection
  <2>2. IsFiniteSet(1 .. N)
    <3>1. \A a, b \in Int : IsFiniteSet(a .. b)
      BY FS_Interval
    <3> QED
      BY <1>4, <3>1
  <2>3. K \in SUBSET Key
    BY <1>4 DEF Dependency, Key
  <2> HIDE DEF f, K
  <2> QED
    BY <2>1, <2>2, <2>3, FS_Surjection
<1> HIDE DEF K
<1>7. DOMAIN deps \in SUBSET K /\ \A k \in DOMAIN deps : deps[k] = unique[k]
  BY <1>3, <1>5
<1>8. IsFiniteSet(DOMAIN deps)
  BY <1>6, <1>7, FS_Subset
<1>9. deps = [k \in DOMAIN deps |-> deps[k]]
  BY <1>3
<1>10. IsDeps(deps)
  BY <1>5, <1>6, <1>7, <1>8, <1>9 DEF IsDeps
<1> QED
  BY <1>10 DEF deps

-----------------------------------------------------------------------------
(* What the hash in the lockfile is one of, and what a check has compared.    *)
HashInv ==
    /\ outcome \in {"locked", "edited", "skipped", "relocked"} =>
           /\ locked.sources \in Arguments
           /\ locked.parsed \in ParseSourceFiles(locked.sources.files)
           /\ \E v \in OsxVariants(locked.sources.repo), reinsert, removeNulls \in BOOLEAN :
                  recorded = Computed(MakeLockSpec(locked.sources, locked.parsed),
                                      v, reinsert, removeNulls)
    /\ outcome = "skipped"  => recorded \in Accepted(MakeLockSpec(sources, parsed), sources.repo)
    /\ outcome = "relocked" => recorded \notin Accepted(MakeLockSpec(sources, parsed), sources.repo)

LEMMA HashNext == ASSUME Inv, HashInv, [Next]_vars PROVE HashInv'
<1>1. ASSUME NEW reinsert \in BOOLEAN, NEW removeNulls \in BOOLEAN, Lock(reinsert, removeNulls)
      PROVE  HashInv'
  <2>1. PICK contents \in ParseSourceFiles(sources.files), v \in OsxVariants(sources.repo) :
            /\ recorded' = Computed(MakeLockSpec(sources, contents), v, reinsert, removeNulls)
            /\ locked' = [sources |-> sources, parsed |-> contents]
    BY <1>1 DEF Lock
  <2>2. locked'.sources = sources /\ locked'.parsed = contents /\ sources \in Arguments
    BY <2>1 DEF Inv
  <2>3. outcome' = "locked"
    BY <1>1 DEF Lock
  <2> QED
    BY <2>1, <2>2, <2>3 DEF HashInv
<1>2. CASE ParserRaises
  BY <1>2 DEF HashInv, ParserRaises
<1>3. CASE Refuse
  BY <1>3 DEF HashInv, Refuse
<1>4. CASE Edit
  BY <1>4 DEF HashInv, Edit
<1>5. CASE Check
  BY <1>5 DEF HashInv, Check
<1>6. CASE UNCHANGED vars
  BY <1>6 DEF HashInv, vars
<1> QED
  BY <1>1, <1>2, <1>3, <1>4, <1>5, <1>6 DEF Next

(* The first half: the hashes say whether the meaning is the same.            *)
LEMMA SkippedIfSame ==
    ASSUME Inv, HashInv, outcome \in {"skipped", "relocked"}
    PROVE  outcome = "skipped" <=> Meaning(sources, parsed) = Meaning(locked.sources, locked.parsed)
<1> DEFINE A == MakeLockSpec(locked.sources, locked.parsed)
           B == MakeLockSpec(sources, parsed)
<1>1. /\ sources \in Arguments /\ parsed \in ParseSourceFiles(sources.files)
      /\ locked.sources \in Arguments /\ locked.parsed \in ParseSourceFiles(locked.sources.files)
  BY DEF Inv, HashInv, Parsed
<1>2. sources.repo \in Repos /\ locked.sources.repo \in Repos
  BY <1>1 DEF Arguments
<1>3. IsDeps(A.deps) /\ IsDeps(B.deps)
  BY <1>1, LockSpecDeps
<1>4. PICK v \in OsxVariants(locked.sources.repo), reinsert \in BOOLEAN, removeNulls \in BOOLEAN :
          recorded = Computed(A, v, reinsert, removeNulls)
  BY DEF HashInv
<1>5. outcome = "skipped" <=> recorded \in Accepted(B, sources.repo)
  BY DEF HashInv
<1>6. A = B <=> A.deps = B.deps /\ A.channels = B.channels /\ A.repositories = B.repositories
  BY DEF MakeLockSpec
<1>7. Meaning(sources, parsed) = Meaning(locked.sources, locked.parsed)
          <=> B = A /\ Effective(sources.repo) = Effective(locked.sources.repo)
  BY DEF Meaning
<1> HIDE DEF A, B
<1>8. recorded \in Accepted(B, sources.repo)
          <=> /\ A.deps = B.deps /\ A.channels = B.channels /\ A.repositories = B.repositories
              /\ Effective(locked.sources.repo) = Effective(sources.repo)
  BY <1>2, <1>3, <1>4, HashTells
<1> QED
  BY <1>5, <1>6, <1>7, <1>8

-----------------------------------------------------------------------------
(* The last element of a sequence that is in a set: none or one.              *)
LastAt(s, Q) == {i \in DOMAIN s : s[i] \in Q /\ \A j \in DOMAIN s : i < j => s[j] \notin Q}

LastOne(s, Q) == {s[i] : i \in LastAt(s, Q)}

LEMMA LastIs ==
    ASSUME NEW X, NEW s \in Seq(X), NEW Q
    PROVE  /\ LastOne(s, Q) = {} <=> \A i \in DOMAIN s : s[i] \notin Q
           /\ \A i \in LastAt(s, Q) : LastOne(s, Q) = {s[i]}
           /\ LastOne(s, Q) # {} => \E i \in DOMAIN s : i \in LastAt(s, Q)
<1> DEFINE S == {i \in DOMAIN s : s[i] \in Q}
<1>1. Len(s) \in Nat /\ DOMAIN s = 1 .. Len(s) /\ S \in SUBSET (1 .. Len(s))
  OBVIOUS
<1>2. \A i \in LastAt(s, Q) : LastOne(s, Q) = {s[i]}
  <2> TAKE i \in LastAt(s, Q)
  <2>1. \A j \in LastAt(s, Q) : ~(i < j) /\ ~(j < i) /\ i \in Nat /\ j \in Nat
    BY <1>1 DEF LastAt
  <2>2. \A j \in LastAt(s, Q) : i = j
    BY <2>1
  <2> QED
    BY <2>2 DEF LastOne
<1>3. ASSUME S # {} PROVE LastOne(s, Q) # {}
  <2> HIDE DEF S
  <2>1. PICK i \in S : \A j \in S : j <= i
    BY <1>1, <1>3, LastIndex
  <2>2. i \in LastAt(s, Q)
    <3>1. \A j \in DOMAIN s : i < j => j \notin S
      BY <1>1, <2>1
    <3> QED
      BY <2>1, <3>1 DEF S, LastAt
  <2> QED
    BY <2>2 DEF LastOne
<1>4. \A i \in LastAt(s, Q) : i \in S
  BY DEF LastAt
<1> QED
  BY <1>2, <1>3, <1>4 DEF LastOne

LEMMA LastOfBoth ==
    ASSUME NEW X, NEW a \in Seq(X), NEW b \in Seq(X), NEW Q
    PROVE  LastOne(a \o b, Q) = IF LastOne(b, Q) = {} THEN LastOne(a, Q) ELSE LastOne(b, Q)
<1> DEFINE m == Len(a)  n == Len(b)  s == a \o b
<1>1. /\ m \in Nat /\ n \in Nat /\ s \in Seq(X)
      /\ DOMAIN s = 1 .. m + n /\ DOMAIN a = 1 .. m /\ DOMAIN b = 1 .. n
      /\ \A i \in 1 .. m : s[i] = a[i]
      /\ \A i \in 1 .. n : s[m + i] = b[i]
  OBVIOUS
<1> HIDE DEF m, n, s
<1>2. \A i \in 1 .. m + n : i \in 1 .. m \/ (i - m \in 1 .. n /\ m + (i - m) = i)
  BY <1>1
<1>3. CASE LastOne(b, Q) = {}
  <2>1. \A i \in 1 .. n : b[i] \notin Q
    BY <1>1, <1>3, LastIs
  <2>2. \A i \in 1 .. m + n : s[i] \in Q => i \in 1 .. m
    <3> TAKE i \in 1 .. m + n
    <3>1. CASE i \in 1 .. m
      BY <3>1
    <3>2. CASE i - m \in 1 .. n /\ m + (i - m) = i
      BY <1>1, <2>1, <3>2
    <3> QED
      BY <1>2, <3>1, <3>2
  <2>3. 1 .. m \subseteq 1 .. m + n
    BY <1>1
  <2>4. LastAt(s, Q) = LastAt(a, Q)
    BY <1>1, <2>2, <2>3 DEF LastAt
  <2>5. \A i \in LastAt(a, Q) : s[i] = a[i]
    BY <1>1 DEF LastAt
  <2> QED
    BY <1>3, <2>4, <2>5 DEF LastOne, s
<1>4. CASE LastOne(b, Q) # {}
  <2>1. PICK i \in DOMAIN b : i \in LastAt(b, Q)
    BY <1>4, LastIs
  <2>2. i \in 1 .. n /\ b[i] \in Q /\ \A j \in 1 .. n : i < j => b[j] \notin Q
    BY <1>1, <2>1 DEF LastAt
  <2>3. m + i \in 1 .. m + n /\ s[m + i] = b[i]
    BY <1>1, <2>2
  <2>4. ASSUME NEW j \in 1 .. m + n, m + i < j PROVE s[j] \notin Q
    <3>1. j - m \in 1 .. n /\ i < j - m /\ m + (j - m) = j
      BY <1>1, <2>2, <2>4
    <3>2. s[j] = b[j - m]
      BY <1>1, <3>1
    <3> QED
      BY <2>2, <3>1, <3>2
  <2>5. m + i \in LastAt(s, Q)
    BY <1>1, <2>2, <2>3, <2>4 DEF LastAt
  <2>6. LastOne(s, Q) = {s[m + i]} /\ LastOne(b, Q) = {b[i]}
    BY <1>1, <2>1, <2>5, LastIs
  <2> QED
    BY <1>4, <2>3, <2>6 DEF s
<1> QED
  BY <1>3, <1>4

LEMMA LastOfFlat ==
    ASSUME NEW X, NEW ss \in Seq(Seq(X)), NEW Q
    PROVE  /\ (\A i \in DOMAIN ss : LastOne(ss[i], Q) = {}) => LastOne(FlattenSeq(ss), Q) = {}
           /\ \A i \in DOMAIN ss :
                  /\ LastOne(ss[i], Q) # {}
                  /\ \A j \in DOMAIN ss : i < j => LastOne(ss[j], Q) = {}
                  => LastOne(FlattenSeq(ss), Q) = LastOne(ss[i], Q)
<1> DEFINE N == Len(ss)
           P(s, n) == /\ (\A i \in 1 .. n : LastOne(ss[i], Q) = {}) => LastOne(s, Q) = {}
                      /\ \A i \in 1 .. n :
                             /\ LastOne(ss[i], Q) # {}
                             /\ \A j \in 1 .. n : i < j => LastOne(ss[j], Q) = {}
                             => LastOne(s, Q) = LastOne(ss[i], Q)
<1>1. N \in Nat /\ DOMAIN ss = 1 .. N /\ \A i \in 1 .. N : ss[i] \in Seq(X)
  OBVIOUS
<1>2. PICK f \in [0 .. N -> Seq(X)] :
          /\ f[0] = <<>>
          /\ \A i \in 1 .. N : f[i] = f[i - 1] \o ss[i]
          /\ FlattenSeq(ss) = f[N]
  BY Flattening
<1> HIDE DEF N
<1> DEFINE S == {n \in 0 .. N : P(f[n], n)}
<1>3. 0 \in S
  <2>1. LastOne(<<>>, Q) = {} /\ 1 .. 0 = {}
    BY DEF LastOne, LastAt
  <2>2. P(f[0], 0)
    BY <1>2, <2>1
  <2> HIDE DEF P
  <2> QED
    BY <1>1, <2>2
<1>4. ASSUME NEW n \in 1 .. N, n - 1 \in S PROVE n \in S
  <2>1. /\ n - 1 \in 0 .. N /\ n \in 0 .. N /\ n \in 1 .. n
        /\ \A i \in 1 .. n : i = n \/ (i \in 1 .. n - 1 /\ i < n)
        /\ \A i \in 1 .. n - 1 : i \in 1 .. n
        /\ \A i \in 1 .. n : ~(n < i)
    BY <1>1
  <2>2. f[n - 1] \in Seq(X) /\ ss[n] \in Seq(X) /\ f[n] = f[n - 1] \o ss[n]
    BY <1>1, <1>2, <2>1
  <2> DEFINE g == f[n - 1]  h == f[n]  t == ss[n]
  <2>3. LastOne(h, Q) = IF LastOne(t, Q) = {} THEN LastOne(g, Q) ELSE LastOne(t, Q)
    BY <2>2, LastOfBoth
  <2>4. P(g, n - 1)
    BY <1>4
  <2> HIDE DEF g, h
  <2>5. P(h, n)
    <3>1. CASE LastOne(t, Q) = {}
      BY <2>1, <2>3, <2>4, <3>1
    <3>2. CASE LastOne(t, Q) # {}
      BY <2>1, <2>3, <3>2
    <3> QED
      BY <3>1, <3>2
  <2> HIDE DEF P
  <2> QED
    BY <2>1, <2>5 DEF h
<1> HIDE DEF P, S
<1>5. N \in S
  <2>1. \A n \in 0 .. N : n \in S
    BY <1>1, <1>3, <1>4, UpTo
  <2> QED
    BY <1>1, <2>1
<1>6. P(f[N], N)
  BY <1>5 DEF S
<1> QED
  BY <1>1, <1>2, <1>6 DEF P

(* Lists of which each part has the same last one have the same last one.     *)
LEMMA LastOfFlats ==
    ASSUME NEW X, NEW ss \in Seq(Seq(X)), NEW tt \in Seq(Seq(X)), NEW Q,
           DOMAIN ss = DOMAIN tt, \A i \in DOMAIN ss : LastOne(ss[i], Q) = LastOne(tt[i], Q)
    PROVE  LastOne(FlattenSeq(ss), Q) = LastOne(FlattenSeq(tt), Q)
<1> DEFINE H == {i \in DOMAIN ss : LastOne(ss[i], Q) # {}}
<1>1. Len(ss) \in Nat /\ DOMAIN ss = 1 .. Len(ss) /\ H \in SUBSET (1 .. Len(ss))
  OBVIOUS
<1>2. CASE H = {}
  BY <1>2, LastOfFlat
<1>3. CASE H # {}
  <2> HIDE DEF H
  <2>1. PICK i \in H : \A j \in H : j <= i
    BY <1>1, <1>3, LastIndex
  <2>2. \A j \in DOMAIN ss : i < j => j \notin H
    BY <1>1, <2>1
  <2>3. /\ i \in DOMAIN ss /\ LastOne(ss[i], Q) # {}
        /\ \A j \in DOMAIN ss : i < j => LastOne(ss[j], Q) = {}
    BY <2>1, <2>2 DEF H
  <2>4. LastOne(FlattenSeq(ss), Q) = LastOne(ss[i], Q)
    BY <2>3, LastOfFlat
  <2>5. LastOne(FlattenSeq(tt), Q) = LastOne(tt[i], Q)
    BY <2>3, LastOfFlat
  <2> QED
    BY <2>3, <2>4, <2>5
<1> QED
  BY <1>2, <1>3

LEMMA LastOfFiltered ==
    ASSUME NEW X, NEW s \in Seq(X), NEW T, NEW Q
    PROVE  LastOne(Filtered(s, T), Q) = LastOne(s, Q \intersect T)
<1> DEFINE ss == [i \in DOMAIN s |-> IF s[i] \in T THEN <<s[i]>> ELSE <<>>]
           R == Q \intersect T
<1>1. ss \in Seq(Seq(X)) /\ DOMAIN ss = DOMAIN s
  <2>1. \A i \in DOMAIN s : ss[i] \in Seq(X)
    OBVIOUS
  <2>2. Len(s) \in Nat /\ ss \in [1 .. Len(s) -> Seq(X)] /\ DOMAIN s = 1 .. Len(s)
    BY <2>1
  <2> HIDE DEF ss
  <2> QED
    BY <2>2
<1>2. Filtered(s, T) = FlattenSeq(ss)
  BY DEF Filtered
<1>3. \A i \in DOMAIN s : LastOne(ss[i], Q) = IF s[i] \in R THEN {s[i]} ELSE {}
  <2> TAKE i \in DOMAIN s
  <2>1. CASE s[i] \in T
    <3>1. ss[i] = <<s[i]>> /\ <<s[i]>>[1] = s[i] /\ DOMAIN <<s[i]>> = {1}
      BY <2>1
    <3>2. LastAt(<<s[i]>>, Q) = IF s[i] \in Q THEN {1} ELSE {}
      BY <3>1 DEF LastAt
    <3> HIDE DEF ss
    <3> QED
      BY <2>1, <3>1, <3>2 DEF LastOne
  <2>2. CASE s[i] \notin T
    <3>1. ss[i] = <<>>
      BY <2>2
    <3> HIDE DEF ss
    <3> QED
      BY <2>2, <3>1 DEF LastOne, LastAt
  <2> QED
    BY <2>1, <2>2
<1> HIDE DEF ss, R
<1>4. CASE LastOne(s, R) = {}
  <2>1. \A i \in DOMAIN ss : LastOne(ss[i], Q) = {}
    BY <1>1, <1>3, <1>4, LastIs
  <2> QED
    BY <1>1, <1>2, <1>4, <2>1, LastOfFlat DEF R
<1>5. CASE LastOne(s, R) # {}
  <2>1. PICK i \in DOMAIN s : i \in LastAt(s, R)
    BY <1>5, LastIs
  <2>2. LastOne(s, R) = {s[i]}
    BY <2>1, LastIs
  <2>3. s[i] \in R /\ \A j \in DOMAIN s : i < j => s[j] \notin R
    BY <2>1 DEF LastAt
  <2>4. LastOne(FlattenSeq(ss), Q) = LastOne(ss[i], Q)
    BY <1>1, <1>3, <2>3, LastOfFlat
  <2> QED
    BY <1>2, <1>3, <2>2, <2>3, <2>4 DEF R
<1> QED
  BY <1>4, <1>5

-----------------------------------------------------------------------------
(* Parses that agree on whatever is named once have the same outcome.         *)

Homonyms(Q) == Q \in SUBSET Dependency /\ \A d, e \in Q : d.key[2] = e.key[2]

Agree(a, b) == \A Q \in SUBSET Dependency : Homonyms(Q) => LastOne(a, Q) = LastOne(b, Q)

(* LastOne looks at nothing but what is in the sequence. *)
LEMMA LastOfThose ==
    ASSUME NEW s, NEW Q, NEW R, \A d \in ToSet(s) : d \in Q <=> d \in R
    PROVE  LastOne(s, Q) = LastOne(s, R)
<1>1. \A i \in DOMAIN s : s[i] \in Q <=> s[i] \in R
  BY DEF ToSet
<1>2. LastAt(s, Q) = LastAt(s, R)
  BY <1>1 DEF LastAt
<1> QED
  BY <1>2 DEF LastOne

LEMMA AgreeBetween ==
    ASSUME NEW x \in Seq(Dependency), NEW y \in Seq(Dependency),
           NEW a \in Seq(Dependency), NEW b \in Seq(Dependency), Agree(a, b)
    PROVE  /\ Agree(x \o a, x \o b) /\ Agree(a \o y, b \o y)
           /\ x \o a \in Seq(Dependency) /\ a \o y \in Seq(Dependency)
<1>1. \A Q : /\ LastOne(x \o a, Q) = IF LastOne(a, Q) = {} THEN LastOne(x, Q) ELSE LastOne(a, Q)
             /\ LastOne(x \o b, Q) = IF LastOne(b, Q) = {} THEN LastOne(x, Q) ELSE LastOne(b, Q)
             /\ LastOne(a \o y, Q) = IF LastOne(y, Q) = {} THEN LastOne(a, Q) ELSE LastOne(y, Q)
             /\ LastOne(b \o y, Q) = IF LastOne(y, Q) = {} THEN LastOne(b, Q) ELSE LastOne(y, Q)
  BY LastOfBoth
<1>2. x \o a \in Seq(Dependency) /\ a \o y \in Seq(Dependency)
  OBVIOUS
<1> QED
  BY <1>1, <1>2 DEF Agree

(* What specification_with_dependencies does to a dependency. *)
Forced(f, d) == IF d.key[2] \in f.forced THEN [d EXCEPT !.key[1] = Pip] ELSE d

AllForced(f, deps) == [i \in DOMAIN deps |-> Forced(f, deps[i])]

(* What it makes a dependency in Q that applies. *)
Behind(f, Q) == {d \in Dependency : Forced(f, d) \in Q /\ Forced(f, d).markers # "elsewhere"}

LEMMA ForceIsOne ==
    ASSUME NEW f, NEW d \in Dependency
    PROVE  Forced(f, d) \in Dependency /\ Forced(f, d).key[2] = d.key[2]
<1>1. PICK m \in {Conda, Pip}, n \in Nat : d.key = <<m, n>>
  BY DEF Dependency
<1>2. CASE Forced(f, d) = [d EXCEPT !.key[1] = Pip]
  <2>1. [d EXCEPT !.key[1] = Pip] = [d EXCEPT !.key = <<Pip, n>>]
    BY <1>1 DEF Dependency
  <2> QED
    BY <1>1, <1>2, <2>1 DEF Dependency
<1>3. CASE Forced(f, d) = d
  BY <1>3
<1> QED
  BY <1>2, <1>3 DEF Forced

LEMMA LastOfFinished ==
    ASSUME NEW f, NEW all \in Seq(Dependency), NEW Q \in SUBSET Dependency
    PROVE  LastOne(Evaluated(AllForced(f, all)), Q) =
               {Forced(f, d) : d \in LastOne(all, Behind(f, Q))}
<1> DEFINE forced == [i \in DOMAIN all |-> Forced(f, all[i])]
           R == {d \in Dependency : Forced(f, d) \in Q /\ Forced(f, d).markers # "elsewhere"}
           here == {d \in ToSet(forced) : d.markers # "elsewhere"}
           P == {d \in Q : d.markers # "elsewhere"}
<1>1. forced \in Seq(Dependency) /\ DOMAIN forced = DOMAIN all
  <2>1. \A i \in DOMAIN all : all[i] \in Dependency
    OBVIOUS
  <2>2. forced \in [DOMAIN all -> Dependency]
    BY <2>1, ForceIsOne
  <2> HIDE DEF forced
  <2> QED
    BY <2>2, SeqOver
<1>2. LastOne(Evaluated(forced), Q) = LastOne(forced, Q \intersect here)
  BY <1>1, LastOfFiltered DEF Evaluated
<1>3. LastOne(forced, Q \intersect here) = LastOne(forced, P)
  <2>1. \A d \in ToSet(forced) : d \in Q \intersect here <=> d \in P
    OBVIOUS
  <2> HIDE DEF forced, here, P
  <2> QED
    BY <2>1, LastOfThose
<1>4. \A i \in DOMAIN all : all[i] \in Dependency /\ forced[i] = Forced(f, all[i])
  OBVIOUS
<1> HIDE DEF forced
<1>5. \A i \in DOMAIN all : forced[i] \in P <=> all[i] \in R
  BY <1>4
<1> HIDE DEF P, R
<1>6. LastAt(forced, P) = LastAt(all, R)
  BY <1>1, <1>5 DEF LastAt
<1>7. LastOne(forced, P) = {Forced(f, all[i]) : i \in LastAt(all, R)}
  <2>1. \A i \in LastAt(all, R) : forced[i] = Forced(f, all[i])
    BY <1>4 DEF LastAt
  <2> QED
    BY <1>6, <2>1 DEF LastOne
<1>8. {Forced(f, all[i]) : i \in LastAt(all, R)} = {Forced(f, d) : d \in LastOne(all, R)}
  BY DEF LastOne
<1> QED
  BY <1>2, <1>3, <1>7, <1>8 DEF forced, R, AllForced, Behind

LEMMA AgreeFinished ==
    ASSUME NEW f, IsPyproject(f),
           NEW a \in Seq(Dependency), NEW b \in Seq(Dependency), Agree(a, b)
    PROVE  Agree(Finished(f, a), Finished(f, b))
<1> DEFINE own == CondaDeps(f.own, "main")
           x == a \o own
           y == b \o own
<1>1. own \in Seq(Dependency)
  BY OwnRead DEF Reads
<1>2. Finished(f, a) = Evaluated(AllForced(f, x)) /\ Finished(f, b) = Evaluated(AllForced(f, y))
  BY DEF Finished, AllForced, Forced
<1> HIDE DEF own
<1>3. x \in Seq(Dependency) /\ y \in Seq(Dependency) /\ Agree(x, y)
  BY <1>1, AgreeBetween
<1> HIDE DEF x, y
<1>4. \A Q \in SUBSET Dependency :
          /\ LastOne(Finished(f, a), Q) = {Forced(f, d) : d \in LastOne(x, Behind(f, Q))}
          /\ LastOne(Finished(f, b), Q) = {Forced(f, d) : d \in LastOne(y, Behind(f, Q))}
  BY <1>2, <1>3, LastOfFinished
<1>5. ASSUME NEW Q \in SUBSET Dependency, Homonyms(Q)
      PROVE  LastOne(Finished(f, a), Q) = LastOne(Finished(f, b), Q)
  <2>1. Behind(f, Q) \in SUBSET Dependency
    BY DEF Behind
  <2>2. \A d, e \in Behind(f, Q) : d.key[2] = e.key[2]
    BY <1>5, ForceIsOne DEF Homonyms, Behind
  <2>3. LastOne(x, Behind(f, Q)) = LastOne(y, Behind(f, Q))
    BY <1>3, <2>1, <2>2 DEF Agree, Homonyms
  <2> QED
    BY <1>4, <2>3
<1> QED
  BY <1>5 DEF Agree

(* The groups of optional dependencies, in an order. *)
InOrder(f, o) == FlattenSeq([k \in DOMAIN o |-> SectionDeps(f, f.groups[o[k]])])

LastOfGroup(f, g, Q) == LastOne(SectionDeps(f, f.groups[g]), Q)

LEMMA GroupsInOrder ==
    ASSUME NEW f, f.kind = "pyproject", f.layout # "poetry", IsPyproject(f),
           NEW o \in SetToSeqs(DOMAIN f.groups), NEW Q
    PROVE  /\ InOrder(f, o) \in Seq(Dependency)
           /\ (\A g \in DOMAIN f.groups : LastOfGroup(f, g, Q) = {}) => LastOne(InOrder(f, o), Q) = {}
           /\ \A g \in DOMAIN f.groups :
                  /\ LastOfGroup(f, g, Q) # {}
                  /\ \A h \in DOMAIN f.groups : h # g => LastOfGroup(f, h, Q) = {}
                  => LastOne(InOrder(f, o), Q) = LastOfGroup(f, g, Q)
<1> DEFINE groups == f.groups
           G == DOMAIN groups
           parts == [k \in DOMAIN o |-> SectionDeps(f, groups[o[k]])]
<1>1. groups \in Seq(Section)
  <2>1. groups \in Seq([name : STRING, entries : Seq(TomlLine)])
    BY DEF IsPyproject
  <2>2. [name : STRING, entries : Seq(TomlLine)] \subseteq Section
    BY DEF Section, Category
  <2> HIDE DEF groups
  <2> QED
    BY <2>1, <2>2, SeqOfMore
<1>2. InOrder(f, o) = FlattenSeq(parts)
  BY DEF InOrder
<1>3. IsFiniteSet(G)
  BY <1>1, FS_Interval
<1>4. \A g \in G : SectionDeps(f, groups[g]) \in Seq(Dependency)
  <2> TAKE g \in G
  <2>1. groups[g] \in Section
    BY <1>1
  <2> QED
    BY <2>1, SectionRead DEF Reads
<1> HIDE DEF groups
<1>5. o \in Seq(G) /\ ToSet(o) = G /\ \A k, l \in DOMAIN o : k # l => o[k] # o[l]
  <2>1. o \in Seq(G) /\ ToSet(o) = G
    BY <1>3, OrderedHas DEF groups
  <2>2. \A k, l \in DOMAIN o : k # l => o[k] # o[l]
    BY DEF SetToSeqs, groups
  <2> QED
    BY <2>1, <2>2
<1> HIDE DEF G
<1>6. \A k \in DOMAIN o : o[k] \in G /\ parts[k] = SectionDeps(f, groups[o[k]])
  BY <1>5
<1>7. parts \in Seq(Seq(Dependency)) /\ DOMAIN parts = DOMAIN o
  <2>1. parts \in [DOMAIN o -> Seq(Dependency)]
    BY <1>4, <1>6
  <2> HIDE DEF parts
  <2> QED
    BY <1>5, <2>1, SeqOver
<1> HIDE DEF parts
<1>8. FlattenSeq(parts) \in Seq(Dependency)
  BY <1>7, Flattened
<1>9. ASSUME \A g \in G : LastOne(SectionDeps(f, groups[g]), Q) = {}
      PROVE  LastOne(FlattenSeq(parts), Q) = {}
  BY <1>6, <1>7, <1>9, LastOfFlat
<1>10. ASSUME NEW g \in G, LastOne(SectionDeps(f, groups[g]), Q) # {},
              \A h \in G : h # g => LastOne(SectionDeps(f, groups[h]), Q) = {}
       PROVE  LastOne(FlattenSeq(parts), Q) = LastOne(SectionDeps(f, groups[g]), Q)
  <2>1. PICK k \in DOMAIN o : o[k] = g
    BY <1>5 DEF ToSet
  <2>2. \A l \in DOMAIN o : k < l => LastOne(parts[l], Q) = {}
    <3> SUFFICES ASSUME NEW l \in DOMAIN o, k < l PROVE LastOne(parts[l], Q) = {}
      OBVIOUS
    <3>1. k # l
      BY <1>5
    <3> QED
      BY <1>5, <1>6, <1>10, <2>1, <3>1
  <2> QED
    BY <1>6, <1>7, <1>10, <2>1, <2>2, LastOfFlat
<1> QED
  BY <1>2, <1>8, <1>9, <1>10 DEF G, groups, LastOfGroup

(* Of the groups at most one names a package, unless two of them do.          *)
LEMMA GroupsApart ==
    ASSUME NEW f, f.kind = "pyproject", f.layout # "poetry", ~f.skip, IsPyproject(f), ~InTwoGroups(f),
           NEW Q, Homonyms(Q), NEW g \in DOMAIN f.groups, NEW h \in DOMAIN f.groups,
           LastOfGroup(f, g, Q) # {}, LastOfGroup(f, h, Q) # {}
    PROVE  g = h
<1>1. \A k \in DOMAIN f.groups : f.groups[k].entries \in Seq(TomlLine)
  <2> DEFINE G == [name : STRING, entries : Seq(TomlLine)]
  <2>1. f.groups \in Seq(G)
    BY DEF IsPyproject
  <2>2. \A s \in G : s.entries \in Seq(TomlLine)
    OBVIOUS
  <2> HIDE DEF G
  <2>3. \A k \in DOMAIN f.groups : f.groups[k] \in G
    BY <2>1
  <2> QED
    BY <2>2, <2>3
<1>2. ASSUME NEW k \in DOMAIN f.groups, LastOfGroup(f, k, Q) # {}
      PROVE  \E e \in ToSet(f.groups[k].entries) :
                 /\ e \in TomlLine
                 /\ \E d \in Q : d.key[2] = Translated(f.nonConda, e.name)
  <2> DEFINE entries == f.groups[k].entries
             deps    == SectionDeps(f, f.groups[k])
  <2>1. entries \in Seq(TomlLine)
    BY <1>1
  <2>2. PICK i \in DOMAIN deps : deps[i] \in Q
    BY <1>2 DEF LastOfGroup, LastOne, LastAt
  <2>3. i \in DOMAIN entries /\ deps[i].key[2] = Translated(f.nonConda, entries[i].name)
    BY <2>2 DEF SectionDeps, PythonDeps, PythonDep, Dep
  <2> HIDE DEF deps, entries
  <2>4. entries[i] \in ToSet(entries) /\ entries[i] \in TomlLine
    BY <2>1, <2>3 DEF ToSet
  <2> QED
    BY <2>2, <2>3, <2>4 DEF entries
<1>3. PICK e \in ToSet(f.groups[g].entries) :
          \E d \in Q : d.key[2] = Translated(f.nonConda, e.name)
  BY <1>2
<1>4. PICK x \in ToSet(f.groups[h].entries) :
          \E d \in Q : d.key[2] = Translated(f.nonConda, x.name)
  BY <1>2
<1>5. Translated(f.nonConda, e.name) = Translated(f.nonConda, x.name)
  BY <1>3, <1>4 DEF Homonyms
<1>6. CondaName[e.name] = CondaName[x.name]
  BY <1>5 DEF Translated
<1> QED
  BY <1>6 DEF InTwoGroups

LEMMA RequirementsAgree ==
    ASSUME NEW f, f.kind = "pyproject", f.layout # "poetry", ~f.skip, IsPyproject(f), ~InTwoGroups(f),
           NEW a \in Requirements(f), NEW b \in Requirements(f)
    PROVE  a \in Seq(Dependency) /\ b \in Seq(Dependency) /\ Agree(a, b)
<1> DEFINE first == PythonDeps(f.main, f.nonConda, "main")
<1>1. PICK o \in SetToSeqs(DOMAIN f.groups) : a = Finished(f, first \o InOrder(f, o))
  BY DEF Requirements, InOrder
<1>2. PICK p \in SetToSeqs(DOMAIN f.groups) : b = Finished(f, first \o InOrder(f, p))
  BY DEF Requirements, InOrder
<1>3. first \in Seq(Dependency)
  <2>1. first = SectionDeps(f, Named("main", f.main))
    BY DEF SectionDeps, Named, DevTags
  <2>2. Named("main", f.main) \in Section
    BY DEF IsPyproject, Section, Category, Named
  <2> QED
    BY <2>1, <2>2, SectionRead DEF Reads
<1> HIDE DEF first
<1>4. InOrder(f, o) \in Seq(Dependency) /\ InOrder(f, p) \in Seq(Dependency)
  BY GroupsInOrder
<1>5. ASSUME NEW Q \in SUBSET Dependency, Homonyms(Q)
      PROVE  LastOne(InOrder(f, o), Q) = LastOne(InOrder(f, p), Q)
  <2>1. CASE \A g \in DOMAIN f.groups : LastOfGroup(f, g, Q) = {}
    BY <2>1, GroupsInOrder
  <2>2. CASE \E g \in DOMAIN f.groups : LastOfGroup(f, g, Q) # {}
    <3>1. PICK g \in DOMAIN f.groups : LastOfGroup(f, g, Q) # {}
      BY <2>2
    <3>2. \A h \in DOMAIN f.groups : h # g => LastOfGroup(f, h, Q) = {}
      BY <1>5, <3>1, GroupsApart
    <3>3. LastOne(InOrder(f, o), Q) = LastOfGroup(f, g, Q)
      BY <3>1, <3>2, GroupsInOrder
    <3>4. LastOne(InOrder(f, p), Q) = LastOfGroup(f, g, Q)
      BY <3>1, <3>2, GroupsInOrder
    <3> QED
      BY <3>3, <3>4
  <2> QED
    BY <2>1, <2>2
<1>6. Agree(InOrder(f, o), InOrder(f, p))
  BY <1>5 DEF Agree
<1>7. /\ first \o InOrder(f, o) \in Seq(Dependency) /\ first \o InOrder(f, p) \in Seq(Dependency)
      /\ Agree(first \o InOrder(f, o), first \o InOrder(f, p))
  BY <1>3, <1>4, <1>6, AgreeBetween
<1>8. Agree(a, b)
  BY <1>1, <1>2, <1>7, AgreeFinished
<1>9. \A s \in Seq(Dependency) : Finished(f, s) \in Seq(Dependency)
  <2> TAKE s \in Seq(Dependency)
  <2> DEFINE own == CondaDeps(f.own, "main")  all == s \o own
  <2>1. own \in Seq(Dependency)
    BY OwnRead DEF Reads
  <2>2. Finished(f, s) = Evaluated(AllForced(f, all))
    BY DEF Finished, AllForced, Forced
  <2> HIDE DEF own
  <2>3. all \in Seq(Dependency) /\ \A i \in DOMAIN all : all[i] \in Dependency
    BY <2>1
  <2> HIDE DEF all
  <2>4. AllForced(f, all) \in [DOMAIN all -> Dependency]
    BY <2>3, ForceIsOne DEF AllForced
  <2>5. AllForced(f, all) \in Seq(Dependency)
    BY <2>3, <2>4, SeqOver
  <2> QED
    BY <2>2, <2>5, EvaluatedHas
<1> QED
  BY <1>1, <1>2, <1>7, <1>8, <1>9

LEMMA ParsesAgree ==
    ASSUME NEW f \in Files, ~InTwoGroups(f), NEW c \in Parses(f), NEW d \in Parses(f)
    PROVE  Agree(c.deps, d.deps)
<1>1. IsFile(f)
  BY LockSpecAssumption
<1>2. CASE f.kind = "environment"
  <2>1. c.deps \in Environment(f) /\ d.deps \in Environment(f)
    BY <1>2 DEF Parses
  <2>2. c.deps = d.deps
    BY <2>1 DEF Environment
  <2> QED
    BY <2>2 DEF Agree
<1>3. CASE f.kind = "meta"
  <2>1. c.deps \in Meta(f) /\ d.deps \in Meta(f)
    BY <1>3 DEF Parses
  <2>2. c.deps = d.deps
    BY <2>1 DEF Meta
  <2> QED
    BY <2>2 DEF Agree
<1>4. CASE f.kind = "pyproject"
  <2>1. IsPyproject(f) /\ c.deps \in Pyproject(f) /\ d.deps \in Pyproject(f)
    BY <1>1, <1>4 DEF IsFile, Parses
  <2>2. f.skip \in BOOLEAN /\ f.layout \in {"poetry", "project", "pdm"}
    BY <2>1 DEF IsPyproject
  <2>3. CASE f.skip
    <3>1. c.deps = d.deps
      BY <2>1, <2>3 DEF Pyproject
    <3> QED
      BY <3>1 DEF Agree
  <2>4. CASE ~f.skip /\ f.layout = "poetry"
    <3>1. c.deps \in Poetry(f) /\ d.deps \in Poetry(f)
      BY <2>1, <2>4 DEF Pyproject
    <3>2. c.deps = d.deps
      BY <3>1 DEF Poetry
    <3> QED
      BY <3>2 DEF Agree
  <2>5. CASE ~f.skip /\ f.layout = "project"
    <3>1. c.deps \in Requirements(f) /\ d.deps \in Requirements(f)
      BY <2>1, <2>5 DEF Pyproject
    <3> QED
      BY <1>4, <2>1, <2>5, <3>1, RequirementsAgree
  <2>6. CASE ~f.skip /\ f.layout = "pdm"
    <3>1. c.deps \in Pdm(f) /\ d.deps \in Pdm(f)
      BY <2>1, <2>6 DEF Pyproject
    <3> DEFINE more == PythonDeps(f.dev, f.nonConda, "dev")
    <3>2. PICK a \in Requirements(f) : c.deps = a \o more
      BY <3>1 DEF Pdm
    <3>3. PICK b \in Requirements(f) : d.deps = b \o more
      BY <3>1 DEF Pdm
    <3>4. more \in Seq(Dependency)
      <4>1. f.dev \in Seq(TomlLine)
        BY <2>1, <2>6, <3>1 DEF IsPyproject, Pdm
      <4>2. more = SectionDeps(f, Named("dev", f.dev))
        BY DEF SectionDeps, Named, DevTags
      <4>3. Named("dev", f.dev) \in Section
        BY <2>1, <4>1, SectionsAre
      <4> QED
        BY <1>4, <2>1, <2>6, <4>2, <4>3, SectionRead DEF Reads
    <3> HIDE DEF more
    <3>5. a \in Seq(Dependency) /\ b \in Seq(Dependency) /\ Agree(a, b)
      BY <1>4, <2>1, <2>6, RequirementsAgree
    <3>6. Agree(a \o more, b \o more)
      BY <3>4, <3>5, AgreeBetween
    <3> QED
      BY <3>2, <3>3, <3>6
  <2> QED
    BY <2>2, <2>3, <2>4, <2>5, <2>6
<1> QED
  BY <1>1, <1>2, <1>3, <1>4 DEF IsFile

LEMMA ChainedAgree ==
    ASSUME NEW files \in Lists(MaxFiles), \A i \in DOMAIN files : ~InTwoGroups(files[i]),
           NEW b \in ParseSourceFiles(files), NEW c \in ParseSourceFiles(files)
    PROVE  Agree(Chained(b), Chained(c))
<1> DEFINE bs == [i \in DOMAIN b |-> b[i].deps]
           cs == [i \in DOMAIN c |-> c[i].deps]
<1>1. /\ files \in Seq(Files) /\ DOMAIN b = DOMAIN files /\ DOMAIN c = DOMAIN files
      /\ \A i \in DOMAIN files : files[i] \in Files /\ b[i] \in Parses(files[i]) /\ c[i] \in Parses(files[i])
  BY ListsAreLists, ParsedOf
<1>2. bs \in [DOMAIN files -> Seq(Dependency)] /\ cs \in [DOMAIN files -> Seq(Dependency)]
  BY <1>1, ParsesHonour DEF Honours
<1>3. \A i \in DOMAIN files : Agree(bs[i], cs[i])
  BY <1>1, ParsesAgree
<1>4. Chained(b) = FlattenSeq(bs) /\ Chained(c) = FlattenSeq(cs)
  BY DEF Chained
<1> HIDE DEF bs, cs
<1>5. /\ bs \in Seq(Seq(Dependency)) /\ cs \in Seq(Seq(Dependency))
      /\ DOMAIN bs = DOMAIN files /\ DOMAIN cs = DOMAIN files
  BY <1>1, <1>2, SeqOver
<1>6. ASSUME NEW Q \in SUBSET Dependency, Homonyms(Q)
      PROVE  LastOne(FlattenSeq(bs), Q) = LastOne(FlattenSeq(cs), Q)
  <2>1. \A i \in DOMAIN bs : LastOne(bs[i], Q) = LastOne(cs[i], Q)
    BY <1>3, <1>5, <1>6 DEF Agree
  <2> QED
    BY <1>5, <2>1, LastOfFlats
<1> QED
  BY <1>4, <1>6 DEF Agree

(* What is aggregated of a key is the last one of it. *)
LEMMA AggregatedIsLast ==
    ASSUME NEW contents, Chained(contents) \in Seq(Dependency), NEW k
    PROVE  LET Q == {d \in Dependency : d.key = k}
           IN  /\ k \in DOMAIN Aggregated(contents) <=> LastOne(Chained(contents), Q) # {}
               /\ k \in DOMAIN Aggregated(contents) =>
                      LastOne(Chained(contents), Q) = {Aggregated(contents)[k]}
<1> DEFINE all == Chained(contents)
           N == Len(all)
           unique == Aggregated(contents)
           Q == {d \in Dependency : d.key = k}
<1>1. N \in Nat /\ DOMAIN all = 1 .. N /\ all \in Seq(Dependency) /\ \A i \in 1 .. N : all[i] \in Dependency
  OBVIOUS
<1>2. LastOfEach(unique, all, N)
  BY LastCollected
<1> HIDE DEF all, N, unique
<1>3. ASSUME k \in DOMAIN unique PROVE LastOne(all, Q) = {unique[k]}
  <2>1. PICK i \in 1 .. N : /\ all[i].key = k /\ unique[k] = all[i]
                            /\ \A j \in 1 .. N : all[j].key = k => j <= i
    BY <1>2, <1>3 DEF LastOfEach
  <2>2. \A j \in 1 .. N : i < j => ~(j <= i)
    BY <1>1
  <2>3. i \in LastAt(all, Q)
    BY <1>1, <2>1, <2>2 DEF LastAt
  <2> HIDE DEF Q
  <2>4. LastOne(all, Q) = {all[i]}
    BY <1>1, <2>3, LastIs
  <2> QED
    BY <2>1, <2>4
<1>4. ASSUME LastOne(all, Q) # {} PROVE k \in DOMAIN unique
  <2>1. PICK i \in 1 .. N : all[i] \in Q
    BY <1>1, <1>4, LastIs
  <2> QED
    BY <1>2, <2>1 DEF LastOfEach
<1> QED
  BY <1>3, <1>4 DEF all, unique

LEMMA SameSpec ==
    ASSUME NEW s \in Arguments, \A i \in DOMAIN s.files : ~InTwoGroups(s.files[i]),
           NEW b \in ParseSourceFiles(s.files), NEW c \in ParseSourceFiles(s.files)
    PROVE  MakeLockSpec(s, b) = MakeLockSpec(s, c)
<1> DEFINE B == Aggregated(b)
           C == Aggregated(c)
           Q(k) == {d \in Dependency : d.key = k}
<1>1. s.files \in Lists(MaxFiles)
  BY DEF Arguments
<1>2. ChannelsOf(b) = ChannelsOf(c) /\ RepositoriesOf(b) = RepositoriesOf(c)
  BY <1>1, ParsedOf
<1>3. Chained(b) \in Seq(Dependency) /\ Chained(c) \in Seq(Dependency)
  BY <1>1, ChainedIsOne
<1>4. \A k : LastOne(Chained(b), Q(k)) = LastOne(Chained(c), Q(k))
  <2> TAKE k
  <2>1. Q(k) \in SUBSET Dependency /\ Homonyms(Q(k))
    BY DEF Homonyms
  <2>2. Agree(Chained(b), Chained(c))
    BY <1>1, ChainedAgree
  <2> QED
    BY <2>1, <2>2 DEF Agree
<1>5. \A k : /\ k \in DOMAIN B <=> LastOne(Chained(b), Q(k)) # {}
             /\ k \in DOMAIN B => LastOne(Chained(b), Q(k)) = {B[k]}
             /\ k \in DOMAIN C <=> LastOne(Chained(c), Q(k)) # {}
             /\ k \in DOMAIN C => LastOne(Chained(c), Q(k)) = {C[k]}
  BY <1>3, AggregatedIsLast
<1>6. MakeLockSpec(s, b) =
          [ deps     |-> [k \in {l \in DOMAIN B : Fits(B[l], s.filter)} |-> B[k]],
            channels |-> IF s.overrides # <<>> THEN s.overrides ELSE Longest(ChannelsOf(b)),
            repositories |-> Longest(RepositoriesOf(b)) ]
  BY DEF MakeLockSpec
<1>7. MakeLockSpec(s, c) =
          [ deps     |-> [k \in {l \in DOMAIN C : Fits(C[l], s.filter)} |-> C[k]],
            channels |-> IF s.overrides # <<>> THEN s.overrides ELSE Longest(ChannelsOf(c)),
            repositories |-> Longest(RepositoriesOf(c)) ]
  BY DEF MakeLockSpec
<1> HIDE DEF B, C, Q
<1>8. DOMAIN B = DOMAIN C /\ \A k \in DOMAIN B : B[k] = C[k]
  BY <1>4, <1>5
<1>9. {l \in DOMAIN B : Fits(B[l], s.filter)} = {l \in DOMAIN C : Fits(C[l], s.filter)}
  BY <1>8
<1>10. [k \in {l \in DOMAIN B : Fits(B[l], s.filter)} |-> B[k]]
           = [k \in {l \in DOMAIN C : Fits(C[l], s.filter)} |-> C[k]]
  BY <1>8, <1>9
<1> QED
  BY <1>2, <1>6, <1>7, <1>10

-----------------------------------------------------------------------------
LEMMA SkippedInInv == ASSUME Inv, HashInv PROVE SkippedIffTheSame
<1> SUFFICES ASSUME outcome \in {"skipped", "relocked"}
             PROVE  /\ outcome = "skipped" <=> Meaning(sources, parsed) = Meaning(locked.sources, locked.parsed)
                    /\ outcome = "relocked" /\ sources = locked.sources =>
                           \E i \in DOMAIN sources.files : InTwoGroups(sources.files[i])
  BY DEF SkippedIffTheSame
<1>1. outcome = "skipped" <=> Meaning(sources, parsed) = Meaning(locked.sources, locked.parsed)
  BY SkippedIfSame
<1>2. ASSUME sources = locked.sources, \A i \in DOMAIN sources.files : ~InTwoGroups(sources.files[i])
      PROVE  outcome = "skipped"
  <2>1. /\ sources \in Arguments /\ parsed \in ParseSourceFiles(sources.files)
        /\ locked.parsed \in ParseSourceFiles(sources.files)
    BY <1>2 DEF Inv, HashInv, Parsed
  <2>2. MakeLockSpec(sources, parsed) = MakeLockSpec(sources, locked.parsed)
    BY <1>2, <2>1, SameSpec
  <2>3. Meaning(sources, parsed) = Meaning(locked.sources, locked.parsed)
    BY <1>2, <2>2 DEF Meaning
  <2> QED
    BY <1>1, <2>3
<1> QED
  BY <1>1, <1>2

(* A solve is skipped if and only if what is to be locked is what was locked,  *)
(* however an earlier release hashed it; and unless two groups name a package  *)
(* what has not been edited is never solved again.                            *)
THEOREM SkipsTheSame == Spec => []SkippedIffTheSame
<1>1. Init => Inv /\ HashInv
  BY InitInv DEF Init, HashInv
<1>2. Inv /\ HashInv /\ [Next]_vars => (Inv /\ HashInv)'
  BY NextInv, HashNext
<1>3. Inv /\ HashInv => SkippedIffTheSame
  BY SkippedInInv
<1> QED
  BY <1>1, <1>2, <1>3, PTL DEF Spec
=============================================================================
