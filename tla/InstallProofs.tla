--------------------------- MODULE InstallProofs ---------------------------
(***************************************************************************)
(* Installing, and the processes that do it, for any programs, pipes of any *)
(* size and any request.  The invariant of an invocation follows each line   *)
(* from the program through its pipe to who reads it, by its position; that *)
(* of install says which files are open at which step.                      *)
(***************************************************************************)
EXTENDS Install, TLAPS, WellFoundedInduction

-----------------------------------------------------------------------------
(* Lines in order. *)

LEMMA LeastPosition ==
    ASSUME NEW S \in SUBSET Nat, S # {}
    PROVE  \E x \in S : \A y \in S : x <= y
<1>1. PICK x \in S : \A y \in S : ~(<<y, x>> \in OpToRel(<, Nat))
  BY NatLessThanWellFounded, WFMin
<1>2. ASSUME NEW y \in S PROVE x <= y
  <2>1. CASE y < x
    <3>1. <<y, x>> \in Nat \X Nat /\ <<y, x>>[1] < <<y, x>>[2]
      BY <2>1
    <3> QED
      BY <1>1, <3>1 DEF OpToRel
  <2> QED
    BY <2>1
<1> QED
  BY <1>2

LEMMA NothingInOrder ==
    ASSUME NEW w
    PROVE  /\ InOrder(<<>>, {}, w)
           /\ \A S : InOrder(<<>>, S, w) => S = {}
<1>1. DOMAIN <<>> = {}
  OBVIOUS
<1>2. [i \in {} |-> i] \in [{} -> {}]
  OBVIOUS
<1>3. InOrder(<<>>, {}, w)
  BY <1>1, <1>2 DEF InOrder
<1>4. ASSUME NEW S, InOrder(<<>>, S, w) PROVE S = {}
  BY <1>1, <1>4 DEF InOrder
<1> QED
  BY <1>3, <1>4

(* A line that is appended takes a position after all the others. *)
LEMMA AppendInOrder ==
    ASSUME NEW X, NEW l \in Seq(X), NEW w, NEW S \in SUBSET Nat, InOrder(l, S, w),
           NEW n \in Nat, \A m \in S : m < n
    PROVE  InOrder(Append(l, w[n][2]), S \union {n}, w)
<1>1. PICK pos \in [DOMAIN l -> S] :
          /\ \A i, j \in DOMAIN l : i < j => pos[i] < pos[j]
          /\ \A m \in S : \E i \in DOMAIN l : pos[i] = m
          /\ \A i \in DOMAIN l : l[i] = w[pos[i]][2]
  BY DEF InOrder
<1> DEFINE k == Append(l, w[n][2])
           q == [i \in DOMAIN k |-> IF i \in DOMAIN l THEN pos[i] ELSE n]
<1>2. /\ DOMAIN l = 1 .. Len(l) /\ Len(l) \in Nat
      /\ DOMAIN k = 1 .. Len(l) + 1
      /\ \A i \in DOMAIN l : k[i] = l[i]
      /\ k[Len(l) + 1] = w[n][2]
  OBVIOUS
<1> HIDE DEF k
<1>3. q \in [DOMAIN k -> S \union {n}]
  BY <1>1
<1>4. ASSUME NEW i \in DOMAIN k, NEW j \in DOMAIN k, i < j PROVE q[i] < q[j]
  <2>1. i \in DOMAIN l /\ q[i] = pos[i] /\ pos[i] \in S
    BY <1>1, <1>2, <1>4
  <2>2. CASE j \in DOMAIN l
    BY <1>1, <1>4, <2>1, <2>2
  <2>3. CASE j \notin DOMAIN l
    BY <2>1, <2>3
  <2> QED
    BY <2>2, <2>3
<1>5. \A m \in S \union {n} : \E i \in DOMAIN k : q[i] = m
  <2> SUFFICES ASSUME NEW m \in S \union {n} PROVE \E i \in DOMAIN k : q[i] = m
    OBVIOUS
  <2>1. CASE m \in S
    <3>1. PICK i \in DOMAIN l : pos[i] = m
      BY <1>1, <2>1
    <3> QED
      BY <1>2, <3>1
  <2>2. CASE m = n
    BY <1>2, <2>2
  <2> QED
    BY <2>1, <2>2
<1>6. \A i \in DOMAIN k : k[i] = w[q[i]][2]
  BY <1>1, <1>2
<1> QED
  BY <1>3, <1>4, <1>5, <1>6 DEF InOrder, k

(* The first line has the least position. *)
LEMMA HeadInOrder ==
    ASSUME NEW X, NEW l \in Seq(X), l # <<>>, NEW w, NEW S \in SUBSET Nat, InOrder(l, S, w)
    PROVE  \E n \in S : /\ \A m \in S : n <= m
                        /\ Head(l) = w[n][2]
                        /\ InOrder(Tail(l), S \ {n}, w)
<1>1. PICK pos \in [DOMAIN l -> S] :
          /\ \A i, j \in DOMAIN l : i < j => pos[i] < pos[j]
          /\ \A m \in S : \E i \in DOMAIN l : pos[i] = m
          /\ \A i \in DOMAIN l : l[i] = w[pos[i]][2]
  BY DEF InOrder
<1> DEFINE k == Tail(l)
           q == [i \in DOMAIN k |-> pos[i + 1]]
<1>2. /\ DOMAIN l = 1 .. Len(l) /\ Len(l) \in Nat /\ Len(l) >= 1
      /\ DOMAIN k = 1 .. Len(l) - 1
      /\ \A i \in DOMAIN k : k[i] = l[i + 1]
      /\ Head(l) = l[1]
  OBVIOUS
<1> HIDE DEF k
<1>3. /\ 1 \in DOMAIN l /\ pos[1] \in S
      /\ \A i \in DOMAIN l : pos[i] \in S /\ pos[i] \in Nat
      /\ \A i \in DOMAIN l : i # 1 => pos[1] < pos[i]
  <2>1. 1 \in DOMAIN l
    BY <1>2
  <2>2. \A i \in DOMAIN l : pos[i] \in S /\ pos[i] \in Nat
    BY <1>1
  <2>3. ASSUME NEW i \in DOMAIN l, i # 1 PROVE pos[1] < pos[i]
    <3>1. 1 < i
      BY <1>2, <2>3
    <3> QED
      BY <1>1, <2>1, <3>1
  <2> QED
    BY <2>1, <2>2, <2>3
<1>4. ASSUME NEW m \in S PROVE pos[1] <= m
  <2>1. PICK i \in DOMAIN l : pos[i] = m
    BY <1>1
  <2> QED
    BY <1>3, <2>1
<1>5. q \in [DOMAIN k -> S \ {pos[1]}]
  <2>1. ASSUME NEW i \in DOMAIN k PROVE pos[i + 1] \in S \ {pos[1]}
    <3>1. i + 1 \in DOMAIN l /\ i + 1 # 1
      BY <1>2
    <3>2. pos[1] < pos[i + 1] /\ pos[i + 1] \in S
      BY <1>3, <3>1
    <3> QED
      BY <1>3, <3>1, <3>2
  <2> QED
    BY <2>1
<1>6. \A i, j \in DOMAIN k : i < j => q[i] < q[j]
  BY <1>1, <1>2
<1>7. \A m \in S \ {pos[1]} : \E i \in DOMAIN k : q[i] = m
  <2> SUFFICES ASSUME NEW m \in S, m # pos[1] PROVE \E i \in DOMAIN k : q[i] = m
    OBVIOUS
  <2>1. PICK i \in DOMAIN l : pos[i] = m
    BY <1>1
  <2>2. i - 1 \in DOMAIN k /\ (i - 1) + 1 = i
    BY <1>2, <2>1
  <2> QED
    BY <2>1, <2>2
<1>8. \A i \in DOMAIN k : k[i] = w[q[i]][2]
  BY <1>1, <1>2
<1>9. InOrder(k, S \ {pos[1]}, w)
  BY <1>5, <1>6, <1>7, <1>8 DEF InOrder
<1>10. Head(l) = w[pos[1]][2]
  BY <1>1, <1>2, <1>3
<1> QED
  BY <1>3, <1>4, <1>9, <1>10 DEF k

(* What has been collected from the lines at S is there as lines of w. *)
LEMMA LinesInOrder ==
    ASSUME NEW l, NEW S, NEW w, InOrder(l, S, w)
    PROVE  /\ \A i \in DOMAIN l : \E n \in S : l[i] = w[n][2]
           /\ \A n \in S : \E i \in DOMAIN l : l[i] = w[n][2]
BY DEF InOrder

-----------------------------------------------------------------------------
(* The lines of one stream: of the d lines written so far, those up to r     *)
(* have been read and the others are in the pipe.                            *)

Want(w, s) == IF s = "stdout" THEN Worth(w) ELSE Of(w, s)
Between(w, s, r, d) == {n \in Of(w, s) : r < n /\ n <= d}
UpTo(S, r) == {n \in S : n <= r}

Flowing(w, d, p, g, s) ==
    \E r \in Nat :
        /\ r <= d
        /\ InOrder(p, Between(w, s, r, d), w)
        /\ InOrder(g, UpTo(Want(w, s), r), w)

LEMMA Positions ==
    ASSUME NEW w \in Seq(Stream \X Line), NEW s \in Stream
    PROVE  /\ Of(w, s) \subseteq DOMAIN w /\ DOMAIN w = 1 .. Len(w) /\ Len(w) \in Nat
           /\ Want(w, s) \subseteq Of(w, s)
<1>1. Of(w, s) \subseteq DOMAIN w /\ DOMAIN w = 1 .. Len(w) /\ Len(w) \in Nat
  BY DEF Of
<1>2. Worth(w) \subseteq Of(w, "stdout")
  BY DEF Worth
<1> QED
  BY <1>1, <1>2 DEF Want

LEMMA FlowStarts ==
    ASSUME NEW w \in Seq(Stream \X Line), NEW s \in Stream
    PROVE  Flowing(w, 0, <<>>, <<>>, s)
<1>1. \A n \in Of(w, s) : n \in Nat /\ 0 < n
  BY Positions
<1>2. Between(w, s, 0, 0) = {} /\ UpTo(Want(w, s), 0) = {}
  BY <1>1, Positions DEF Between, UpTo
<1>3. InOrder(<<>>, {}, w)
  BY NothingInOrder
<1>4. 0 \in Nat /\ 0 <= 0
  OBVIOUS
<1> QED
  BY <1>2, <1>3, <1>4, Zenon DEF Flowing

LEMMA FlowWritten ==
    ASSUME NEW w \in Seq(Stream \X Line), NEW d \in Nat, d + 1 \in DOMAIN w,
           NEW X, NEW p \in Seq(X), NEW g, NEW s \in Stream, Flowing(w, d, p, g, s)
    PROVE  Flowing(w, d + 1, IF w[d + 1][1] = s THEN Append(p, w[d + 1][2]) ELSE p, g, s)
<1>1. PICK r \in Nat : /\ r <= d
                       /\ InOrder(p, Between(w, s, r, d), w)
                       /\ InOrder(g, UpTo(Want(w, s), r), w)
  BY DEF Flowing
<1>2. \A n \in Of(w, s) : n \in Nat
  BY Positions
<1>3. \A m \in Between(w, s, r, d) : m \in Nat /\ m < d + 1
  BY <1>2 DEF Between
<1>4. \A m : m \in Between(w, s, r, d + 1)
                 <=> m \in Between(w, s, r, d) \/ (m = d + 1 /\ w[d + 1][1] = s)
  <2>1. d + 1 \in Of(w, s) <=> w[d + 1][1] = s
    BY DEF Of
  <2>2. \A m \in Of(w, s) : r < m /\ m <= d + 1 <=> (r < m /\ m <= d) \/ m = d + 1
    BY <1>1, <1>2
  <2> QED
    BY <2>1, <2>2 DEF Between
<1>5. CASE w[d + 1][1] = s
  <2>1. Between(w, s, r, d + 1) = Between(w, s, r, d) \union {d + 1}
    BY <1>4, <1>5
  <2>2. Between(w, s, r, d) \in SUBSET Nat
    BY <1>3
  <2>3. InOrder(Append(p, w[d + 1][2]), Between(w, s, r, d) \union {d + 1}, w)
    <3>1. d + 1 \in Nat /\ \A m \in Between(w, s, r, d) : m < d + 1
      BY <1>3
    <3> QED
      BY <1>1, <2>2, <3>1, AppendInOrder, Zenon
  <2>4. r <= d + 1
    BY <1>1
  <2> QED
    BY <1>1, <1>5, <2>1, <2>3, <2>4 DEF Flowing
<1>6. CASE w[d + 1][1] # s
  <2>1. Between(w, s, r, d + 1) = Between(w, s, r, d)
    BY <1>4, <1>6
  <2>2. r <= d + 1
    BY <1>1
  <2> QED
    BY <1>1, <1>6, <2>1, <2>2 DEF Flowing
<1> QED
  BY <1>5, <1>6

(* What _process_stdout drops, looking at what it has kept, is what is not   *)
(* worth keeping, looking at all that came before.                           *)
LEMMA DroppedIffNotWorth ==
    ASSUME NEW w \in Seq(Stream \X Line), NEW r \in Nat,
           NEW n \in Of(w, "stdout"), \A m \in Of(w, "stdout") : m < n <=> m <= r,
           NEW k \in Seq(Line), InOrder(k, UpTo(Worth(w), r), w)
    PROVE  Dropped(w[n][2], k) <=> n \notin Worth(w)
<1> DEFINE O == Of(w, "stdout")
           B == {m \in O : m < n}
           K == UpTo(Worth(w), r)
<1>1. O \subseteq Nat /\ Worth(w) \subseteq O /\ w[n][1] = "stdout"
  <2>1. Worth(w) \subseteq O
    BY DEF Worth
  <2>2. O \subseteq Nat
    BY DEF Of
  <2>3. w[n][1] = "stdout"
    BY DEF Of
  <2> QED
    BY <2>1, <2>2, <2>3
<1>2. Before(w, n) = B /\ K = {m \in Worth(w) : m < n}
  BY <1>1 DEF Before, UpTo
<1>3. \A m \in O : w[m][1] = "stdout" /\ Before(w, m) = {x \in O : x < m}
  BY DEF Before, Of
<1>4. /\ \A i \in DOMAIN k : \E m \in K : k[i] = w[m][2]
      /\ \A m \in K : \E i \in DOMAIN k : k[i] = w[m][2]
  BY LinesInOrder
<1>5. k = <<>> <=> K = {}
  <2>1. k = <<>> <=> DOMAIN k = {}
    OBVIOUS
  <2> QED
    BY <1>4, <2>1
<1> HIDE DEF O, K
(* Of a line that is not empty the first occurrence is kept. *)
<1>6. ASSUME NEW m \in B, w[m][2] # Blank PROVE \E x \in K : w[x][2] = w[m][2]
  <2> DEFINE Same == {x \in B : w[x][2] = w[m][2]}
  <2>1. Same \in SUBSET Nat /\ Same # {}
    BY <1>1, <1>6 DEF O
  <2> HIDE DEF Same
  <2>2. PICK x \in Same : \A y \in Same : x <= y
    BY <2>1, LeastPosition
  <2>3. x \in O /\ x < n /\ x \in Nat /\ w[x][2] = w[m][2] /\ n \in Nat
    BY <1>1, <2>1, <2>2 DEF Same, O
  <2>4. ASSUME NEW y \in Before(w, x) PROVE w[y][2] # w[x][2]
    <3>1. y \in O /\ y < x /\ y \in Nat
      BY <1>1, <1>3, <2>3, <2>4 DEF O
    <3>2. y < n /\ ~(x <= y)
      BY <2>3, <3>1
    <3> QED
      BY <2>2, <2>3, <3>1, <3>2 DEF Same
  <2>5. x \in Worth(w)
    BY <1>6, <2>3, <2>4 DEF Worth, O
  <2> QED
    BY <1>2, <2>3, <2>5 DEF K
<1>7. ASSUME NEW m \in K PROVE m \in B
  BY <1>1, <1>2, <1>7 DEF O, K
<1>8. w[n][2] \in Line /\ n \in O
  BY DEF Of, O
<1>9. k # <<>> <=> \E m \in B : w[m][2] # Blank
  <2>1. ASSUME NEW m \in K PROVE \E x \in B : w[x][2] # Blank
    <3>1. CASE w[m][2] = Blank
      <4>1. m \in Worth(w) /\ m \in O /\ m < n
        BY <1>2, <1>7, <2>1 DEF K
      <4>2. PICK x \in Before(w, m) : w[x][2] # Blank
        BY <3>1, <4>1 DEF Worth
      <4>3. x \in O /\ x < m /\ x \in Nat /\ m \in Nat /\ n \in Nat
        BY <1>1, <1>3, <1>8, <4>1, <4>2 DEF O
      <4> QED
        BY <4>1, <4>2, <4>3
    <3> QED
      BY <1>7, <2>1, <3>1
  <2> QED
    BY <1>5, <1>6, <2>1 DEF K
<1>10. ASSUME NEW l \in Line, l # Blank
       PROVE  Seen(l, k) <=> \E m \in B : w[m][2] = l
  <2>1. ASSUME NEW i \in DOMAIN k, k[i] = l PROVE \E m \in B : w[m][2] = l
    BY <1>4, <1>7, <2>1
  <2>2. ASSUME NEW m \in B, w[m][2] = l PROVE \E i \in DOMAIN k : k[i] = l
    BY <1>4, <1>6, <1>10, <2>2
  <2> QED
    BY <2>1, <2>2 DEF Seen
<1>11. /\ Banner \in Line /\ Banner # Blank /\ Blank \notin Progress
  BY InvokeAssumption DEF Line
<1>12. n \in Worth(w) <=>
          /\ w[n][2] = Blank => /\ \E m \in B : w[m][2] # Blank
                                /\ \A m \in B : w[m][2] # Banner
          /\ w[n][2] \in Progress => \A m \in B : w[m][2] # w[n][2]
  BY <1>2, <1>8 DEF Worth, O
<1> HIDE DEF B
<1>13. CASE w[n][2] = Blank
  BY <1>9, <1>10, <1>11, <1>12, <1>13 DEF Dropped
<1>14. CASE w[n][2] # Blank
  BY <1>8, <1>10, <1>11, <1>12, <1>14 DEF Dropped
<1> QED
  BY <1>13, <1>14

(* The line that is read is the first that is in the pipe.                   *)
LEMMA FlowRead ==
    ASSUME NEW w \in Seq(Stream \X Line), NEW d \in Nat, NEW s \in Stream,
           NEW p \in Seq(Line), NEW g \in Seq(Line), Flowing(w, d, p, g, s), p # <<>>
    PROVE  /\ \E n \in DOMAIN w : Head(p) = w[n][2]
           /\ Flowing(w, d, Tail(p),
                      IF s = "stdout" /\ Dropped(Head(p), g) THEN g
                      ELSE Append(g, Head(p)), s)
<1>1. PICK r \in Nat : /\ r <= d
                       /\ InOrder(p, Between(w, s, r, d), w)
                       /\ InOrder(g, UpTo(Want(w, s), r), w)
  BY DEF Flowing
<1>2. \A m \in Of(w, s) : m \in Nat /\ m \in DOMAIN w
  BY Positions
<1>3. Between(w, s, r, d) \in SUBSET Nat
  BY <1>2 DEF Between
<1>4. PICK n \in Between(w, s, r, d) :
          /\ \A m \in Between(w, s, r, d) : n <= m
          /\ Head(p) = w[n][2]
          /\ InOrder(Tail(p), Between(w, s, r, d) \ {n}, w)
  BY <1>1, <1>3, HeadInOrder, Zenon
<1>5. n \in Of(w, s) /\ n \in Nat /\ r < n /\ n <= d
  BY <1>2 DEF Between
<1>6. Between(w, s, n, d) = Between(w, s, r, d) \ {n}
  <2>1. ASSUME NEW m \in Of(w, s)
        PROVE  n < m /\ m <= d <=> (r < m /\ m <= d) /\ m # n
    <3>1. ASSUME r < m, m <= d PROVE n <= m
      BY <1>4, <3>1 DEF Between
    <3> QED
      BY <1>2, <1>5, <3>1
  <2> QED
    BY <2>1 DEF Between
<1>7. \A m \in Of(w, s) : m < n <=> m <= r
  <2>1. ASSUME NEW m \in Of(w, s), r < m, m < n PROVE FALSE
    <3>1. m <= d /\ m \in Nat
      BY <1>2, <1>5, <2>1
    <3>2. n <= m
      BY <1>4, <2>1, <3>1 DEF Between
    <3> QED
      BY <1>5, <2>1, <3>1, <3>2
  <2> QED
    BY <1>2, <1>5, <2>1
<1>8. /\ UpTo(Want(w, s), r) \in SUBSET Nat
      /\ \A m \in UpTo(Want(w, s), r) : m < n
      /\ \A m : m \in UpTo(Want(w, s), n)
                    <=> m \in UpTo(Want(w, s), r) \/ (m = n /\ n \in Want(w, s))
  <2>1. \A m \in Want(w, s) : m \in Of(w, s) /\ m \in Nat
    BY <1>2, Positions
  <2>2. \A m \in Want(w, s) : m <= n <=> m <= r \/ m = n
    BY <1>5, <1>7, <2>1
  <2> QED
    BY <1>5, <1>7, <2>1, <2>2 DEF UpTo
<1>9. ASSUME n \in Want(w, s) PROVE InOrder(Append(g, Head(p)), UpTo(Want(w, s), n), w)
  <2>1. UpTo(Want(w, s), n) = UpTo(Want(w, s), r) \union {n}
    BY <1>8, <1>9
  <2>2. InOrder(Append(g, w[n][2]), UpTo(Want(w, s), r) \union {n}, w)
    BY <1>1, <1>5, <1>8, AppendInOrder, Zenon
  <2> QED
    BY <1>4, <2>1, <2>2
<1>10. ASSUME n \notin Want(w, s) PROVE InOrder(g, UpTo(Want(w, s), n), w)
  <2>1. UpTo(Want(w, s), n) = UpTo(Want(w, s), r)
    BY <1>8, <1>10
  <2> QED
    BY <1>1, <2>1
<1>11. s = "stdout" /\ Dropped(Head(p), g) <=> n \notin Want(w, s)
  <2>1. CASE s = "stdout"
    <3>1. Want(w, s) = Worth(w)
      BY <2>1 DEF Want
    <3>2. Dropped(w[n][2], g) <=> n \notin Worth(w)
      BY <1>1, <1>5, <1>7, <2>1, <3>1, DroppedIffNotWorth
    <3> QED
      BY <1>4, <2>1, <3>1, <3>2
  <2>2. CASE s # "stdout"
    BY <1>5, <2>2 DEF Want
  <2> QED
    BY <2>1, <2>2
<1>12. InOrder(IF s = "stdout" /\ Dropped(Head(p), g) THEN g ELSE Append(g, Head(p)),
               UpTo(Want(w, s), n), w)
  BY <1>9, <1>10, <1>11, Zenon
<1>13. InOrder(Tail(p), Between(w, s, n, d), w)
  BY <1>4, <1>6
<1> QED
  BY <1>2, <1>4, <1>5, <1>12, <1>13, Zenon DEF Flowing

(* Of an empty pipe, after all has been written, all has been read.          *)
LEMMA FlowEnds ==
    ASSUME NEW w \in Seq(Stream \X Line), NEW s \in Stream, NEW g,
           Flowing(w, Len(w), <<>>, g, s)
    PROVE  InOrder(g, Want(w, s), w)
<1>1. PICK r \in Nat : /\ InOrder(<<>>, Between(w, s, r, Len(w)), w)
                       /\ InOrder(g, UpTo(Want(w, s), r), w)
  BY DEF Flowing
<1>2. Between(w, s, r, Len(w)) = {}
  BY <1>1, NothingInOrder
<1>3. \A n \in Want(w, s) : n <= r
  <2> SUFFICES ASSUME NEW n \in Want(w, s), r < n PROVE FALSE
    BY Positions
  <2>1. n \in Of(w, s) /\ n \in Nat /\ n <= Len(w)
    BY Positions
  <2> QED
    BY <1>2, <2>1 DEF Between
<1>4. UpTo(Want(w, s), r) = Want(w, s)
  BY <1>3 DEF UpTo
<1> QED
  BY <1>1, <1>4

-----------------------------------------------------------------------------
(* An invocation. *)

PipeTypes ==
    /\ program \in Seq(Stream \X Line)
    /\ child \in [todo : Seq(Stream \X Line), alive : BOOLEAN, code : Int]
    /\ pipe \in [Stream -> Seq(Line)] /\ \A s \in Stream : Len(pipe[s]) <= Capacity
    /\ got \in [Stream -> Seq(Line \ {Garbled})]
    /\ closed \in {{}, Stream}
    /\ reader \in {"none", "reading", "done", "dead"}
    /\ main \in {"none", "stderr", "join", "wait", "unwind", "unwound",
                 "returned", "CalledProcessError", "UnicodeDecodeError"}

(* Who is where: the thread ends at the end of its pipe unless an exception  *)
(* has closed it, and the main thread goes on when a pipe is at its end.     *)
Order ==
    /\ main \in {"none", "stderr", "join", "unwind"} => closed = {}
    /\ main \notin {"stderr", "unwind", "unwound"} => ~child.alive
    /\ main \in {"wait", "returned", "CalledProcessError"} => reader # "reading"
    /\ reader = "none" => main = "none"
    /\ reader = "done" /\ main \notin {"unwound", "UnicodeDecodeError"} =>
           EndOfFile("stdout")
    /\ main \in {"join", "wait", "returned", "CalledProcessError"} => EndOfFile("stderr")
    /\ ~child.alive => child.todo = <<>>
    /\ main = "returned" => child.code = 0

(* The rest of the program is to be written, and the lines of each stream    *)
(* are where Flowing says.                                                   *)
Flow ==
    Readable =>
        /\ reader # "dead" /\ main \notin {"unwind", "unwound", "UnicodeDecodeError"}
        /\ Len(child.todo) <= Len(program)
        /\ \A n \in DOMAIN child.todo :
              child.todo[n] = program[Len(program) - Len(child.todo) + n]
        /\ \A s \in Stream :
              Flowing(program, Len(program) - Len(child.todo), pipe[s], got[s], s)

InvokeInv == PipeTypes /\ Order /\ Flow

InvokeStep == Next \/ \E g \in Programs : Invoke(g[1], g[2])

LEMMA StepIsInvokeStep == ASSUME [InstallNext]_vars PROVE [InvokeStep]_invokeVars
BY DEF InstallNext, vars, Own, Invocation, Validate, RenderLockfile, AddAuth, Create,
       Created, RunPip, PipEnded, LeaveFile, End, InvokeStep

LEMMA PipeTypesKept ==
    ASSUME InstallAssumption, PipeTypes, [InvokeStep]_invokeVars
    PROVE  PipeTypes'
<1> USE DEF PipeTypes
<1>1. CASE UNCHANGED invokeVars
  BY <1>1 DEF invokeVars
<1>2. ASSUME NEW g \in Programs, Invoke(g[1], g[2]) PROVE PipeTypes'
  BY <1>2, InvokeAssumption DEF InstallAssumption, Invoke, Empty, Stream
<1>3. CASE ChildWrites
  <2> DEFINE t == child.todo  s == Head(t)[1]
  <2>1. /\ t \in Seq(Stream \X Line) /\ t # <<>>
        /\ Len(pipe[s]) < Capacity
        /\ pipe' = [pipe EXCEPT ![s] = Append(@, Head(t)[2])]
        /\ child' = [child EXCEPT !.todo = Tail(@)]
        /\ UNCHANGED <<program, closed, reader, main, got>>
    BY <1>3 DEF ChildWrites
  <2>2. Head(t) \in Stream \X Line /\ Tail(t) \in Seq(Stream \X Line)
    BY <2>1
  <2>3. s \in Stream /\ Head(t)[2] \in Line
    BY <2>2
  <2>4. /\ Append(pipe[s], Head(t)[2]) \in Seq(Line)
        /\ Len(Append(pipe[s], Head(t)[2])) = Len(pipe[s]) + 1
        /\ Len(pipe[s]) \in Nat
    BY <2>3
  <2>5. Len(pipe[s]) + 1 <= Capacity
    BY <2>1, <2>4, InvokeAssumption
  <2> QED
    BY <2>1, <2>2, <2>3, <2>4, <2>5
<1>4. CASE BrokenPipe
  BY <1>4 DEF BrokenPipe
<1>5. CASE ChildExits
  BY <1>5 DEF ChildExits
<1>6. CASE ReaderReads
  <2> DEFINE p == pipe["stdout"]
  <2>1. p \in Seq(Line) /\ p # <<>> /\ got["stdout"] \in Seq(Line \ {Garbled})
    BY <1>6 DEF ReaderReads, Stream
  <2>2. Head(p) \in Line /\ Tail(p) \in Seq(Line) /\ Len(Tail(p)) <= Len(p)
    BY <2>1
  <2>3. /\ pipe' = [pipe EXCEPT !["stdout"] = Tail(p)]
        /\ reader' \in {reader, "dead"}
        /\ \/ got' = got
           \/ /\ Head(p) # Garbled
              /\ got' = [got EXCEPT !["stdout"] = Append(got["stdout"], Head(p))]
        /\ UNCHANGED <<program, child, closed, main>>
    BY <1>6 DEF ReaderReads
  <2>4. pipe' \in [Stream -> Seq(Line)] /\ \A s \in Stream : Len(pipe'[s]) <= Capacity
    <3>1. Len(p) <= Capacity /\ Len(p) \in Nat /\ Len(Tail(p)) \in Nat
      BY <2>1, <2>2 DEF Stream
    <3>2. Len(Tail(p)) <= Capacity
      BY <2>2, <3>1, InvokeAssumption
    <3>3. pipe' \in [Stream -> Seq(Line)]
      BY <2>2, <2>3
    <3>4. ASSUME NEW s \in Stream PROVE Len(pipe'[s]) <= Capacity
      <4>1. pipe'[s] = Tail(p) \/ pipe'[s] = pipe[s]
        BY <2>3
      <4> QED
        BY <3>2, <4>1
    <3> QED
      BY <3>3, <3>4
  <2>5. got' \in [Stream -> Seq(Line \ {Garbled})]
    <3>1. ASSUME Head(p) # Garbled
          PROVE  Append(got["stdout"], Head(p)) \in Seq(Line \ {Garbled})
      BY <2>1, <2>2, <3>1
    <3> HIDE DEF p
    <3> QED
      BY <2>3, <3>1
  <2> QED
    BY <2>3, <2>4, <2>5
<1>7. CASE ReaderEnds
  BY <1>7 DEF ReaderEnds
<1>8. CASE MainReads
  <2> DEFINE p == pipe["stderr"]
  <2>1. p \in Seq(Line) /\ p # <<>> /\ got["stderr"] \in Seq(Line \ {Garbled})
    BY <1>8 DEF MainReads, Stream
  <2>2. Head(p) \in Line /\ Tail(p) \in Seq(Line) /\ Len(Tail(p)) <= Len(p)
    BY <2>1
  <2>3. /\ pipe' = [pipe EXCEPT !["stderr"] = Tail(p)]
        /\ main' \in {main, "unwind"}
        /\ \/ got' = got
           \/ /\ Head(p) # Garbled
              /\ got' = [got EXCEPT !["stderr"] = Append(got["stderr"], Head(p))]
        /\ UNCHANGED <<program, child, closed, reader>>
    BY <1>8 DEF MainReads
  <2>4. pipe' \in [Stream -> Seq(Line)] /\ \A s \in Stream : Len(pipe'[s]) <= Capacity
    <3>1. Len(p) <= Capacity /\ Len(p) \in Nat /\ Len(Tail(p)) \in Nat
      BY <2>1, <2>2 DEF Stream
    <3>2. Len(Tail(p)) <= Capacity
      BY <2>2, <3>1, InvokeAssumption
    <3>3. pipe' \in [Stream -> Seq(Line)]
      BY <2>2, <2>3
    <3>4. ASSUME NEW s \in Stream PROVE Len(pipe'[s]) <= Capacity
      <4>1. pipe'[s] = Tail(p) \/ pipe'[s] = pipe[s]
        BY <2>3
      <4> QED
        BY <3>2, <4>1
    <3> QED
      BY <3>3, <3>4
  <2>5. got' \in [Stream -> Seq(Line \ {Garbled})]
    <3>1. ASSUME Head(p) # Garbled
          PROVE  Append(got["stderr"], Head(p)) \in Seq(Line \ {Garbled})
      BY <2>1, <2>2, <3>1
    <3> HIDE DEF p
    <3> QED
      BY <2>3, <3>1
  <2> QED
    BY <2>3, <2>4, <2>5
<1>9. CASE MainAtEnd \/ Join \/ Unwind \/ Judge
  BY <1>9 DEF MainAtEnd, Join, Unwind, Judge
<1> QED
  BY <1>1, <1>2, <1>3, <1>4, <1>5, <1>6, <1>7, <1>8, <1>9
     DEF InvokeStep, Next, Child, Reader, Main

LEMMA OrderKept ==
    ASSUME InstallAssumption, PipeTypes, Order, [InvokeStep]_invokeVars
    PROVE  Order'
<1> USE DEF Order, EndOfFile
<1>1. CASE UNCHANGED invokeVars
  BY <1>1 DEF invokeVars
<1>2. ASSUME NEW g \in Programs, Invoke(g[1], g[2]) PROVE Order'
  BY <1>2 DEF Invoke
<1>3. CASE ChildWrites
  BY <1>3 DEF ChildWrites, PipeTypes
<1>4. CASE BrokenPipe
  BY <1>4 DEF BrokenPipe, PipeTypes
<1>5. CASE ChildExits
  BY <1>5 DEF ChildExits, PipeTypes
<1>6. CASE ReaderReads
  BY <1>6 DEF ReaderReads, PipeTypes
<1>7. CASE ReaderEnds
  BY <1>7 DEF ReaderEnds, PipeTypes
<1>8. CASE MainReads
  BY <1>8 DEF MainReads, PipeTypes
<1>9. CASE MainAtEnd
  BY <1>9 DEF MainAtEnd
<1>10. CASE Join
  BY <1>10 DEF Join
<1>11. CASE Unwind
  BY <1>11 DEF Unwind
<1>12. CASE Judge
  BY <1>12 DEF Judge
<1> QED
  BY <1>1, <1>2, <1>3, <1>4, <1>5, <1>6, <1>7, <1>8, <1>9, <1>10, <1>11, <1>12
     DEF InvokeStep, Next, Child, Reader, Main

LEMMA FlowKept ==
    ASSUME InstallAssumption, PipeTypes, Order, Flow, [InvokeStep]_invokeVars
    PROVE  Flow'
<1> DEFINE d == Len(program) - Len(child.todo)
<1>1. CASE UNCHANGED invokeVars
  BY <1>1 DEF invokeVars, Flow, Readable
<1>2. ASSUME NEW g \in Programs, Invoke(g[1], g[2]) PROVE Flow'
  <2>1. g[1] \in Seq(Stream \X Line) /\ Len(g[1]) \in Nat
    BY DEF InstallAssumption
  <2>2. /\ program' = g[1] /\ child'.todo = g[1]
        /\ \A s \in Stream : pipe'[s] = <<>> /\ got'[s] = <<>>
        /\ reader' = "reading" /\ main' = "stderr"
    BY <1>2 DEF Invoke, Empty
  <2>3. Len(g[1]) - Len(g[1]) = 0 /\ \A n \in DOMAIN g[1] : 0 + n = n
    BY <2>1
  <2>4. \A s \in Stream : Flowing(g[1], 0, <<>>, <<>>, s)
    BY <2>1, FlowStarts
  <2> QED
    BY <2>1, <2>2, <2>3, <2>4 DEF Flow
<1> SUFFICES ASSUME Readable', Next PROVE Flow'
  BY <1>1, <1>2 DEF InvokeStep, Flow
<1>3. program' = program /\ Readable
  BY DEF Next, Child, Reader, Main, ChildWrites, BrokenPipe, ChildExits, ReaderReads,
         ReaderEnds, MainReads, MainAtEnd, Join, Unwind, Judge, Readable
<1>4. /\ reader # "dead" /\ main \notin {"unwind", "unwound", "UnicodeDecodeError"}
      /\ Len(child.todo) <= Len(program)
      /\ \A n \in DOMAIN child.todo : child.todo[n] = program[d + n]
      /\ \A s \in Stream : Flowing(program, d, pipe[s], got[s], s)
  BY <1>3 DEF Flow
<1>5. /\ program \in Seq(Stream \X Line) /\ child.todo \in Seq(Stream \X Line)
      /\ Len(program) \in Nat /\ Len(child.todo) \in Nat /\ d \in Nat
      /\ \A s \in Stream : pipe[s] \in Seq(Line) /\ got[s] \in Seq(Line)
  <2>1. /\ program \in Seq(Stream \X Line) /\ child.todo \in Seq(Stream \X Line)
        /\ \A s \in Stream : pipe[s] \in Seq(Line) /\ got[s] \in Seq(Line \ {Garbled})
    BY DEF PipeTypes
  <2>2. \A s \in Stream : got[s] \in Seq(Line)
    BY <2>1
  <2> QED
    BY <1>4, <2>1, <2>2
(* Reading from the pipe of a stream. *)
<1>6. ASSUME NEW s \in Stream, pipe[s] # <<>>
      PROVE  /\ Head(pipe[s]) # Garbled
             /\ Flowing(program, d, Tail(pipe[s]),
                        IF s = "stdout" /\ Dropped(Head(pipe[s]), got[s]) THEN got[s]
                        ELSE Append(got[s], Head(pipe[s])), s)
  <2>1. /\ \E n \in DOMAIN program : Head(pipe[s]) = program[n][2]
        /\ Flowing(program, d, Tail(pipe[s]),
                   IF s = "stdout" /\ Dropped(Head(pipe[s]), got[s]) THEN got[s]
                   ELSE Append(got[s], Head(pipe[s])), s)
    <3> HIDE DEF d
    <3> QED
      BY <1>4, <1>5, <1>6, FlowRead, Zenon
  <2> QED
    BY <1>3, <2>1 DEF Readable
<1>7. CASE ChildWrites
  <2> DEFINE t == child.todo  h == Head(t)[1]
  <2>1. /\ t # <<>>
        /\ pipe' = [pipe EXCEPT ![h] = Append(pipe[h], Head(t)[2])]
        /\ child' = [child EXCEPT !.todo = Tail(t)]
        /\ UNCHANGED <<reader, main, got>>
    BY <1>7 DEF ChildWrites
  <2>2. child'.todo = Tail(t) /\ Len(Tail(t)) = Len(t) - 1 /\ Len(t) >= 1
    BY <1>5, <2>1 DEF PipeTypes
  <2>3. Head(t) = program[d + 1]
    <3>1. Head(t) = t[1] /\ 1 \in DOMAIN t
      BY <1>5, <2>1
    <3> QED
      BY <1>4, <3>1
  <2>4. d + 1 \in DOMAIN program /\ Len(program) - Len(Tail(t)) = d + 1
    <3>1. d + 1 \in 1 .. Len(program) /\ Len(program) - (Len(t) - 1) = d + 1
      BY <1>5, <2>2
    <3>2. DOMAIN program = 1 .. Len(program)
      BY <1>5
    <3> QED
      BY <2>2, <3>1, <3>2
  <2>5. \A n \in DOMAIN Tail(t) : Tail(t)[n] = program[d + 1 + n]
    <3>1. \A n \in DOMAIN Tail(t) : Tail(t)[n] = t[n + 1] /\ n + 1 \in DOMAIN t /\ n \in Nat
      BY <1>5, <2>1
    <3>2. \A n \in Nat : d + (n + 1) = d + 1 + n
      <4>1. d \in Nat
        BY <1>5
      <4> HIDE DEF d
      <4> QED
        BY <4>1
    <3> QED
      BY <1>4, <3>1, <3>2
  <2>6. ASSUME NEW s \in Stream PROVE Flowing(program, d + 1, pipe'[s], got[s], s)
    <3>1. pipe'[s] = IF program[d + 1][1] = s THEN Append(pipe[s], program[d + 1][2]) ELSE pipe[s]
      BY <2>1, <2>3 DEF PipeTypes
    <3> HIDE DEF d
    <3> QED
      BY <1>4, <1>5, <2>4, <3>1, FlowWritten
  <2>7. Len(Tail(t)) <= Len(program)
    BY <1>4, <1>5, <2>2
  <2> QED
    BY <1>3, <1>4, <2>1, <2>2, <2>4, <2>5, <2>6, <2>7 DEF Flow
<1>8. CASE BrokenPipe
  BY <1>4, <1>8 DEF BrokenPipe, Order
<1>9. CASE ChildExits
  BY <1>3, <1>4, <1>9 DEF ChildExits, Flow, PipeTypes
<1>10. CASE ReaderReads
  <2> DEFINE p == pipe["stdout"]  g == got["stdout"]
  <2>1. p # <<>> /\ "stdout" \in Stream
    BY <1>10 DEF ReaderReads, Stream
  <2>2. /\ reader' = reader /\ UNCHANGED <<child, main>>
        /\ pipe' = [pipe EXCEPT !["stdout"] = Tail(p)]
        /\ got' = IF Dropped(Head(p), g) THEN got ELSE [got EXCEPT !["stdout"] = Append(g, Head(p))]
    BY <1>6, <1>10, <2>1 DEF ReaderReads
  <2>3. \A s \in Stream : Flowing(program, d, pipe'[s], got'[s], s)
    <3>1. pipe'["stdout"] = Tail(p) /\ got'["stdout"] = IF Dropped(Head(p), g) THEN g ELSE Append(g, Head(p))
      BY <2>1, <2>2 DEF PipeTypes
    <3>2. Flowing(program, d, pipe'["stdout"], got'["stdout"], "stdout")
      BY <1>6, <2>1, <3>1, Zenon
    <3>3. pipe'["stderr"] = pipe["stderr"] /\ got'["stderr"] = got["stderr"] /\ "stderr" \in Stream
      BY <2>2 DEF PipeTypes, Stream
    <3> QED
      BY <1>4, <3>2, <3>3 DEF Stream
  <2> QED
    BY <1>3, <1>4, <2>2, <2>3 DEF Flow
<1>11. CASE ReaderEnds
  BY <1>3, <1>4, <1>11 DEF ReaderEnds, Flow
<1>12. CASE MainReads
  <2> DEFINE p == pipe["stderr"]  g == got["stderr"]
  <2>1. p # <<>> /\ "stderr" \in Stream
    BY <1>12 DEF MainReads, Stream
  <2>2. /\ main' = main /\ UNCHANGED <<child, reader>>
        /\ pipe' = [pipe EXCEPT !["stderr"] = Tail(p)]
        /\ got' = [got EXCEPT !["stderr"] = Append(g, Head(p))]
    BY <1>6, <1>12, <2>1 DEF MainReads
  <2>3. \A s \in Stream : Flowing(program, d, pipe'[s], got'[s], s)
    <3>1. pipe'["stderr"] = Tail(p) /\ got'["stderr"] = Append(g, Head(p))
      BY <2>1, <2>2 DEF PipeTypes
    <3>2. Flowing(program, d, pipe'["stderr"], got'["stderr"], "stderr")
      BY <1>6, <2>1, <3>1
    <3>3. pipe'["stdout"] = pipe["stdout"] /\ got'["stdout"] = got["stdout"] /\ "stdout" \in Stream
      BY <2>2 DEF PipeTypes, Stream
    <3> QED
      BY <1>4, <3>2, <3>3 DEF Stream
  <2> QED
    BY <1>3, <1>4, <2>2, <2>3 DEF Flow
<1>13. CASE MainAtEnd \/ Join \/ Judge
  BY <1>3, <1>4, <1>13 DEF MainAtEnd, Join, Judge, Flow
<1>14. CASE Unwind
  BY <1>4, <1>14 DEF Unwind
<1> QED
  BY <1>7, <1>8, <1>9, <1>10, <1>11, <1>12, <1>13, <1>14 DEF Next, Child, Reader, Main

LEMMA InvokeInvInit == ASSUME Init PROVE InvokeInv
<1>1. <<>> \in Seq(Stream \X Line) /\ <<>> \in Seq(Line) /\ <<>> \in Seq(Line \ {Garbled}) /\ Len(<<>>) = 0
  OBVIOUS
<1>2. PipeTypes
  BY <1>1, InvokeAssumption DEF Init, NoChild, Empty, PipeTypes
<1>3. Order
  BY DEF Init, NoChild, Empty, Order, EndOfFile
<1>4. Flow
  <2>1. \A s \in Stream : Flowing(<<>>, 0, <<>>, <<>>, s)
    BY <1>1, FlowStarts
  <2>2. DOMAIN <<>> = {} /\ 0 - 0 = 0 /\ 0 <= 0
    OBVIOUS
  <2> QED
    BY <1>1, <2>1, <2>2 DEF Init, NoChild, Empty, Flow
<1> QED
  BY <1>2, <1>3, <1>4 DEF InvokeInv

LEMMA InvokeInvKept ==
    ASSUME InstallAssumption, InvokeInv, [InvokeStep]_invokeVars
    PROVE  InvokeInv'
BY PipeTypesKept, OrderKept, FlowKept DEF InvokeInv

LEMMA InvokeInvImplies == ASSUME InvokeInv PROVE TypeOK /\ AllOutputCollected
<1>1. TypeOK
  BY DEF InvokeInv, PipeTypes, TypeOK
<1>2. AllOutputCollected
  <2> SUFFICES ASSUME main \in {"returned", "CalledProcessError"}
               PROVE  /\ ~child.alive
                      /\ Readable =>
                          \A s \in Stream : InOrder(got[s], Want(program, s), program)
    BY DEF AllOutputCollected, Want, Stream
  <2>1. ~child.alive /\ child.todo = <<>> /\ reader \notin {"reading", "none"}
    BY DEF InvokeInv, Order
  <2>2. ASSUME Readable, NEW s \in Stream
        PROVE  InOrder(got[s], Want(program, s), program)
    <3>1. reader = "done"
      BY <2>1, <2>2 DEF InvokeInv, Flow, PipeTypes
    <3>2. pipe[s] = <<>>
      BY <3>1 DEF InvokeInv, Order, EndOfFile, Stream
    <3>3. program \in Seq(Stream \X Line) /\ Len(program) - Len(child.todo) = Len(program)
      BY <2>1 DEF InvokeInv, PipeTypes
    <3>4. Flowing(program, Len(program), <<>>, got[s], s)
      BY <2>2, <3>2, <3>3 DEF InvokeInv, Flow
    <3> QED
      BY <3>3, <3>4, FlowEnds
  <2> QED
    BY <2>1, <2>2
<1> QED
  BY <1>1, <1>2

-----------------------------------------------------------------------------
(* Install. *)

Entries(s)  == {s[i] : i \in DOMAIN s}
Distinct(s) == \A i, j \in DOMAIN s : s[i] = s[j] => i = j

InstallTypes ==
    /\ request \in Requests /\ at \in Steps
    /\ open \in Seq(TempFile) /\ temp \subseteq TempFile /\ preserved \subseteq TempFile
    /\ using \in TempFile \union {None}
    /\ installed \subseteq {"conda", "pip"}
    /\ raised \in {None, "PlatformValidationError", "MissingEnvVarError",
                   "CalledProcessError", "UnicodeDecodeError"}

(* The files there are: those of the contexts that are open or, when files   *)
(* are preserved, of those that have been; and which may be open at a step.  *)
Files ==
    /\ Distinct(open)
    /\ request.delete => preserved = {} /\ temp = Entries(open)
    /\ ~request.delete => temp = preserved /\ Entries(open) \subseteq temp
    /\ at \in {"start", "render", "returned", "raised"} => open = <<>>
    /\ at = "auth" => Entries(open) \subseteq {"rendered"}
    /\ at \in {"create", "creating"} => "requirements" \notin Entries(open)
    /\ at \in {"pip", "piping"} => "requirements" \in Entries(open)

(* A process lives while install waits for it, and was given a file that is  *)
(* still open; conda fails on a file that is not of the kind it is told.     *)
Running ==
    /\ at \notin {"creating", "piping"} => ~child.alive
    /\ at \in {"creating", "piping"} => main # "none"
    /\ at = "creating" =>
           /\ using = File
           /\ (request.kind = "env") # TakenForEnv => child.code # 0
    /\ at = "piping" => using = "requirements"

All == {"conda"} \union (IF request.pip THEN {"pip"} ELSE {})

(* What the environment has at each step, while nothing has been raised.     *)
Progressing ==
    /\ at \notin {"leave", "returned", "raised"} => raised = None
    /\ at = "returned" => raised = None
    /\ at \in {"start", "render", "auth", "create", "creating"} => installed = {}
    /\ at \in {"pip", "piping"} => installed = {"conda"} /\ request.kind # "env" /\ request.pip
    /\ at \in {"leave", "returned"} /\ raised = None => installed = All

InstallInv == InstallTypes /\ Files /\ Running /\ Progressing
Inv == InvokeInv /\ InstallInv

LEMMA EntriesAppend ==
    ASSUME NEW X, NEW s \in Seq(X), NEW f
    PROVE  /\ Entries(Append(s, f)) = Entries(s) \union {f}
           /\ Distinct(s) /\ f \notin Entries(s) => Distinct(Append(s, f))
<1> DEFINE k == Append(s, f)
<1>1. /\ DOMAIN s = 1 .. Len(s) /\ Len(s) \in Nat
      /\ DOMAIN k = 1 .. Len(s) + 1
      /\ \A i \in DOMAIN s : k[i] = s[i]
      /\ k[Len(s) + 1] = f
  OBVIOUS
<1> HIDE DEF k
<1>2. DOMAIN k = DOMAIN s \union {Len(s) + 1} /\ Len(s) + 1 \notin DOMAIN s
  BY <1>1
<1>3. Entries(k) = Entries(s) \union {f}
  BY <1>1, <1>2 DEF Entries
<1>4. Distinct(s) /\ f \notin Entries(s) => Distinct(k)
  BY <1>1, <1>2 DEF Entries, Distinct
<1> QED
  BY <1>3, <1>4 DEF k

LEMMA EntriesLast ==
    ASSUME NEW X, NEW s \in Seq(X), s # <<>>
    PROVE  /\ s[Len(s)] \in Entries(s) /\ s[Len(s)] \in X
           /\ SubSeq(s, 1, Len(s) - 1) \in Seq(X)
           /\ Distinct(s) => /\ Entries(SubSeq(s, 1, Len(s) - 1)) = Entries(s) \ {s[Len(s)]}
                             /\ Distinct(SubSeq(s, 1, Len(s) - 1))
<1> DEFINE n == Len(s)  k == SubSeq(s, 1, n - 1)
<1>1. /\ DOMAIN s = 1 .. n /\ n \in Nat /\ n >= 1
      /\ k \in Seq(X)
      /\ DOMAIN k = 1 .. n - 1
      /\ \A i \in DOMAIN k : k[i] = s[i]
  OBVIOUS
<1> HIDE DEF k, n
<1>2. n \in DOMAIN s /\ DOMAIN k = DOMAIN s \ {n}
  BY <1>1
<1>3. s[n] \in Entries(s) /\ s[n] \in X
  BY <1>2 DEF Entries
<1>4. ASSUME Distinct(s)
      PROVE  Entries(k) = Entries(s) \ {s[n]} /\ Distinct(k)
  <2>1. Distinct(k)
    BY <1>1, <1>2, <1>4 DEF Distinct
  <2>2. ASSUME NEW i \in DOMAIN k PROVE k[i] \in Entries(s) /\ k[i] # s[n]
    BY <1>1, <1>2, <1>4, <2>2 DEF Entries, Distinct
  <2>3. ASSUME NEW i \in DOMAIN s, s[i] # s[n] PROVE i \in DOMAIN k /\ k[i] = s[i]
    BY <1>1, <1>2, <2>3
  <2> QED
    BY <2>1, <2>2, <2>3 DEF Entries
<1> QED
  BY <1>1, <1>3, <1>4 DEF k, n

LEMMA FileIsOpen ==
    ASSUME InstallTypes
    PROVE  /\ File \in TempFile \union {None}
           /\ File # None => File \in Entries(open)
           /\ File = None => open = <<>>
<1>1. None \notin TempFile
  BY InstallAssumption DEF TempFile
<1>2. CASE open = <<>>
  BY <1>2 DEF File
<1>3. CASE open # <<>>
  <2>1. open \in Seq(TempFile)
    BY DEF InstallTypes
  <2>2. open[Len(open)] \in Entries(open) /\ open[Len(open)] \in TempFile
    BY <1>3, <2>1, EntriesLast
  <2> QED
    BY <1>1, <1>3, <2>2 DEF File
<1> QED
  BY <1>2, <1>3

(* What a step of the invocation may change of what install relies on.       *)
LEMMA InvocationLeaves ==
    ASSUME PipeTypes, Next
    PROVE  /\ child'.alive => child.alive
           /\ child'.code \in {child.code, 1}
           /\ main # "none" => main' # "none"
<1> USE DEF PipeTypes
<1>1. CASE Child
  BY <1>1 DEF Child, ChildWrites, BrokenPipe, ChildExits
<1>2. CASE Reader
  BY <1>2 DEF Reader, ReaderReads, ReaderEnds
<1>3. CASE Main
  BY <1>3 DEF Main, MainReads, MainAtEnd, Join, Unwind, Judge
<1> QED
  BY <1>1, <1>2, <1>3 DEF Next

LEMMA InstallTypesKept ==
    ASSUME InstallTypes, Running, [InstallNext]_vars
    PROVE  InstallTypes'
<1> USE DEF InstallTypes, Steps, TempFile
<1>1. ASSUME NEW f \in TempFile, EnterFile(f)
      PROVE  open' \in Seq(TempFile) /\ temp' \subseteq TempFile /\ preserved' \subseteq TempFile
  <2>1. Append(open, f) \in Seq(TempFile)
    OBVIOUS
  <2> QED
    BY <1>1, <2>1 DEF EnterFile
<1>2. CASE UNCHANGED vars \/ Invocation
  BY <1>2 DEF vars, Invocation, installVars
<1>3. CASE Validate
  BY <1>3 DEF Validate, Raise
<1>4. CASE RenderLockfile
  BY <1>1, <1>4 DEF RenderLockfile, Raise
<1>5. CASE AddAuth
  BY <1>1, <1>5 DEF AddAuth
<1>6. CASE Create
  BY <1>6, FileIsOpen DEF Create
<1>7. CASE Created
  <2>1. main \in {"returned", "CalledProcessError", "UnicodeDecodeError"}
    BY <1>7 DEF Created, Ended, Running
  <2>2. installed' \subseteq {"conda", "pip"}
    BY <1>7 DEF Created, Installs
  <2> QED
    BY <1>1, <1>7, <2>1, <2>2 DEF Created, Raise
<1>8. CASE RunPip
  BY <1>8 DEF RunPip
<1>9. CASE PipEnded
  BY <1>9 DEF PipEnded, Installs, Raise, Ended, Running
<1>10. CASE LeaveFile
  BY <1>10, EntriesLast DEF LeaveFile
<1>11. CASE End
  BY <1>11 DEF End
<1> QED
  BY <1>2, <1>3, <1>4, <1>5, <1>6, <1>7, <1>8, <1>9, <1>10, <1>11 DEF InstallNext, Own

LEMMA FilesKept ==
    ASSUME InstallTypes, Files, [InstallNext]_vars
    PROVE  Files'
<1>1. /\ open \in Seq(TempFile) /\ temp \subseteq TempFile /\ preserved \subseteq TempFile
      /\ request \in Requests /\ request.delete \in BOOLEAN
  BY InstallAssumption DEF InstallTypes, IsRequest
(* A file is entered that is not open. *)
<1>2. ASSUME NEW f \in TempFile, EnterFile(f), f \notin Entries(open), request' = request
      PROVE  /\ Distinct(open') /\ Entries(open') = Entries(open) \union {f}
             /\ request'.delete => preserved' = {} /\ temp' = Entries(open')
             /\ ~request'.delete => temp' = preserved' /\ Entries(open') \subseteq temp'
  <2>1. Distinct(open') /\ Entries(open') = Entries(open) \union {f}
    BY <1>1, <1>2, EntriesAppend DEF EnterFile, Files
  <2> QED
    BY <1>1, <1>2, <2>1 DEF EnterFile, Files
<1>3. Entries(<<>>) = {}
  <2>1. DOMAIN <<>> = {}
    OBVIOUS
  <2> QED
    BY <2>1 DEF Entries
<1>4. CASE UNCHANGED vars \/ Invocation
  BY <1>4 DEF vars, Invocation, installVars, Files
<1>5. CASE Validate
  BY <1>5 DEF Validate, Raise, Files
<1>6. CASE RenderLockfile
  <2>1. at = "render" /\ open = <<>> /\ request' = request
    BY <1>6 DEF RenderLockfile, Raise, Files
  <2>2. CASE EnterFile("rendered") /\ at' = "auth"
    BY <1>2, <1>3, <2>1, <2>2 DEF Files, TempFile
  <2>3. CASE at' \in {"auth", "leave"} /\ UNCHANGED <<open, temp, preserved>>
    BY <1>3, <2>1, <2>3 DEF Files
  <2> QED
    BY <1>6, <2>2, <2>3 DEF RenderLockfile, Raise
<1>7. CASE AddAuth
  <2>1. at = "auth" /\ Entries(open) \subseteq {"rendered"} /\ request' = request /\ at' = "create"
    BY <1>7 DEF AddAuth, Files
  <2>2. CASE EnterFile("auth")
    BY <1>2, <2>1, <2>2 DEF Files, TempFile
  <2>3. CASE UNCHANGED <<open, temp, preserved>>
    BY <2>1, <2>3 DEF Files
  <2> QED
    BY <1>7, <2>2, <2>3 DEF AddAuth
<1>8. CASE Create
  BY <1>8 DEF Create, Files
<1>9. CASE Created
  <2>1. at = "creating" /\ "requirements" \notin Entries(open) /\ request' = request
    BY <1>9 DEF Created, Raise, Files
  <2>2. CASE EnterFile("requirements") /\ at' = "pip"
    BY <1>2, <2>1, <2>2 DEF Files, TempFile
  <2>3. CASE at' = "leave" /\ UNCHANGED <<open, temp, preserved>>
    BY <2>1, <2>3 DEF Files
  <2> QED
    BY <1>9, <2>2, <2>3 DEF Created, Raise
<1>10. CASE RunPip
  BY <1>10 DEF RunPip, Files
<1>11. CASE PipEnded
  BY <1>11 DEF PipEnded, Raise, Files
<1>12. CASE LeaveFile
  <2>1. Distinct(open') /\ Entries(open') = Entries(open) \ {File}
    BY <1>1, <1>12, EntriesLast DEF LeaveFile, Files, File
  <2>2. at = "leave" /\ UNCHANGED <<request, at, preserved>>
    BY <1>12 DEF LeaveFile
  <2>3. temp' = IF request.delete THEN temp \ {File} ELSE temp
    BY <1>12 DEF LeaveFile
  <2> QED
    BY <1>1, <2>1, <2>2, <2>3 DEF Files
<1>13. CASE End
  BY <1>13 DEF End, Files
<1> QED
  BY <1>4, <1>5, <1>6, <1>7, <1>8, <1>9, <1>10, <1>11, <1>12, <1>13 DEF InstallNext, Own

LEMMA RunningKept ==
    ASSUME InvokeInv, InstallTypes, Running, [InstallNext]_vars
    PROVE  Running'
<1>1. CASE UNCHANGED vars
  BY <1>1 DEF vars, invokeVars, installVars, Running, File, TakenForEnv
<1>2. CASE Invocation
  <2>1. UNCHANGED installVars /\ Next
    BY <1>2 DEF Invocation
  <2>2. File' = File /\ TakenForEnv' = TakenForEnv
    BY <2>1 DEF installVars, File, TakenForEnv
  <2> QED
    BY <2>1, <2>2, InvocationLeaves DEF installVars, InvokeInv, Running
<1>3. CASE Validate \/ RenderLockfile \/ AddAuth
  <2>1. UNCHANGED invokeVars /\ at \notin {"creating", "piping"} /\ at' \notin {"creating", "piping"}
    BY <1>3 DEF Validate, RenderLockfile, AddAuth, Raise
  <2> QED
    BY <2>1 DEF Running, invokeVars
<1>4. CASE Create
  <2>1. /\ using' = File /\ at' = "creating" /\ UNCHANGED <<request, open>>
        /\ main' = "stderr"
        /\ (request.kind = "env") # TakenForEnv => child'.code # 0
    BY <1>4 DEF Create, Invoke
  <2>2. File' = File /\ TakenForEnv' = TakenForEnv
    BY <2>1 DEF File, TakenForEnv
  <2> QED
    BY <2>1, <2>2 DEF Running
<1>5. CASE Created \/ PipEnded
  <2>1. /\ UNCHANGED invokeVars /\ at' \in {"pip", "leave"}
        /\ at \in {"creating", "piping"} /\ Ended
    BY <1>5 DEF Created, PipEnded, Raise
  <2>2. main \notin {"stderr", "unwind", "unwound"}
    BY <2>1 DEF Ended
  <2>3. ~child.alive
    BY <2>2 DEF InvokeInv, Order
  <2> QED
    BY <2>1, <2>3 DEF Running, invokeVars
<1>6. CASE RunPip
  <2>1. using' = "requirements" /\ at' = "piping" /\ main' = "stderr"
    BY <1>6 DEF RunPip, Invoke
  <2> QED
    BY <2>1 DEF Running
<1>7. CASE LeaveFile \/ End
  <2>1. UNCHANGED invokeVars /\ at = "leave" /\ at' \in {"leave", "returned", "raised"}
    BY <1>7 DEF LeaveFile, End
  <2> QED
    BY <2>1 DEF Running, invokeVars
<1> QED
  BY <1>1, <1>2, <1>3, <1>4, <1>5, <1>6, <1>7 DEF InstallNext, Own

LEMMA ProgressingKept ==
    ASSUME InvokeInv, InstallTypes, Running, Progressing, [InstallNext]_vars
    PROVE  Progressing'
<1>1. CASE UNCHANGED vars \/ Invocation
  BY <1>1 DEF vars, Invocation, installVars, Progressing, All
<1>2. CASE Validate \/ RenderLockfile
  <2>1. /\ installed' = installed /\ at \in {"start", "render"}
        /\ \/ at' \in {"render", "auth"} /\ raised' = raised
           \/ at' = "leave" /\ raised' \in {"PlatformValidationError", "MissingEnvVarError"}
    BY <1>2 DEF Validate, RenderLockfile, Raise
  <2> QED
    BY <2>1, InstallAssumption DEF Progressing
<1>3. CASE AddAuth \/ Create
  BY <1>3 DEF AddAuth, Create, Progressing
(* An invocation is over: it has succeeded, or its exception is raised. *)
<1>4. ASSUME Ended, at \in {"creating", "piping"}
      PROVE  \/ main = "returned" /\ child.code = 0
             \/ main \in {"CalledProcessError", "UnicodeDecodeError"}
  BY <1>4 DEF Ended, Running, InvokeInv, Order
<1>5. CASE Created
  <2>1. at = "creating" /\ installed = {} /\ raised = None /\ Ended /\ request' = request
    BY <1>5 DEF Created, Raise, Progressing
  <2>2. CASE main # "returned"
    <3>1. at' = "leave" /\ raised' = main /\ main \in {"CalledProcessError", "UnicodeDecodeError"}
      BY <1>4, <1>5, <2>1, <2>2 DEF Created, Raise
    <3> QED
      BY <3>1, InstallAssumption DEF Progressing
  <2>3. CASE main = "returned"
    <3>1. child.code = 0 /\ (request.kind = "env" <=> TakenForEnv)
      BY <1>4, <2>1, <2>3 DEF Running
    <3>2. installed' = IF TakenForEnv /\ request.pip THEN {"conda", "pip"} ELSE {"conda"}
      BY <1>5, <2>1, <3>1 DEF Created, Installs
    <3>3. raised' = raised /\ at' = IF WithRequirements THEN "pip" ELSE "leave"
      BY <1>5, <2>3 DEF Created
    <3> QED
      BY <2>1, <3>1, <3>2, <3>3 DEF Progressing, WithRequirements, All
  <2> QED
    BY <2>2, <2>3
<1>6. CASE RunPip
  BY <1>6 DEF RunPip, Progressing
<1>7. CASE PipEnded
  <2>1. /\ at = "piping" /\ installed = {"conda"} /\ request.pip /\ raised = None
        /\ Ended /\ request' = request
    BY <1>7 DEF PipEnded, Raise, Progressing
  <2>2. CASE main # "returned"
    <3>1. at' = "leave" /\ raised' = main /\ main \in {"CalledProcessError", "UnicodeDecodeError"}
      BY <1>4, <1>7, <2>1, <2>2 DEF PipEnded, Raise
    <3> QED
      BY <3>1, InstallAssumption DEF Progressing
  <2>3. CASE main = "returned"
    <3>1. child.code = 0
      BY <1>4, <2>1, <2>3
    <3>2. installed' = installed \union {"pip"} /\ raised' = raised /\ at' = "leave"
      BY <1>7, <2>3, <3>1 DEF PipEnded, Installs
    <3> QED
      BY <2>1, <3>2 DEF Progressing, All
  <2> QED
    BY <2>2, <2>3
<1>8. CASE LeaveFile
  BY <1>8 DEF LeaveFile, Progressing, All
<1>9. CASE End
  BY <1>9 DEF End, Progressing, All
<1> QED
  BY <1>1, <1>2, <1>3, <1>5, <1>6, <1>7, <1>8, <1>9 DEF InstallNext, Own

LEMMA Initially == ASSUME InstallInit PROVE Inv
<1>1. InvokeInv
  BY InvokeInvInit DEF InstallInit
<1>2. <<>> \in Seq(TempFile) /\ DOMAIN <<>> = {}
  OBVIOUS
<1>3. Entries(<<>>) = {} /\ Distinct(<<>>)
  BY <1>2 DEF Entries, Distinct
<1>4. InstallTypes
  BY <1>2 DEF InstallInit, InstallTypes, Steps
<1>5. Files
  BY <1>3 DEF InstallInit, Files
<1>6. Running /\ Progressing
  BY DEF InstallInit, Init, NoChild, Running, Progressing
<1> QED
  BY <1>1, <1>4, <1>5, <1>6 DEF Inv, InstallInv

LEMMA Inductive == ASSUME Inv, [InstallNext]_vars PROVE Inv'
<1>1. InvokeInv'
  BY StepIsInvokeStep, InvokeInvKept, InstallAssumption DEF Inv
<1> QED
  BY <1>1, InstallTypesKept, FilesKept, RunningKept, ProgressingKept DEF Inv, InstallInv

THEOREM InvHolds == InstallSpec => []Inv
BY Initially, Inductive, PTL DEF InstallSpec

(* A full pipe holds no more than its capacity, no line that cannot be       *)
(* decoded is collected, and the pieces of state of install are what they    *)
(* should be.                                                                *)
THEOREM TypeCorrect == InstallSpec => []InstallTypeOK
<1>1. Inv => InstallTypeOK
  BY InvokeInvImplies DEF Inv, InstallInv, InstallTypes, InstallTypeOK
<1> QED
  BY <1>1, InvHolds, PTL

(* For every program, every capacity and every interleaving: when a process  *)
(* is judged it is gone, and the output has all that it wrote and was worth  *)
(* keeping, in order.                                                        *)
THEOREM OutputComplete == InstallSpec => []AllOutputCollected
<1>1. Inv => AllOutputCollected
  BY InvokeInvImplies DEF Inv
<1> QED
  BY <1>1, InvHolds, PTL

(* For every request: install returns only after both of its processes have  *)
(* succeeded.                                                                *)
THEOREM ReturnsInstalled == InstallSpec => []ReturnedMeansInstalled
<1>1. Inv => ReturnedMeansInstalled
  BY DEF Inv, InstallInv, Progressing, ReturnedMeansInstalled, All
<1> QED
  BY <1>1, InvHolds, PTL

(* For every request: a process finds the file it was given as long as it    *)
(* runs, and no temporary file is left unless it is preserved and tracked.   *)
THEOREM FilesLast == InstallSpec => []FilesLastAsLongAsNeeded
<1>1. ASSUME Inv PROVE FilesLastAsLongAsNeeded
  <2>1. InstallTypes /\ Files /\ Running /\ request.delete \in BOOLEAN
    BY <1>1, InstallAssumption DEF Inv, InstallInv, InstallTypes, IsRequest
  <2>2. ASSUME child.alive PROVE using \in temp \union {None}
    <3>1. CASE at = "creating"
      BY <2>1, <3>1, FileIsOpen DEF Running, Files
    <3>2. CASE at = "piping"
      BY <2>1, <3>2 DEF Running, Files
    <3> QED
      BY <2>1, <2>2, <3>1, <3>2 DEF Running
  <2>3. ASSUME at \in {"returned", "raised"} PROVE temp = preserved
    <3>1. Entries(open) = {}
      <4>1. open = <<>> /\ DOMAIN <<>> = {}
        BY <2>1, <2>3 DEF Files
      <4> QED
        BY <4>1 DEF Entries
    <3> QED
      BY <2>1, <3>1 DEF Files
  <2> QED
    BY <2>1, <2>2, <2>3 DEF Files, FilesLastAsLongAsNeeded
<1> QED
  BY <1>1, InvHolds, PTL
=============================================================================
