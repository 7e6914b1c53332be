--------------------------- MODULE ToposortProofs ---------------------------
(***************************************************************************)
(* The order of an explicit file, for every lookup over every set of names: *)
(* nothing is yielded twice, and no cycle of other packages disturbs the    *)
(* order.  What is left of the graph is its restriction to what has not     *)
(* been yielded; when nothing in it is free, all of it is a tangle.         *)
(***************************************************************************)
EXTENDS Toposort, TLAPS

Graph == Initial(lookup)

(* What is left of the graph, and what is known of the items of a round. *)
Inv ==
    /\ IsLookup(lookup)
    /\ out \in Seq(Item)
    /\ Yielded \subseteq DOMAIN Graph
    /\ data = [k \in DOMAIN Graph \ Yielded |-> Graph[k] \ Yielded]
    /\ round \subseteq Free
    /\ YieldedOnce
    /\ DependenciesFirst

(* The graph of a lookup is closed, and is what the lookup needs (Prepared   *)
(* and WithoutPip against the declarative Needs).                            *)
LEMMA GraphOfLookup ==
    ASSUME NEW l, IsLookup(l)
    PROVE  /\ IsLookup(Initial(l))
           /\ \A k \in DOMAIN Initial(l) : Initial(l)[k] \subseteq DOMAIN Initial(l)
           /\ \A k \in DOMAIN l : k \in DOMAIN Initial(l) /\ Needs(l)[k] = Initial(l)[k]
           /\ \A k \in DOMAIN Initial(l) \ DOMAIN l : Initial(l)[k] = {}
           /\ DOMAIN Needs(l) = DOMAIN l
<1> DEFINE w == WithoutPip(l)
           g == Initial(l)
<1>1. /\ DOMAIN w = DOMAIN l
      /\ \A k \in DOMAIN l : w[k] = IF k = Python THEN l[k] \ {Pip} ELSE l[k]
  BY DEF WithoutPip
<1>2. /\ DOMAIN g = Occurring(w)
      /\ g = [k \in DOMAIN g |-> g[k]]
      /\ \A k \in DOMAIN g : g[k] = IF k \in DOMAIN l THEN w[k] \ {k} ELSE {}
  BY <1>1 DEF Initial, Prepared
<1>3. /\ DOMAIN l \subseteq DOMAIN g
      /\ \A k \in DOMAIN l : w[k] \subseteq DOMAIN g
  BY <1>1, <1>2 DEF Occurring
<1>4. DOMAIN g \subseteq Item
  <2>1. \A k \in DOMAIN l : w[k] \subseteq Item
    BY <1>1 DEF IsLookup
  <2> QED
    BY <1>1, <1>2, <2>1 DEF Occurring, IsLookup
<1>5. /\ DOMAIN Needs(l) = DOMAIN l
      /\ \A k \in DOMAIN l : Needs(l)[k] = l[k] \ (IF k = Python THEN {k, Pip} ELSE {k})
  BY DEF Needs
<1>6. \A k \in DOMAIN l : Needs(l)[k] = g[k]
  BY <1>1, <1>2, <1>3, <1>5
<1>7. \A k \in DOMAIN g : g[k] \subseteq DOMAIN g
  BY <1>2, <1>3
<1>8. IsLookup(g)
  BY <1>2, <1>4, <1>7 DEF IsLookup
<1> QED
  BY <1>2, <1>3, <1>5, <1>6, <1>7, <1>8

(* An item that is appended has been yielded, and nothing else is new (out   *)
(* of _toposort).                                                            *)
LEMMA Appended ==
    ASSUME out \in Seq(Item), NEW i \in Item, out' = Append(out, i)
    PROVE  /\ out' \in Seq(Item)
           /\ Yielded' = Yielded \union {i}
           /\ DOMAIN out = 1 .. Len(out) /\ Len(out) \in Nat
           /\ DOMAIN out' = 1 .. Len(out) + 1
           /\ \A n \in 1 .. Len(out) : out'[n] = out[n]
           /\ out'[Len(out) + 1] = i
<1>1. /\ out' \in Seq(Item)
      /\ DOMAIN out = 1 .. Len(out) /\ Len(out) \in Nat
      /\ DOMAIN out' = 1 .. Len(out) + 1
      /\ \A n \in 1 .. Len(out) : out'[n] = out[n]
      /\ out'[Len(out) + 1] = i
  OBVIOUS
<1>2. Yielded' = Yielded \union {i}
  BY <1>1 DEF Yielded
<1> QED
  BY <1>1, <1>2

(* An item leaves the graph whose needs have all been yielded, but for those *)
(* that a cycle is upstream of; both ways out of the graph are of this kind. *)
LEMMA RemoveKeeps ==
    ASSUME Inv, NEW i \in DOMAIN data, Remove(i), round' \subseteq round \ {i},
           i \in DOMAIN Needs(lookup) =>
               Needs(lookup)[i] \ Tangled(Needs(lookup)) \subseteq Yielded
    PROVE  Inv'
<1>1. /\ out' = Append(out, i)
      /\ data' = [k \in DOMAIN data \ {i} |-> data[k] \ {i}]
      /\ lookup' = lookup
  BY DEF Remove
<1>2. /\ IsLookup(lookup) /\ out \in Seq(Item)
      /\ Yielded \subseteq DOMAIN Graph
      /\ data = [k \in DOMAIN Graph \ Yielded |-> Graph[k] \ Yielded]
      /\ round \subseteq Free /\ YieldedOnce /\ DependenciesFirst
  BY DEF Inv
<1>3. i \in Item /\ i \in DOMAIN Graph /\ i \notin Yielded
  BY <1>2, GraphOfLookup DEF IsLookup, Graph
<1>4. /\ out' \in Seq(Item)
      /\ Yielded' = Yielded \union {i}
      /\ DOMAIN out = 1 .. Len(out) /\ Len(out) \in Nat
      /\ DOMAIN out' = 1 .. Len(out) + 1
      /\ \A n \in 1 .. Len(out) : out'[n] = out[n]
      /\ out'[Len(out) + 1] = i
  BY <1>1, <1>2, <1>3, Appended
<1>5. Graph' = Graph
  BY <1>1 DEF Graph
<1>6. Yielded' \subseteq DOMAIN Graph'
  BY <1>2, <1>3, <1>4, <1>5
<1>7. data' = [k \in DOMAIN Graph' \ Yielded' |-> Graph'[k] \ Yielded']
  <2>1. DOMAIN data \ {i} = DOMAIN Graph \ (Yielded \union {i})
    BY <1>2
  <2>2. \A k \in DOMAIN data \ {i} : data[k] \ {i} = Graph[k] \ (Yielded \union {i})
    BY <1>2
  <2> QED
    BY <1>1, <1>4, <1>5, <2>1, <2>2
<1>8. (round \subseteq Free)'
  <2>1. \A k \in round \ {i} : k \in DOMAIN data \ {i} /\ data[k] = {}
    BY <1>2 DEF Free
  <2> QED
    BY <1>1, <2>1 DEF Free
<1>9. YieldedOnce'
  <2>1. \A n \in DOMAIN out : out[n] # i
    BY <1>3 DEF Yielded
  <2> QED
    BY <1>2, <1>4, <2>1 DEF YieldedOnce
<1>10. DependenciesFirst'
  <2> DEFINE l == Needs(lookup)
  <2>1. l' = l /\ Tangled(l)' = Tangled(l)
    BY <1>1
  <2>2. SUFFICES ASSUME NEW n \in DOMAIN out', out'[n] \in DOMAIN l,
                        NEW d \in l[out'[n]] \ Tangled(l)
                 PROVE  \E m \in 1 .. n - 1 : out'[m] = d
    BY <2>1, Zenon DEF DependenciesFirst
  <2> HIDE DEF l
  <2>3. CASE n \in 1 .. Len(out)
    <3>1. n \in DOMAIN out /\ out'[n] = out[n]
      BY <1>4, <2>3
    <3>2. \E m \in 1 .. n - 1 : out[m] = d
      BY <1>2, <2>2, <3>1 DEF DependenciesFirst, l
    <3> QED
      BY <1>4, <2>3, <3>2
  <2>4. CASE n = Len(out) + 1
    <3>1. out'[n] = i
      BY <1>4, <2>4
    <3>2. d \in Yielded
      BY <2>2, <3>1 DEF l
    <3> QED
      BY <1>4, <2>4, <3>2 DEF Yielded
  <2> QED
    BY <1>4, <2>3, <2>4
<1> QED
  BY <1>1, <1>2, <1>4, <1>6, <1>7, <1>8, <1>9, <1>10 DEF Inv

(* A sort begins with the whole graph (the beginning of _toposort).          *)
LEMMA WholeGraph ==
    ASSUME NEW l, IsLookup(l)
    PROVE  Initial(l) = [k \in DOMAIN Initial(l) \ {} |-> Initial(l)[k] \ {}]
<1>1. Initial(l) = [k \in DOMAIN Initial(l) |-> Initial(l)[k]]
  BY GraphOfLookup DEF IsLookup
<1> QED
  BY <1>1

LEMMA InitInv == Init => Inv
<1> SUFFICES ASSUME Init PROVE Inv
  OBVIOUS
<1>1. /\ IsLookup(lookup) /\ out = <<>> /\ round = {} /\ data = Graph
      /\ Yielded = {}
  BY DEF Init, IsLookup, Graph, Yielded
<1>2. data = [k \in DOMAIN Graph \ Yielded |-> Graph[k] \ Yielded]
  BY <1>1, WholeGraph DEF Graph
<1> QED
  BY <1>1, <1>2 DEF Inv, YieldedOnce, DependenciesFirst

LEMMA BeginInv == ASSUME NEW l, IsLookup(l), Begin(l) PROVE Inv'
<1>1. lookup' = l /\ out' = <<>> /\ round' = {} /\ data' = Graph' /\ Yielded' = {}
  BY DEF Begin, Graph, Yielded
<1>2. data' = [k \in DOMAIN Graph' \ Yielded' |-> Graph'[k] \ Yielded']
  BY <1>1, WholeGraph DEF Graph
<1> QED
  BY <1>1, <1>2 DEF Inv, YieldedOnce, DependenciesFirst

(* When nothing is free, what is left of the graph is a tangle. *)
LEMMA StuckTangle ==
    ASSUME Inv, Stuck
    PROVE  DOMAIN data \subseteq Tangled(Needs(lookup))
<1> DEFINE T == DOMAIN data
           l == Needs(lookup)
<1>1. /\ IsLookup(lookup)
      /\ data = [k \in DOMAIN Graph \ Yielded |-> Graph[k] \ Yielded]
  BY DEF Inv
<1>2. \A k \in T : k \in DOMAIN Graph /\ data[k] = Graph[k] \ Yielded /\ data[k] # {}
  BY <1>1 DEF Stuck, Free
<1>3. \A k \in T : k \in DOMAIN l /\ l[k] = Graph[k]
  BY <1>1, <1>2, GraphOfLookup DEF Graph
<1>4. \A k \in T : data[k] \subseteq l[k] \intersect T
  BY <1>1, <1>2, <1>3, GraphOfLookup DEF Graph
<1>5. T \in SUBSET DOMAIN l /\ Tangle(l, T)
  BY <1>2, <1>3, <1>4 DEF Tangle
<1> QED
  BY <1>5 DEF Tangled

LEMMA NextInv == Inv /\ [Next]_vars => Inv'
<1> SUFFICES ASSUME Inv, [Next]_vars PROVE Inv'
  OBVIOUS
<1>0. /\ IsLookup(lookup)
      /\ data = [k \in DOMAIN Graph \ Yielded |-> Graph[k] \ Yielded]
      /\ round \subseteq Free
  BY DEF Inv
<1>g. /\ \A k \in DOMAIN Graph : Graph[k] \subseteq DOMAIN Graph
      /\ \A k \in DOMAIN Needs(lookup) : k \in DOMAIN Graph /\ Needs(lookup)[k] = Graph[k]
  BY <1>0, GraphOfLookup DEF Graph
<1>1. CASE NextRound
  <2>1. lookup' = lookup /\ data' = data /\ out' = out /\ round' = Free
    BY <1>1 DEF NextRound
  <2> QED
    BY <2>1 DEF Inv, Free, Graph, Yielded, YieldedOnce, DependenciesFirst
<1>2. CASE Yield
  <2>1. PICK i \in round : Remove(i) /\ round' = round \ {i}
    BY <1>2 DEF Yield
  <2>2. i \in DOMAIN data /\ data[i] = {}
    BY <1>0 DEF Free
  <2>3. Graph[i] \subseteq Yielded
    BY <1>0, <2>2
  <2> QED
    BY <1>g, <2>1, <2>2, <2>3, RemoveKeeps
<1>3. CASE PopKey
  <2>1. Stuck /\ round' = round /\ round = {}
    BY <1>3 DEF PopKey, Stuck
  <2>2. PICK i \in DOMAIN data : Remove(i)
    BY <1>3 DEF PopKey
  <2>3. ASSUME i \in DOMAIN Needs(lookup)
        PROVE  Needs(lookup)[i] \ Tangled(Needs(lookup)) \subseteq Yielded
    <3>1. DOMAIN data \subseteq Tangled(Needs(lookup))
      BY <2>1, StuckTangle
    <3>2. Needs(lookup)[i] \subseteq DOMAIN Graph
      BY <1>g, <2>3
    <3>3. DOMAIN data = DOMAIN Graph \ Yielded
      BY <1>0
    <3> QED
      BY <3>1, <3>2, <3>3
  <2> QED
    BY <2>1, <2>2, <2>3, RemoveKeeps
<1>4. CASE UNCHANGED vars
  BY <1>4 DEF vars, Inv, Free, Graph, Yielded, YieldedOnce, DependenciesFirst
<1> QED
  BY <1>1, <1>2, <1>3, <1>4 DEF Next

LEMMA InvAlways == Spec => []Inv
BY InitInv, NextInv, PTL DEF Spec

LEMMA InvTypeOK == ASSUME Inv PROVE TypeOK
<1>1. /\ IsLookup(lookup) /\ out \in Seq(Item) /\ round \subseteq Free
      /\ Yielded \subseteq DOMAIN Graph
      /\ data = [k \in DOMAIN Graph \ Yielded |-> Graph[k] \ Yielded]
  BY DEF Inv
<1>2. IsLookup(data)
  <2>1. DOMAIN data = DOMAIN Graph \ Yielded /\ \A k \in DOMAIN data : data[k] \subseteq Graph[k]
    BY <1>1
  <2>2. data = [k \in DOMAIN data |-> data[k]]
    BY <1>1
  <2>3. IsLookup(Graph)
    BY <1>1, GraphOfLookup DEF Graph
  <2> QED
    BY <2>1, <2>2, <2>3 DEF IsLookup
<1>3. DOMAIN Graph = Occurring(Needs(lookup))
  <2>1. /\ \A k \in DOMAIN Graph : Graph[k] \subseteq DOMAIN Graph
        /\ DOMAIN Needs(lookup) = DOMAIN lookup
        /\ \A k \in DOMAIN lookup : k \in DOMAIN Graph /\ Needs(lookup)[k] = Graph[k]
    BY <1>1, GraphOfLookup DEF Graph
  <2>2. Occurring(Needs(lookup)) \subseteq DOMAIN Graph
    BY <2>1 DEF Occurring
  <2>3. ASSUME NEW k \in DOMAIN Graph, k \notin DOMAIN lookup
        PROVE  \E j \in DOMAIN lookup : k \in Needs(lookup)[j]
    <3>1. DOMAIN Graph = Occurring(WithoutPip(lookup))
      BY DEF Graph, Initial, Prepared
    <3>2. PICK j \in DOMAIN lookup : k \in WithoutPip(lookup)[j]
      BY <2>3, <3>1 DEF Occurring, WithoutPip
    <3>3. k # j
      BY <2>3, <3>2
    <3> QED
      BY <3>2, <3>3 DEF Needs, WithoutPip
  <2> QED
    BY <2>1, <2>2, <2>3 DEF Occurring
<1> QED
  BY <1>1, <1>2, <1>3 DEF TypeOK

(* The types, and the items split into those in the graph and those yielded  *)
(* (data and out of _toposort and _safe_toposort).                           *)
THEOREM SortTypeCorrect == Spec => []TypeOK
BY InvTypeOK, InvAlways, PTL

(* Whatever cycles there are, no package is yielded twice (pop_key takes its *)
(* item out of the graph).                                                   *)
THEOREM NothingYieldedTwice == Spec => []YieldedOnce
<1>1. Inv => YieldedOnce
  BY DEF Inv
<1> QED
  BY <1>1, InvAlways, PTL

(* What a package needs precedes it, unless a cycle is upstream of that      *)
(* (rounds of _toposort, and _safe_toposort's choice when there is none).    *)
THEOREM NeedsComeFirst == Spec => []DependenciesFirst
<1>1. Inv => DependenciesFirst
  BY DEF Inv
<1> QED
  BY <1>1, InvAlways, PTL

=============================================================================
