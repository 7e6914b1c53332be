------------------------------ MODULE Toposort ------------------------------
(***************************************************************************)
(* toposort (conda_lock/_vendor/conda/common/toposort.py), by which         *)
(* Lockfile._toposort and so every explicit file order their packages.      *)
(*                                                                         *)
(* The generator _toposort yields, round after round and alphabetically,    *)
(* the items all of whose dependencies have been yielded.  When there is    *)
(* none it raises, and _safe_toposort takes one item out of its turn and    *)
(* starts the generator again.  Items are numbered in alphabetical order.   *)
(***************************************************************************)
EXTENDS Integers, Sequences, FiniteSets

CONSTANTS
    Item,    \* names of packages: their places in the alphabet, natural numbers
    Python,  \* the names that are treated specially
    Pip

VARIABLES
    lookup,  \* the argument: [some items -> the items they depend on]
    data,    \* the same for the items that are left, their dependencies that are left
    round,   \* items of the round that have not been yielded yet
    out      \* what has been yielded

vars == <<lookup, data, round, out>>

(* Lookups are the functions from some items to sets of items. *)
IsLookup(l) ==
    /\ l = [k \in DOMAIN l |-> l[k]]
    /\ DOMAIN l \subseteq Item
    /\ \A k \in DOMAIN l : l[k] \subseteq Item

Occurring(l) == DOMAIN l \union UNION {l[k] : k \in DOMAIN l}

Yielded == {out[n] : n \in DOMAIN out}

-----------------------------------------------------------------------------
(* python's dependency on pip is ignored. *)
WithoutPip(l) ==
    [k \in DOMAIN l |-> IF k = Python THEN l[k] \ {Pip} ELSE l[k]]

(* The beginning of _toposort: an item does not depend on itself, and what *)
(* is only depended on becomes an item without dependencies.               *)
Prepared(l) ==
    [k \in Occurring(l) |-> IF k \in DOMAIN l THEN l[k] \ {k} ELSE {}]

Initial(l) == Prepared(WithoutPip(l))

Begin(l) ==
    /\ lookup' = l
    /\ data'   = Initial(l)
    /\ round'  = {}
    /\ out'    = <<>>

Init ==
    /\ \E D \in SUBSET Item : lookup \in [D -> SUBSET Item]
    /\ data  = Initial(lookup)
    /\ round = {}
    /\ out   = <<>>

(* Mutant of Free: one dependency may be missing. *)
FreeOrNearly == {k \in DOMAIN data : Cardinality(data[k]) <= 1}

Free == {k \in DOMAIN data : data[k] = {}}

(* An item leaves the graph.  The code takes a round's items out of the     *)
(* remaining sets when all of them have been yielded; nobody looks before.  *)
Remove(i) ==
    /\ out'  = Append(out, i)
    /\ data' = [k \in DOMAIN data \ {i} |-> data[k] \ {i}]
    /\ UNCHANGED lookup

NextRound ==
    /\ round = {} /\ Free # {}
    /\ round' = Free
    /\ UNCHANGED <<lookup, data, out>>

Yield ==
    \E i \in round :
        /\ \A j \in round : i <= j
        /\ Remove(i)
        /\ round' = round \ {i}

(* pop_key's order: fewer dependencies left, or as many and a smaller name. *)
PoppedBefore(i, j) ==
    LET n(k) == Cardinality(data[k])
    IN  n(i) < n(j) \/ (n(i) = n(j) /\ i <= j)

(* _toposort has come to an end, but not through the graph: it raises. *)
Stuck == round = {} /\ Free = {} /\ DOMAIN data # {}

(* Mutant of PopKey: the item is yielded, and stays in the graph. *)
PopKeyKeeping ==
    /\ Stuck
    /\ \E i \in DOMAIN data :
        /\ \A j \in DOMAIN data : PoppedBefore(i, j)
        /\ out' = Append(out, i)
        /\ data' = [k \in DOMAIN data |-> data[k] \ {i}]
    /\ UNCHANGED <<lookup, round>>

(* Mutant of PopKey: a cycle is left to _toposort, which raises. *)
PopKeyRefusing == FALSE

(* pop_key, after which the generator is started on the rest of the graph. *)
PopKey ==
    /\ Stuck
    /\ \E i \in DOMAIN data :
        /\ \A j \in DOMAIN data : PoppedBefore(i, j)
        /\ Remove(i)
    /\ UNCHANGED round

Done == DOMAIN data = {}

Next == NextRound \/ Yield \/ PopKey

Spec == Init /\ [][Next]_vars

-----------------------------------------------------------------------------
(* The dependencies that count: not an item's on itself, nor python's on pip. *)
Needs(l) == [k \in DOMAIN l |-> l[k] \ (IF k = Python THEN {k, Pip} ELSE {k})]

(* A set whose members all depend on members of it: cycles, and what is     *)
(* between cycles or downstream of them.                                    *)
Tangle(l, T) == \A i \in T : l[i] \intersect T # {}

(* The items from which a dependency leads to a cycle. *)
Tangled(l) == UNION {T \in SUBSET DOMAIN l : Tangle(l, T)}

(* What is sorted is consistent, and every item of the input is either still *)
(* in the graph or has been yielded, never both (toposort's data.pop).       *)
TypeOK ==
    /\ IsLookup(lookup) /\ IsLookup(data)
    /\ round \subseteq Free
    /\ out \in Seq(Item)
    /\ Yielded \union DOMAIN data = Occurring(Needs(lookup))
    /\ Yielded \intersect DOMAIN data = {}

(* No item is yielded twice: a package that is would be installed twice,     *)
(* whether it leaves by its round or by pop_key.                             *)
YieldedOnce == \A m, n \in DOMAIN out : out[m] = out[n] => m = n

(* What an item depends on comes before it, unless a cycle is upstream of    *)
(* that dependency; other cycles, of the item itself or anywhere else, do    *)
(* not disturb the order, although pop_key ignores it.  With python not      *)
(* depending on pip this is what puts python before what needs it.           *)
DependenciesFirst ==
    LET l == Needs(lookup)
    IN  \A n \in DOMAIN out : out[n] \in DOMAIN l =>
            \A d \in l[out[n]] \ Tangled(l) : \E m \in 1 .. n - 1 : out[m] = d

=============================================================================
