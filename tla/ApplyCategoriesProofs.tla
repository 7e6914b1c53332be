----------------------- MODULE ApplyCategoriesProofs -----------------------
(***************************************************************************)
(* What apply_categories computes, for every plan and every iteration       *)
(* order, provided that no name means one package to conda and another to   *)
(* PyPI (NoNameSwap).                                                       *)
(***************************************************************************)
EXTENDS ApplyCategories, FiniteSetTheorems, SequenceTheorems, TLAPS

Walking == pc \in {"extract", "expand"}

(* Everything the walk of `name` has come across. *)
Found == deps \union {name, item} \union Range(todo)

(* The names dependencies go by. *)
DependencyNames == {DepName(e[1], e[2]) :
                       e \in {f \in plan.present \X Name : f[2] \in plan.deps[f[1]]}}

(* The root has not been looked up yet. *)
FirstVisit == pc = "extract" /\ item = name /\ deps = {} /\ todo = <<>>

(* The current item is being expanded, and nothing but it. *)
ItemInv ==
    /\ pc # "expand" => items = {}
    /\ pc = "expand" => item \in deps \union {name} /\ items \subseteq TargetsOf(item)

(* Whatever is looked up has been expanded or is about to be. *)
ExpandedInv ==
    Walking /\ ~FirstVisit =>
        \A n \in deps \union {name} : \A p \in TargetsOf(n) :
            p \in items \/ Needs(p) \subseteq Found

(* What the walk comes across are names of dependencies. *)
DependencyInv ==
    Walking => /\ deps \union Range(todo) \subseteq DependencyNames
               /\ item # name => item \in DependencyNames

(* A request that has been walked has all of its dependencies. *)
WalkedInv ==
    /\ Walking => name \in DOMAIN plan.requested \ waiting
    /\ pc # "KeyError" =>
        \A r \in DOMAIN plan.requested \ waiting :
            (Walking => r # name) => dependents[r] \union {r} = Reach(r)

CategoriesInv ==
    /\ pc # "done" => categories = plan.categories
    /\ CategoriesCorrect

(* What holds whatever the names mean: the walk does not go astray. *)
SoundInv ==
    /\ TypeOK
    /\ plan \in Plans
    /\ ItemInv
    /\ OnlyNeededWalked
    /\ KeyErrorJustified

(* And the walk does not miss anything. *)
IInv ==
    /\ SoundInv
    /\ ExpandedInv
    /\ DependencyInv
    /\ WalkedInv
    /\ CategoriesInv
-----------------------------------------------------------------------------
(* Concatenation, head and tail, seen as sets of elements. *)
LEMMA RangeConcat ==
    ASSUME NEW S, NEW s \in Seq(S), NEW t \in Seq(S)
    PROVE  Range(s \o t) = Range(s) \union Range(t)
<1>1. Range(s \o t) \subseteq Range(s) \union Range(t)
    <2>1. SUFFICES ASSUME NEW i \in 1 .. Len(s) + Len(t)
                   PROVE  (s \o t)[i] \in Range(s) \union Range(t)
        BY DEF Range
    <2>2. CASE i <= Len(s)
        BY <2>2 DEF Range
    <2>3. CASE i > Len(s)
        BY <2>3 DEF Range
    <2>4. QED
        BY <2>2, <2>3
<1>2. Range(s) \subseteq Range(s \o t)
    <2>1. SUFFICES ASSUME NEW i \in 1 .. Len(s)
                   PROVE  s[i] \in Range(s \o t)
        BY DEF Range
    <2>2. i \in 1 .. Len(s \o t) /\ (s \o t)[i] = s[i]
        OBVIOUS
    <2>3. QED
        BY <2>2 DEF Range
<1>3. Range(t) \subseteq Range(s \o t)
    <2>1. SUFFICES ASSUME NEW i \in 1 .. Len(t)
                   PROVE  t[i] \in Range(s \o t)
        BY DEF Range
    <2>2. Len(s) + i \in 1 .. Len(s \o t) /\ (s \o t)[Len(s) + i] = t[i]
        OBVIOUS
    <2>3. QED
        BY <2>2 DEF Range
<1>4. QED
    BY <1>1, <1>2, <1>3

LEMMA RangeHeadTail ==
    ASSUME NEW S, NEW s \in Seq(S), s # <<>>
    PROVE  Range(s) = {Head(s)} \union Range(Tail(s))
<1>1. Range(s) \subseteq {Head(s)} \union Range(Tail(s))
    <2>1. SUFFICES ASSUME NEW i \in 1 .. Len(s)
                   PROVE  s[i] \in {Head(s)} \union Range(Tail(s))
        BY DEF Range
    <2>2. CASE i = 1
        BY <2>2
    <2>3. CASE i > 1
        <3>1. i - 1 \in 1 .. Len(Tail(s)) /\ Tail(s)[i - 1] = s[i]
            BY <2>3
        <3>2. DOMAIN Tail(s) = 1 .. Len(Tail(s))
            BY HeadTailProperties
        <3>3. Tail(s)[i - 1] \in Range(Tail(s))
            BY <3>1, <3>2, Zenon DEF Range
        <3>4. QED
            BY <3>1, <3>3
    <2>4. QED
        BY <2>2, <2>3
<1>2. Head(s) \in Range(s)
    BY DEF Range
<1>3. Range(Tail(s)) \subseteq Range(s)
    <2>1. SUFFICES ASSUME NEW i \in 1 .. Len(Tail(s))
                   PROVE  Tail(s)[i] \in Range(s)
        BY DEF Range
    <2>2. i + 1 \in 1 .. Len(s) /\ Tail(s)[i] = s[i + 1]
        OBVIOUS
    <2>3. QED
        BY <2>2 DEF Range
<1>4. QED
    BY <1>1, <1>2, <1>3

-----------------------------------------------------------------------------
(* DepName, MungedKey and the sets built from them stay within Name and Pkg. *)
LEMMA DepNameType ==
    ASSUME NEW p \in Pkg, NEW d \in Name
    PROVE  DepName(p, d) \in Name
BY NamesAssumption DEF DepName, NameFor

LEMMA NeedsType ==
    ASSUME TypeOK, NEW p \in Pkg
    PROVE  Needs(p) \subseteq Name
BY DepNameType DEF Needs, TypeOK, IsPlan

LEMMA TargetsType ==
    ASSUME TypeOK, NEW n
    PROVE  TargetsOf(n) \subseteq plan.present /\ TargetsOf(n) \subseteq Pkg
BY DEF TargetsOf, PlannedAt, TypeOK, IsPlan

(* A package is a target of its own key. *)
LEMMA TargetOfOwnKey ==
    ASSUME NEW n, NEW p \in TargetsOf(n)
    PROVE  p \in TargetsOf(KeyOf(p))
BY DEF TargetsOf, PlannedAt, MungedKey, Planned

(* Reach(r) is the least closed set of names that holds r. *)
LEMMA ReachProperties ==
    ASSUME TypeOK, NEW r \in Name
    PROVE  /\ r \in Reach(r)
           /\ Reach(r) \subseteq Name
           /\ Closed(Reach(r))
           /\ \A S \in SUBSET Name : r \in S /\ Closed(S) => Reach(r) \subseteq S
<1> DEFINE near == {r} \union UNION {Needs(p) : p \in plan.present}
<1>1. Reach(r) = {n \in near : \A S \in SUBSET near : r \in S /\ n \notin S => ~Closed(S)}
    BY DEF Reach
<1>2. near \subseteq Name
    <2>1. \A p \in plan.present : Needs(p) \subseteq Name
        BY NeedsType DEF TypeOK, IsPlan
    <2>2. QED
        BY <2>1
<1>3. \A n : \A p \in TargetsOf(n) : Needs(p) \subseteq near
    BY TargetsType
<1> HIDE DEF near
<1>4. r \in near
    BY DEF near
<1>5. ASSUME NEW S \in SUBSET Name, r \in S, Closed(S)
      PROVE  Reach(r) \subseteq S
    <2>1. Closed(S \intersect near)
        BY <1>3, <1>5 DEF Closed
    <2>2. r \in S \intersect near /\ S \intersect near \in SUBSET near
        BY <1>4, <1>5
    <2>3. QED
        BY <1>1, <2>1, <2>2
<1>6. Closed(Reach(r))
    <2>1. SUFFICES ASSUME NEW n \in Reach(r), NEW p \in TargetsOf(n), NEW m \in Needs(p)
                   PROVE  m \in Reach(r)
        BY DEF Closed
    <2>2. m \in near
        BY <1>3
    <2>3. ASSUME NEW S \in SUBSET near, r \in S, Closed(S)
          PROVE  m \in S
        <3>1. n \in S
            BY <1>1, <2>3
        <3>2. QED
            BY <2>3, <3>1 DEF Closed
    <2>4. QED
        BY <1>1, <2>2, <2>3
<1>7. QED
    BY <1>1, <1>2, <1>4, <1>5, <1>6

(* The plan does not change, nor does anything that is read off it alone. *)
LEMMA PlanFixed ==
    ASSUME plan' = plan
    PROVE  /\ Planned' = Planned
           /\ \A n : MungedKey(n)' = MungedKey(n)
           /\ \A n : TargetsOf(n)' = TargetsOf(n)
           /\ \A p : Needs(p)' = Needs(p)
           /\ \A r : Reach(r)' = Reach(r)
           /\ DependencyNames' = DependencyNames
           /\ \A p : Expected(p)' = Expected(p)
<1>0. /\ \A p, d : DepName(p, d)' = DepName(p, d)
      /\ \A p : KeyOf(p)' = KeyOf(p)
    BY DEF DepName, KeyOf
<1>1. Planned' = Planned
    BY <1>0 DEF Planned
<1>2. \A n : MungedKey(n)' = MungedKey(n)
    BY <1>1 DEF MungedKey
<1>3. \A n : TargetsOf(n)' = TargetsOf(n)
    BY <1>0, <1>2 DEF TargetsOf, PlannedAt
<1>4. \A p : Needs(p)' = Needs(p)
    BY <1>0 DEF Needs
<1>5. \A S : Closed(S)' = Closed(S)
    BY <1>3, <1>4 DEF Closed
<1>6. \A r : Reach(r)' = Reach(r)
    BY <1>4, <1>5 DEF Reach
<1>7. \A p : Expected(p)' = Expected(p)
    BY <1>3, <1>6 DEF Expected
<1>8. QED
    BY <1>0, <1>1, <1>2, <1>3, <1>4, <1>6, <1>7 DEF DependencyNames

-----------------------------------------------------------------------------
LEMMA InitSound == Init => SoundInv
<1> SUFFICES ASSUME Init
             PROVE  SoundInv
    OBVIOUS
<1>1. IsPlan(plan) /\ plan \in Plans
    BY PlansAssumption DEF Init
<1>2. name \in Name
    BY NamesAssumption DEF Init
<1>3. todo \in Seq(Name)
    BY DEF Init
<1>4. TypeOK
    BY <1>1, <1>2, <1>3 DEF Init, TypeOK, IsPlan
<1>5. QED
    BY <1>1, <1>4 DEF Init, SoundInv, ItemInv, OnlyNeededWalked, KeyErrorJustified

LEMMA StartRequestSound == SoundInv /\ StartRequest => SoundInv'
<1> SUFFICES ASSUME SoundInv, StartRequest
             PROVE  SoundInv'
    OBVIOUS
<1> USE DEF StartRequest
<1>1. TypeOK' /\ ItemInv'
    BY DEF SoundInv, TypeOK, IsPlan, ItemInv
<1>2. name' \in Reach(name')
    BY <1>1, ReachProperties, PlanFixed DEF SoundInv, TypeOK, IsPlan
<1>3. OnlyNeededWalked'
    BY <1>2, PlanFixed DEF OnlyNeededWalked, Range
<1>4. QED
    BY <1>1, <1>3 DEF SoundInv, KeyErrorJustified

LEMMA ExtractSound == SoundInv /\ Extract => SoundInv'
<1> SUFFICES ASSUME SoundInv, Extract
             PROVE  SoundInv'
    OBVIOUS
<1> USE DEF Extract
<1>1. TypeOK'
    BY TargetsType DEF SoundInv, TypeOK, IsPlan, ExtractPlannedItems
<1>2. ItemInv' /\ OnlyNeededWalked'
    BY PlanFixed DEF SoundInv, ItemInv, ExtractPlannedItems, OnlyNeededWalked
<1>3. QED
    BY <1>1, <1>2 DEF SoundInv, KeyErrorJustified

LEMMA ExtractMissingSound == SoundInv /\ ExtractMissing => SoundInv'
<1> SUFFICES ASSUME SoundInv, ExtractMissing
             PROVE  SoundInv'
    OBVIOUS
<1> USE DEF ExtractMissing
<1>1. TypeOK' /\ ItemInv' /\ OnlyNeededWalked'
    BY DEF SoundInv, TypeOK, IsPlan, ItemInv, OnlyNeededWalked
<1>2. item \in Reach(name)
    BY DEF SoundInv, OnlyNeededWalked
<1>3. KeyErrorJustified'
    BY <1>2, PlanFixed DEF KeyErrorJustified
<1>4. QED
    BY <1>1, <1>3 DEF SoundInv

(* Expand in terms of the package it expands and the names it pushes. *)
LEMMA ExpandEffect ==
    ASSUME SoundInv, Expand
    PROVE  /\ pc = "expand"
           /\ UNCHANGED <<plan, waiting, name, item, deps, dependents, categories, pc>>
           /\ \E p \in items :
                /\ p \in plan.present /\ p \in Pkg /\ p \in TargetsOf(item)
                /\ items' = items \ {p}
                /\ todo' \in Seq(Name)
                /\ Range(todo') = Range(todo) \union {DepName(p, d) : d \in Pushed(p)}
<1>1. PICK p \in items : \E q \in Iterations(Pushed(p)) :
        /\ items' = items \ {p}
        /\ todo' = todo \o [i \in DOMAIN q |-> DepName(p, q[i])]
    BY DEF Expand
<1>2. PICK q \in Iterations(Pushed(p)) :
        /\ items' = items \ {p}
        /\ todo' = todo \o [i \in DOMAIN q |-> DepName(p, q[i])]
    BY <1>1
<1> DEFINE new == [i \in DOMAIN q |-> DepName(p, q[i])]
<1>3. p \in plan.present /\ p \in Pkg /\ p \in TargetsOf(item)
    BY DEF Expand, SoundInv, TypeOK, IsPlan, ItemInv
<1>4. Pushed(p) \subseteq Name
    BY <1>3 DEF Pushed, SoundInv, TypeOK, IsPlan
<1>5. new \in Seq(Name)
    <2>1. Cardinality(Pushed(p)) \in Nat
        BY <1>4, NamesAssumption, FS_Subset, FS_CardinalityType
    <2>2. q \in [1 .. Cardinality(Pushed(p)) -> Name]
        BY <1>4 DEF Iterations
    <2>3. QED
        BY <1>3, <2>1, <2>2, DepNameType
<1>6. Range(new) = {DepName(p, d) : d \in Pushed(p)}
    BY DEF Iterations, Range
<1>7. todo' \in Seq(Name) /\ Range(todo') = Range(todo) \union Range(new)
    BY <1>2, <1>5, RangeConcat DEF SoundInv, TypeOK
<1>8. QED
    BY <1>2, <1>3, <1>6, <1>7 DEF Expand

LEMMA ExpandSound == SoundInv /\ Expand => SoundInv'
<1> SUFFICES ASSUME SoundInv, Expand
             PROVE  SoundInv'
    OBVIOUS
<1>1. /\ pc = "expand"
      /\ UNCHANGED <<plan, waiting, name, item, deps, dependents, categories, pc>>
    BY ExpandEffect
<1>2. PICK p \in items :
        /\ p \in plan.present /\ p \in Pkg /\ p \in TargetsOf(item)
        /\ items' = items \ {p}
        /\ todo' \in Seq(Name)
        /\ Range(todo') = Range(todo) \union {DepName(p, d) : d \in Pushed(p)}
    BY ExpandEffect
<1>3. TypeOK' /\ ItemInv'
    BY <1>1, <1>2, PlanFixed DEF SoundInv, TypeOK, IsPlan, ItemInv
<1>4. {DepName(p, d) : d \in Pushed(p)} \subseteq Needs(p)
    BY DEF Needs, Pushed
<1>5. Needs(p) \subseteq Reach(name)
    BY <1>1, <1>2, ReachProperties DEF Closed, SoundInv, TypeOK, OnlyNeededWalked
<1>6. OnlyNeededWalked'
    BY <1>1, <1>2, <1>4, <1>5, PlanFixed DEF SoundInv, OnlyNeededWalked
<1>7. QED
    BY <1>1, <1>3, <1>6 DEF SoundInv, KeyErrorJustified

LEMMA PopSound == SoundInv /\ Pop => SoundInv'
<1> SUFFICES ASSUME SoundInv, Pop
             PROVE  SoundInv'
    OBVIOUS
<1> USE DEF Pop
<1>1. todo' \in Seq(Name) /\ item' \in Name /\ Range(todo) = {item'} \union Range(todo')
    BY RangeHeadTail DEF SoundInv, TypeOK
<1>2. TypeOK' /\ ItemInv'
    BY <1>1 DEF SoundInv, TypeOK, IsPlan, ItemInv
<1>3. OnlyNeededWalked'
    BY <1>1, PlanFixed DEF SoundInv, OnlyNeededWalked
<1>4. QED
    BY <1>2, <1>3 DEF SoundInv, KeyErrorJustified

LEMMA FinishRequestSound == SoundInv /\ FinishRequest => SoundInv'
BY DEF FinishRequest, SoundInv, TypeOK, IsPlan, ItemInv, OnlyNeededWalked, KeyErrorJustified

LEMMA AssignSound == SoundInv /\ Assign => SoundInv'
<1> SUFFICES ASSUME SoundInv, Assign
             PROVE  SoundInv'
    OBVIOUS
<1> USE DEF Assign
<1>1. ASSUME NEW p \in Pkg
      PROVE  categories'[p] \subseteq Category
    <2>1. \A r \in DOMAIN plan.requested : plan.requested[r] \in Category
        BY DEF SoundInv, TypeOK, IsPlan
    <2>2. QED
        BY <2>1, NamesAssumption DEF SoundInv, TypeOK, TruncateMain
<1>2. categories' \in [Pkg -> SUBSET Category]
    BY <1>1
<1>3. QED
    BY <1>2 DEF SoundInv, TypeOK, IsPlan, ItemInv, OnlyNeededWalked, KeyErrorJustified

LEMMA StutterSound == SoundInv /\ UNCHANGED vars => SoundInv'
BY PlanFixed DEF vars, SoundInv, TypeOK, IsPlan, ItemInv, OnlyNeededWalked, KeyErrorJustified

THEOREM Soundness == Spec => []SoundInv
<1>1. SoundInv /\ [Next]_vars => SoundInv'
    BY StartRequestSound, ExtractSound, ExtractMissingSound, ExpandSound, PopSound,
        FinishRequestSound, AssignSound, StutterSound DEF Next, Terminated
<1>2. QED
    BY InitSound, <1>1, PTL DEF Spec

(* apply_categories keeps its data well formed, whatever it is called with. *)
THEOREM TypeCorrect == Spec => []TypeOK
<1>1. SoundInv => TypeOK
    BY DEF SoundInv
<1>2. QED
    BY Soundness, <1>1, PTL

(* The walk of a request never leaves what the request needs. *)
THEOREM WalkIsSound == Spec => []OnlyNeededWalked
<1>1. SoundInv => OnlyNeededWalked
    BY DEF SoundInv
<1>2. QED
    BY Soundness, <1>1, PTL

(* A KeyError means that something the request needs is not in the solution. *)
THEOREM KeyErrorIsJustified == Spec => []KeyErrorJustified
<1>1. SoundInv => KeyErrorJustified
    BY DEF SoundInv
<1>2. QED
    BY Soundness, <1>1, PTL

-----------------------------------------------------------------------------
LEMMA InitIInv == Init => IInv
BY InitSound DEF Init, IInv, ExpandedInv, DependencyInv, WalkedInv, CategoriesInv,
    CategoriesCorrect, Walking

LEMMA StartRequestIInv == IInv /\ StartRequest => IInv'
<1> SUFFICES ASSUME IInv, StartRequest
             PROVE  IInv'
    OBVIOUS
<1> USE DEF StartRequest
<1>1. SoundInv'
    BY StartRequestSound DEF IInv
<1>2. FirstVisit' /\ ExpandedInv' /\ DependencyInv'
    BY DEF FirstVisit, ExpandedInv, DependencyInv, Range
<1>3. name' \in DOMAIN plan.requested \ waiting'
    BY DEF IInv, SoundInv, TypeOK
<1>4. ASSUME NEW r \in DOMAIN plan.requested \ waiting', r # name'
      PROVE  dependents[r] \union {r} = Reach(r)
    BY <1>4 DEF IInv, WalkedInv, Walking
<1>5. WalkedInv'
    BY <1>3, <1>4, PlanFixed DEF WalkedInv, Walking
<1>6. QED
    BY <1>1, <1>2, <1>5 DEF IInv, CategoriesInv, CategoriesCorrect

LEMMA ExtractIInv == IInv /\ Extract => IInv'
<1> SUFFICES ASSUME IInv, Extract
             PROVE  IInv'
    OBVIOUS
<1> USE DEF Extract
<1>1. SoundInv'
    BY ExtractSound DEF IInv
<1>2. Found' = Found
    BY DEF Found
<1>3. ExpandedInv'
    <2>1. SUFFICES ASSUME NEW n \in deps' \union {name}, NEW p \in TargetsOf(n), p \notin items'
                   PROVE  Needs(p) \subseteq Found
        BY <1>2, PlanFixed DEF ExpandedInv
    <2>2. items = {} /\ Walking
        BY DEF IInv, SoundInv, ItemInv, Walking
    <2>3. CASE n = item
        <3>1. plan.convert /\ KeyOf(p) \in deps
            BY <2>1, <2>3 DEF ExtractPlannedItems
        <3>2. QED
            BY <2>2, <3>1, TargetOfOwnKey DEF IInv, ExpandedInv, FirstVisit
    <2>4. CASE n # item
        BY <2>1, <2>2, <2>4 DEF IInv, ExpandedInv, FirstVisit
    <2>5. QED
        BY <2>3, <2>4
<1>4. DependencyInv' /\ WalkedInv'
    BY PlanFixed DEF IInv, DependencyInv, WalkedInv, Walking
<1>5. QED
    BY <1>1, <1>3, <1>4 DEF IInv, CategoriesInv, CategoriesCorrect

LEMMA ExtractMissingIInv == IInv /\ ExtractMissing => IInv'
BY ExtractMissingSound DEF ExtractMissing, IInv, ExpandedInv, DependencyInv, WalkedInv,
    CategoriesInv, CategoriesCorrect, Walking

(* What Expand pushes for a package: its needs, but for those in deps. *)
LEMMA PushedNeeds ==
    ASSUME NoNameSwap, IInv, Walking, NEW p \in plan.present
    PROVE  Needs(p) \subseteq deps \union {DepName(p, d) : d \in Pushed(p)}
<1>1. SUFFICES ASSUME NEW d \in plan.deps[p] \ Virtual, d \in deps
               PROVE  DepName(p, d) \in deps
    BY DEF Needs, Pushed
<1>2. CASE plan.convert /\ Manager[p] = "conda"
    <2>1. PICK q \in plan.present : \E e \in plan.deps[q] : d = DepName(q, e)
        BY <1>1 DEF IInv, DependencyInv, DependencyNames
    <2>2. PipName[d] = d
        BY <1>1, <1>2, <2>1 DEF NoNameSwap, IInv, SoundInv, DepName
    <2>3. QED
        BY <1>1, <1>2, <2>2 DEF DepName, NameFor
<1>3. CASE ~(plan.convert /\ Manager[p] = "conda")
    BY <1>1, <1>3 DEF DepName, NameFor
<1>4. QED
    BY <1>2, <1>3

LEMMA ExpandIInv == NoNameSwap /\ IInv /\ Expand => IInv'
<1> SUFFICES ASSUME NoNameSwap, IInv, Expand
             PROVE  IInv'
    OBVIOUS
<1>1. SoundInv /\ SoundInv'
    BY ExpandSound DEF IInv
<1>2. /\ pc = "expand"
      /\ UNCHANGED <<plan, waiting, name, item, deps, dependents, categories, pc>>
    BY <1>1, ExpandEffect
<1>3. PICK p \in items :
        /\ p \in plan.present /\ p \in Pkg /\ p \in TargetsOf(item)
        /\ items' = items \ {p}
        /\ todo' \in Seq(Name)
        /\ Range(todo') = Range(todo) \union {DepName(p, d) : d \in Pushed(p)}
    BY <1>1, ExpandEffect
<1>4. Walking
    BY <1>2 DEF Walking
<1>5. ExpandedInv'
    <2>1. Found \subseteq Found' /\ Needs(p) \subseteq Found'
        BY <1>2, <1>3, <1>4, PushedNeeds DEF Found
    <2>2. ~FirstVisit
        BY <1>2 DEF FirstVisit
    <2>3. QED
        BY <1>2, <1>3, <1>4, <2>1, <2>2, PlanFixed DEF IInv, ExpandedInv
<1>6. DependencyInv'
    <2>1. {DepName(p, d) : d \in Pushed(p)} \subseteq DependencyNames
        <3>1. SUFFICES ASSUME NEW d \in Pushed(p)
                       PROVE  DepName(p, d) \in DependencyNames
            OBVIOUS
        <3>2. <<p, d>> \in {f \in plan.present \X Name : f[2] \in plan.deps[f[1]]}
            BY <1>1, <1>3 DEF Pushed, SoundInv, TypeOK, IsPlan
        <3>3. QED
            BY <3>2 DEF DependencyNames
    <2>2. QED
        BY <1>2, <1>3, <1>4, <2>1, PlanFixed DEF IInv, DependencyInv
<1>7. WalkedInv' /\ CategoriesInv'
    BY <1>2, PlanFixed DEF IInv, WalkedInv, Walking, CategoriesInv, CategoriesCorrect
<1>8. QED
    BY <1>1, <1>5, <1>6, <1>7 DEF IInv

LEMMA PopIInv == IInv /\ Pop => IInv'
<1> SUFFICES ASSUME IInv, Pop
             PROVE  IInv'
    OBVIOUS
<1> USE DEF Pop
<1>1. SoundInv'
    BY PopSound DEF IInv
<1>2. todo \in Seq(Name) /\ Walking /\ item \in deps \union {name}
    BY DEF IInv, SoundInv, TypeOK, Walking, ItemInv
<1>3. Range(todo) = {item'} \union Range(todo')
    BY <1>2, RangeHeadTail
<1>4. Found' = Found
    BY <1>2, <1>3 DEF Found
<1>5. ExpandedInv'
    BY <1>2, <1>4, PlanFixed DEF IInv, ExpandedInv, FirstVisit
<1>6. DependencyInv' /\ WalkedInv' /\ CategoriesInv'
    BY <1>2, <1>3, PlanFixed DEF IInv, DependencyInv, WalkedInv, Walking, CategoriesInv,
        CategoriesCorrect
<1>7. QED
    BY <1>1, <1>5, <1>6 DEF IInv

LEMMA FinishRequestIInv == IInv /\ FinishRequest => IInv'
<1> SUFFICES ASSUME IInv, FinishRequest
             PROVE  IInv'
    OBVIOUS
<1> USE DEF FinishRequest
<1>1. SoundInv'
    BY FinishRequestSound DEF IInv
<1>2. Walking /\ ~FirstVisit /\ name \in Name /\ deps \union {name} \subseteq Name
    BY DEF Walking, FirstVisit, IInv, SoundInv, TypeOK
<1>3. Found = deps \union {name}
    BY DEF Found, IInv, SoundInv, ItemInv, Range
<1>4. Closed(deps \union {name})
    BY <1>2, <1>3 DEF IInv, ExpandedInv, Closed
<1>5. deps \union {name} = Reach(name)
    <2>1. Reach(name) \subseteq deps \union {name}
        BY <1>2, <1>4, ReachProperties DEF IInv, SoundInv
    <2>2. deps \union {name} \subseteq Reach(name)
        BY <1>2, ReachProperties DEF IInv, SoundInv, OnlyNeededWalked
    <2>3. QED
        BY <2>1, <2>2
<1>6. ASSUME NEW r \in DOMAIN plan.requested \ waiting
      PROVE  dependents'[r] \union {r} = Reach(r)
    <2>1. CASE r = name
        BY <1>5, <2>1 DEF IInv, SoundInv, TypeOK
    <2>2. CASE r # name
        BY <2>2 DEF IInv, SoundInv, WalkedInv, TypeOK
    <2>3. QED
        BY <2>1, <2>2
<1>7. WalkedInv'
    BY <1>6, PlanFixed DEF WalkedInv, Walking
<1>8. ExpandedInv' /\ DependencyInv' /\ CategoriesInv'
    BY DEF IInv, ExpandedInv, DependencyInv, Walking, CategoriesInv, CategoriesCorrect
<1>9. QED
    BY <1>1, <1>7, <1>8 DEF IInv

LEMMA AssignIInv == IInv /\ Assign => IInv'
<1> SUFFICES ASSUME IInv, Assign
             PROVE  IInv'
    OBVIOUS
<1> USE DEF Assign
<1>1. SoundInv'
    BY AssignSound DEF IInv
<1>2. \A r \in DOMAIN plan.requested : dependents[r] \union {r} = Reach(r) /\ r \in Name
    BY DEF IInv, SoundInv, TypeOK, IsPlan, WalkedInv, Walking
<1>3. \A r \in DOMAIN plan.requested, n \in Name : r \in RootRequests(n) <=> n \in Reach(r)
    BY <1>2 DEF RootRequests
<1>4. ASSUME NEW p \in plan.present
      PROVE  categories'[p] = Expected(p)
    <2>1. {s \in DOMAIN plan.requested :
                \E n \in Name : s \in RootRequests(n) /\ p \in TargetsOf(n)}
          = {s \in DOMAIN plan.requested : \E n \in Reach(s) : p \in TargetsOf(n)}
        BY <1>2, <1>3, ReachProperties DEF IInv, SoundInv
    <2>2. p \in Pkg /\ categories = plan.categories
        BY DEF IInv, SoundInv, TypeOK, IsPlan, CategoriesInv
    <2>3. QED
        BY <2>1, <2>2 DEF Expected
<1>5. CategoriesInv'
    BY <1>4, PlanFixed DEF CategoriesInv, CategoriesCorrect
<1>6. ExpandedInv' /\ DependencyInv' /\ WalkedInv'
    BY <1>2, PlanFixed DEF ExpandedInv, DependencyInv, WalkedInv, Walking
<1>7. QED
    BY <1>1, <1>5, <1>6 DEF IInv

LEMMA StutterIInv == IInv /\ UNCHANGED vars => IInv'
<1> SUFFICES ASSUME IInv, UNCHANGED vars
             PROVE  IInv'
    OBVIOUS
<1>1. SoundInv'
    BY StutterSound DEF IInv
<1>2. ExpandedInv' /\ DependencyInv' /\ WalkedInv' /\ CategoriesInv'
    BY PlanFixed DEF vars, IInv, ExpandedInv, FirstVisit, DependencyInv, WalkedInv, Walking,
        Found, CategoriesInv, CategoriesCorrect
<1>3. QED
    BY <1>1, <1>2 DEF IInv

(* The inductive invariant holds of every call. *)
THEOREM Invariance ==
    ASSUME NoNameSwap
    PROVE  Spec => []IInv
<1>1. IInv /\ [Next]_vars => IInv'
    BY StartRequestIInv, ExtractIInv, ExtractMissingIInv, ExpandIInv, PopIInv,
        FinishRequestIInv, AssignIInv, StutterIInv DEF Next, Terminated
<1>2. QED
    BY InitIInv, <1>1, PTL DEF Spec

(* When apply_categories returns, each package carries exactly the categories *)
(* of the requests that need it, however large the graph, whatever its cycles *)
(* and in whatever order dicts and lists are iterated over.                   *)
THEOREM CategoriesAreCorrect ==
    ASSUME NoNameSwap
    PROVE  Spec => []CategoriesCorrect
<1>1. IInv => CategoriesCorrect
    BY DEF IInv, CategoriesInv
<1>2. QED
    BY Invariance, <1>1, PTL
=============================================================================
