-------------------------- MODULE ApplyCategories --------------------------
(***************************************************************************)
(* apply_categories (conda_lock/lockfile/__init__.py): after a solve, every *)
(* planned package receives the categories of the requested packages that   *)
(* need it.  For each requested name a work list is walked; afterwards the  *)
(* categories are handed out and "main" swallows the others.                *)
(*                                                                          *)
(* solve_conda calls it with conda names and one package per name; then     *)
(* solve_pypi calls it with convert_to_pip_names: with pip names and a list *)
(* of packages per name, conda names being translated.                      *)
(*                                                                          *)
(* Names are model values; dependencies of a package are the keys of a      *)
(* dict, so their order is left open.                                       *)
(***************************************************************************)
EXTENDS Sequences, Functions, FiniteSets

CONSTANTS
    Name,         \* package names, conda's and PyPI's together
    Virtual,      \* the names that start with "__"
    Pkg,          \* candidate LockedDependency objects
    Category,
    Main,         \* the category "main"
    Own,          \* [Pkg -> Name] the name field of a package
    Manager,      \* [Pkg -> {"conda", "pip"}]
    PipName,      \* [Name -> Name] conda_name_to_pypi_name
    Underscored,  \* [Name -> Name] key.replace("-", "_")
    Dashed,       \* [Name -> Name] key.replace("_", "-")
    Plans         \* the arguments the function may be called with

ASSUME NamesAssumption ==
    /\ Name # {} /\ IsFiniteSet(Name)
    /\ Virtual \subseteq Name
    /\ Own \in [Pkg -> Name]
    /\ Manager \in [Pkg -> {"conda", "pip"}]
    /\ PipName \in [Name -> Name]
    /\ Underscored \in [Name -> Name]
    /\ Dashed \in [Name -> Name]
    /\ Main \in Category

(* The arguments of one call, as a record. *)
IsPlan(x) ==
    /\ x.convert \in BOOLEAN                      \* convert_to_pip_names
    /\ x.present \subseteq Pkg                    \* packages of the solution
    /\ x.deps \in [Pkg -> SUBSET Name]            \* LockedDependency.dependencies
    /\ DOMAIN x.requested \subseteq Name \ Virtual
    /\ x.requested \in [DOMAIN x.requested -> Category]
    /\ x.categories \in [Pkg -> SUBSET Category]  \* set before the call

ASSUME PlansAssumption == \A x \in Plans : IsPlan(x)

VARIABLES
    plan,        \* the arguments of this call
    waiting,     \* requested names not walked yet
    name,        \* the requested name being walked
    item,        \* the name popped last
    items,       \* planned_items still to be expanded
    deps,        \* transitive dependencies of `name` found so far
    todo,        \* the work list
    dependents,  \* [requested name -> its transitive dependencies]
    categories,  \* [Pkg -> SUBSET Category]
    pc           \* "next", "extract", "expand", "done" or "KeyError"

vars == <<plan, waiting, name, item, items, deps, todo, dependents, categories, pc>>

-----------------------------------------------------------------------------
(* dep_name: the name a dependency goes by in `requested` and `planned`. *)
NameFor(convert, p, dep) ==
    IF convert /\ Manager[p] = "conda" THEN PipName[dep] ELSE dep

DepName(p, dep) == NameFor(plan.convert, p, dep)

(* The key of `planned` under which the callers file a package. *)
KeyOf(p) == DepName(p, Own[p])

(* planned[key], and the keys of `planned`. *)
PlannedAt(key) == {p \in plan.present : KeyOf(p) = key}
Planned        == {KeyOf(p) : p \in plan.present}

(* _seperator_munge_get: the key under which a name is found, if at all. *)
MungedKey(n) ==
    IF n \in Planned THEN n
    ELSE IF Underscored[n] \in Planned THEN Underscored[n]
    ELSE Dashed[n]

TargetsOf(n) == PlannedAt(MungedKey(n))

(* Mutant of ExtractPlannedItems: nothing is filtered. *)
ExtractAgain(n) == TargetsOf(n)

(* extract_planned_items: only a list is filtered by what was seen before. *)
ExtractPlannedItems(n) ==
    {p \in TargetsOf(n) : plan.convert => KeyOf(p) \notin deps}

(* Mutant of Pushed: virtual packages are not excluded. *)
PushedVirtual(p) == plan.deps[p] \ deps

(* The dependencies of a package that are pushed: the filter looks at the raw *)
(* name, the name that is pushed is the converted one.                        *)
Pushed(p) == {d \in plan.deps[p] : d \notin deps /\ d \notin Virtual}

(* The ways to iterate over a set, as over the keys of a dict. *)
Iterations(S) == {q \in [1 .. Cardinality(S) -> S] : Range(q) = S}

(* _truncate_main_category *)
TruncateMain(cats) == IF Main \in cats THEN {Main} ELSE cats

-----------------------------------------------------------------------------
Init ==
    /\ plan \in Plans
    /\ waiting = DOMAIN plan.requested
    /\ name = CHOOSE n \in Name : TRUE
    /\ item = name
    /\ items = {}
    /\ deps = {}
    /\ todo = <<>>
    /\ dependents = [n \in DOMAIN plan.requested |-> {}]
    /\ categories = plan.categories
    /\ pc = "next"

(* Mutant of StartRequest: `deps` is shared by all requests. *)
StartRequestSharingDeps ==
    /\ pc = "next"
    /\ \E n \in waiting :
        /\ name' = n
        /\ item' = n
        /\ waiting' = waiting \ {n}
    /\ todo' = <<>>
    /\ pc' = "extract"
    /\ UNCHANGED <<plan, items, deps, dependents, categories>>

(* for name, request in requested.items() *)
StartRequest ==
    /\ pc = "next"
    /\ \E n \in waiting :
        /\ name' = n
        /\ item' = n
        /\ waiting' = waiting \ {n}
    /\ deps' = {}
    /\ todo' = <<>>
    /\ pc' = "extract"
    /\ UNCHANGED <<plan, items, dependents, categories>>

(* Mutants of Extract: the root joins deps like any other item; the item *)
(* joins deps first (the comment at line 118).                           *)
ExtractRootToo ==
    /\ pc = "extract"
    /\ MungedKey(item) \in Planned
    /\ items' = ExtractPlannedItems(item)
    /\ deps' = deps \union {item}
    /\ pc' = "expand"
    /\ UNCHANGED <<plan, waiting, name, item, todo, dependents, categories>>

ExtractAfterAdding ==
    /\ pc = "extract"
    /\ MungedKey(item) \in Planned
    /\ deps' = IF item # name THEN deps \union {item} ELSE deps
    /\ items' = {p \in TargetsOf(item) : plan.convert => KeyOf(p) \notin deps'}
    /\ pc' = "expand"
    /\ UNCHANGED <<plan, waiting, name, item, todo, dependents, categories>>

(* Look the item up; only then does it join deps, unless it is the root. *)
Extract ==
    /\ pc = "extract"
    /\ MungedKey(item) \in Planned
    /\ items' = ExtractPlannedItems(item)
    /\ deps' = IF item # name THEN deps \union {item} ELSE deps
    /\ pc' = "expand"
    /\ UNCHANGED <<plan, waiting, name, item, todo, dependents, categories>>

(* planned[key] raises: the exception leaves the function. *)
ExtractMissing ==
    /\ pc = "extract"
    /\ MungedKey(item) \notin Planned
    /\ pc' = "KeyError"
    /\ UNCHANGED <<plan, waiting, name, item, items, deps, todo, dependents, categories>>

(* for planned_item in planned_items: todo.extend(...) *)
Expand ==
    /\ pc = "expand"
    /\ \E p \in items : \E q \in Iterations(Pushed(p)) :
        /\ items' = items \ {p}
        /\ todo' = todo \o [i \in DOMAIN q |-> DepName(p, q[i])]
    /\ UNCHANGED <<plan, waiting, name, item, deps, dependents, categories, pc>>

(* item = todo.pop(0) *)
Pop ==
    /\ pc = "expand" /\ items = {} /\ todo # <<>>
    /\ item' = Head(todo)
    /\ todo' = Tail(todo)
    /\ pc' = "extract"
    /\ UNCHANGED <<plan, waiting, name, items, deps, dependents, categories>>

(* The work list is empty: dependents[name] = deps *)
FinishRequest ==
    /\ pc = "expand" /\ items = {} /\ todo = <<>>
    /\ dependents' = [dependents EXCEPT ![name] = deps]
    /\ pc' = "next"
    /\ UNCHANGED <<plan, waiting, name, item, items, deps, todo, categories>>

(* root_requests: the requested names that lead to n, those equal to n included *)
RootRequests(n) ==
    {r \in DOMAIN plan.requested : n = r \/ n \in dependents[r]}

(* Hand out the categories of the roots, then truncate. *)
Assign ==
    /\ pc = "next" /\ waiting = {}
    /\ categories' =
        [p \in Pkg |->
            IF p \in plan.present
            THEN TruncateMain(categories[p] \union
                    {plan.requested[r] : r \in
                        {s \in DOMAIN plan.requested :
                            \E n \in Name : s \in RootRequests(n) /\ p \in TargetsOf(n)}})
            ELSE categories[p]]
    /\ pc' = "done"
    /\ UNCHANGED <<plan, waiting, name, item, items, deps, todo, dependents>>

(* The function has returned or raised. *)
Terminated == pc \in {"done", "KeyError"} /\ UNCHANGED vars

Next ==
    \/ StartRequest \/ Extract \/ ExtractMissing \/ Expand
    \/ Pop \/ FinishRequest \/ Assign \/ Terminated

Spec == Init /\ [][Next]_vars

(* A call that has begun keeps running: it is sequential Python code. *)
FairSpec == Spec /\ WF_vars(Next)

-----------------------------------------------------------------------------
(* A conda name that is also the `planned` name of some dependency means the  *)
(* same there.  The filter of Pushed, which compares raw names with converted *)
(* ones, loses dependencies without it.                                       *)
NoNameSwap ==
    \A x \in Plans : x.convert => \A p, q \in x.present :
        Manager[p] = "conda" =>
            \A d \in x.deps[p], e \in x.deps[q] :
                d = NameFor(TRUE, q, e) => PipName[d] = d

TypeOK ==
    /\ IsPlan(plan)
    /\ waiting \subseteq DOMAIN plan.requested
    /\ name \in Name
    /\ item \in Name
    /\ items \subseteq plan.present
    /\ deps \subseteq Name \ {name}
    /\ todo \in Seq(Name)
    /\ dependents \in [DOMAIN plan.requested -> SUBSET Name]
    /\ categories \in [Pkg -> SUBSET Category]
    /\ pc \in {"next", "extract", "expand", "done", "KeyError"}

(* The names a package needs, as `planned` spells them. *)
Needs(p) == {DepName(p, d) : d \in plan.deps[p] \ Virtual}

(* A set of names closed under "needs". *)
Closed(S) == \A n \in S : \A p \in TargetsOf(n) : Needs(p) \subseteq S

(* The transitive dependencies of r and r itself: what the closed sets with r, *)
(* of r and names that some package needs, have in common.                     *)
Reach(r) ==
    LET near == {r} \union UNION {Needs(p) : p \in plan.present}
    IN  {n \in near : \A S \in SUBSET near : r \in S /\ n \notin S => ~Closed(S)}

(* What a package's categories should be once apply_categories has returned. *)
Expected(p) ==
    TruncateMain(plan.categories[p] \union
        {plan.requested[r] : r \in {s \in DOMAIN plan.requested :
            \E n \in Reach(s) : p \in TargetsOf(n)}})

(* When the function returns, every planned package carries exactly the       *)
(* categories of the requests that reach it through dependencies, "main"      *)
(* standing alone (comments at lines 80, 141, 163).                           *)
CategoriesCorrect ==
    pc = "done" => \A p \in plan.present : categories[p] = Expected(p)

(* A KeyError escapes only if a name that the current request really needs is *)
(* in no spelling a key of `planned`.                                         *)
KeyErrorJustified ==
    pc = "KeyError" => \E n \in Reach(name) : MungedKey(n) \notin Planned

(* No name is walked, and so given a category, that the request does not need. *)
OnlyNeededWalked ==
    pc \in {"extract", "expand"} =>
        deps \union {item} \union Range(todo) \subseteq Reach(name)

(* apply_categories comes to an end (there is no bound on its `while True`). *)
Termination == <>(pc \in {"done", "KeyError"})
=============================================================================
