----------------------------- MODULE CondaSolve -----------------------------
(***************************************************************************)
(* solve_conda (conda_lock/conda_solver.py) for one platform: conda is asked *)
(* for a solution, or for an update of a fake environment made of what is    *)
(* locked; the packages of which it gives no record are looked for in the    *)
(* package caches, which other processes are filling; and the packages of    *)
(* the plan get the categories of the requests that lead to them.            *)
(*                                                                         *)
(* Conda is external: its answer is any solution that holds what it is asked *)
(* for and all that it requires.                                             *)
(***************************************************************************)
EXTENDS Integers, FiniteSets, Sequences

CONSTANTS
    Name,      \* of packages
    Version,
    Requires,  \* [Name \X Version -> SUBSET Name]: what a distribution depends on
    Jobs,      \* the calls: [requested, locked, update, mamba]
    Dirs,      \* the number of package caches
    Tries,     \* NUM_RETRIES
    None

Dir    == 1 .. Dirs
Record == {"absent", "half", "whole"}

(* Packages of which one version each is chosen. *)
Choices == UNION {[S -> Version] : S \in SUBSET Name}

ASSUME SolveAssumption ==
    /\ Version \subseteq Nat
    /\ Requires \in [Name \X Version -> SUBSET Name]
    /\ \A j \in Jobs :
        /\ j.requested \subseteq Name /\ j.update \subseteq Name
        /\ j.locked \in Choices
        /\ j.mamba \in BOOLEAN
    /\ Dirs \in Nat \ {0} /\ Tries \in Nat \ {0}
    /\ None \notin [name : Name, try : Nat, dir : Nat]

NoPackages == [n \in {} |-> 0]
With(f, g) == [n \in DOMAIN f \union DOMAIN g |-> IF n \in DOMAIN g THEN g[n] ELSE f[n]]
RequiredBy(f) == UNION {Requires[<<n, f[n]>>] : n \in DOMAIN f}

VARIABLES
    job,       \* the arguments of the call: requested names, what is locked, update
    stage,     \* what is done next, or how it ended
    solution,  \* what conda has decided on
    link,      \* actions["LINK"]: name -> version
    fetch,     \* actions["FETCH"]: name -> version
    keys,      \* LINK and FETCH, as far as the answer has them
    missing,   \* link_only_names of which the record is still to be looked for
    look,      \* [name, try, dir]: where the record is being looked for
    cache,     \* [Dir -> "absent", "half" or "whole"]: the record that is looked for
    early,     \* the directories that held the record when the last try began
    planned,   \* name -> version
    marked     \* the packages that have a category

vars == <<job, stage, solution, link, fetch, keys, missing, look, cache, early,
          planned, marked>>

answer  == <<solution, link, fetch, keys>>
search  == <<missing, look, early>>
outcome == <<planned, marked>>

Failed == {"CalledProcessError", "RuntimeError", "JSONDecodeError", "KeyError",
           "ValueError", "FileNotFoundError"}
Over   == Failed \union {"returned"}

ToUpdate == job.update \intersect DOMAIN job.locked

(* A solution for the wanted packages, of what is installed and required. *)
Solves(sol, wanted, installed) ==
    /\ wanted \union RequiredBy(sol) \subseteq DOMAIN sol
    /\ DOMAIN sol \subseteq wanted \union installed \union RequiredBy(sol)

Init ==
    /\ job \in Jobs
    /\ stage = IF ToUpdate # {} THEN "list" ELSE "create"
    /\ solution = NoPackages /\ link = NoPackages /\ fetch = NoPackages
    /\ keys = {} /\ missing = {} /\ look = None /\ early = {}
    /\ cache = [d \in Dir |-> "absent"]
    /\ planned = NoPackages /\ marked = {}

-----------------------------------------------------------------------------
(* The ways out by an exception. *)

Fail(how) == stage' = how /\ UNCHANGED <<job, answer, search, cache, outcome>>

(* update_specs_for_arch makes a RuntimeError of a failure of conda, and      *)
(* solve_specs_for_arch one of all that is not JSON, the caches' included.    *)
NotZero == IF stage = "update" THEN "RuntimeError" ELSE "CalledProcessError"
NotJSON == IF ToUpdate = {} THEN "RuntimeError" ELSE "JSONDecodeError"

(* A conda process that does not return 0 or does not write JSON, at any of  *)
(* the calls.  The caches are asked for only if a record is missing.         *)
CondaFails ==
    /\ stage \in {"create", "list", "list again", "update", "pkgs_dirs"}
    /\ stage = "pkgs_dirs" => missing # {}
    /\ \E how \in {NotZero, NotJSON} : Fail(how)

(* JSON that does not say where the caches are, or a package that is linked   *)
(* without saying under which name it would be found there.                  *)
Unrecognised ==
    /\ stage \in {"pkgs_dirs", "next"} /\ missing # {}
    /\ Fail("ValueError")

-----------------------------------------------------------------------------
(* Asking conda. *)

(* Mutant of Fetches: the records that conda gave are looked for as well. *)
FetchesAll(l, S) ==
    /\ fetch'   = [n \in S |-> l[n]]
    /\ missing' = DOMAIN l

(* What conda gives records of; those of the others are in a cache, or soon. *)
Fetches(l, S) ==
    /\ fetch'   = [n \in S |-> l[n]]
    /\ missing' = DOMAIN l \ S

(* solve_specs_for_arch: a list that is missing from the answer is empty to   *)
(* _reconstruct_fetch_actions.                                               *)
Create ==
    /\ stage = "create"
    /\ \E sol \in Choices :
           /\ Solves(sol, job.requested, {})
           /\ solution' = sol /\ link' = sol
           /\ \E S \in SUBSET DOMAIN sol : Fetches(sol, S)
    /\ keys' = {"LINK", "FETCH"}
    /\ stage' = "pkgs_dirs"
    /\ UNCHANGED <<job, look, cache, early, outcome>>

(* Here "actions", which conda may leave out too, is indexed. *)
NothingToCreate ==
    /\ stage = "create" /\ Solves(NoPackages, job.requested, {})
    /\ Fail("KeyError")

(* _get_installed_conda_packages: conda is asked again without --no-pip if   *)
(* it does not know it.                                                      *)
ListAgain ==
    /\ stage = "list"
    /\ stage' = "list again"
    /\ UNCHANGED <<job, answer, search, cache, outcome>>

(* What is listed is what is locked.  spec_for_name has the requested names. *)
List ==
    /\ stage \in {"list", "list again"}
    /\ IF ToUpdate \subseteq job.requested
       THEN /\ stage' = "update"
            /\ UNCHANGED <<job, answer, search, cache, outcome>>
       ELSE Fail("KeyError")

(* Mamba updates all that is not pinned. *)
Pinned == IF job.mamba THEN DOMAIN job.locked \ job.update ELSE {}

Changed(sol) ==
    [n \in {m \in DOMAIN sol : m \in DOMAIN job.locked => sol[m] # job.locked[m]} |-> sol[n]]

(* Only the packages to update are asked for: conda may remove any other, and *)
(* what is requested and not yet locked is not added.                        *)
(* A key of which the list is empty may be left out of the answer, and with  *)
(* nothing to do "actions" may be, which stands for two empty lists.         *)
Update ==
    /\ stage = "update"
    /\ \E sol \in Choices :
           /\ Solves(sol, ToUpdate, DOMAIN job.locked)
           /\ \A n \in Pinned \intersect DOMAIN sol : sol[n] = job.locked[n]
           /\ solution' = sol
           /\ link' = Changed(sol)
           /\ \E S \in SUBSET DOMAIN Changed(sol) :
                  /\ Fetches(Changed(sol), S)
                  /\ \E K \in SUBSET {"LINK", "FETCH"} :
                         /\ Changed(sol) # NoPackages => "LINK" \in K
                         /\ S # {} => "FETCH" \in K
                         /\ sol = job.locked => K = {"LINK", "FETCH"}
                         /\ keys' = K
    /\ stage' = "merge"
    /\ UNCHANGED <<job, look, cache, early, outcome>>

(* The installed packages that the answer does not link: those that stay as  *)
(* they are, and also those that conda would remove.                         *)
Unchanged == DOMAIN job.locked \ DOMAIN link

(* The end of update_specs_for_arch: the keys are used as if they were there.*)
Merge ==
    /\ stage = "merge"
    /\ IF "LINK" \notin keys \/ (Unchanged # {} /\ "FETCH" \notin keys)
       THEN Fail("KeyError")
       ELSE LET kept == [n \in Unchanged |-> job.locked[n]]
            IN  /\ link'  = With(link, kept)
                /\ fetch' = With(fetch, kept)
                /\ stage' = "pkgs_dirs"
                /\ UNCHANGED <<job, solution, keys, search, cache, outcome>>

-----------------------------------------------------------------------------
(* _reconstruct_fetch_actions and _get_repodata_record.                      *)

Holding(c) == {d \in Dir : c[d] # "absent"}

PkgsDirs ==
    /\ stage = "pkgs_dirs"
    /\ stage' = "next"
    /\ UNCHANGED <<job, answer, search, cache, outcome>>

(* What the caches hold of a record is nobody's business before it is looked *)
(* for: anything, by then.                                                   *)
NextRecord ==
    /\ stage = "next"
    /\ IF missing = {}
       THEN stage' = "plan" /\ UNCHANGED <<missing, look, cache, early>>
       ELSE /\ \E n \in missing :
                   /\ look' = [name |-> n, try |-> 1, dir |-> 1]
                   /\ missing' = missing \ {n}
            /\ cache' \in [Dir -> Record]
            /\ early' = Holding(cache')
            /\ stage' = "look"
    /\ UNCHANGED <<job, answer, outcome>>

Here == cache[look.dir]

(* record.exists() *)
Found ==
    /\ stage = "look" /\ Here # "absent"
    /\ stage' = "read"
    /\ UNCHANGED <<job, answer, search, cache, outcome>>

(* Mutant of LastDir: only the first cache is looked into. *)
LastDirFirst == 1

LastDir == Dirs

NextDir ==
    /\ stage = "look" /\ Here = "absent" /\ look.dir < LastDir
    /\ look' = [look EXCEPT !.dir = @ + 1]
    /\ UNCHANGED <<job, answer, stage, missing, early, cache, outcome>>

(* Mutant of Sleep: the tries are not counted. *)
SleepUncounted ==
    /\ stage = "look" /\ Here = "absent" /\ look.dir = LastDir /\ look.try < Tries
    /\ look'  = [look EXCEPT !.dir = 1]
    /\ early' = Holding(cache)
    /\ UNCHANGED <<job, answer, stage, missing, cache, outcome>>

(* time.sleep(0.1), between two tries. *)
Sleep ==
    /\ stage = "look" /\ Here = "absent" /\ look.dir = LastDir /\ look.try < Tries
    /\ look'  = [look EXCEPT !.try = @ + 1, !.dir = 1]
    /\ early' = Holding(cache)
    /\ UNCHANGED <<job, answer, stage, missing, cache, outcome>>

(* After the last try it sleeps once more, but does not look again. *)
GiveUp ==
    /\ stage = "look" /\ Here = "absent" /\ look.dir = LastDir /\ look.try = Tries
    /\ Fail("FileNotFoundError")

(* Mutant of Read: the record is left for later. *)
ReadNothing ==
    /\ stage = "read"
    /\ IF Here = "half"
       THEN Fail(NotJSON)
       ELSE /\ stage' = "next"
            /\ UNCHANGED <<job, answer, search, cache, outcome>>

(* json.load(f): it fails, and no other try is made, if the record is still  *)
(* being written.                                                            *)
Read ==
    /\ stage = "read"
    /\ IF Here = "half"
       THEN Fail(NotJSON)
       ELSE /\ fetch' = With(fetch, [n \in {look.name} |-> link[n]])
            /\ stage' = "next"
            /\ UNCHANGED <<job, solution, link, keys, search, cache, outcome>>

(* Another process extracts the package into a cache. *)
Extract(d) ==
    /\ stage \in {"look", "read"} /\ cache[d] # "whole"
    /\ cache' = [cache EXCEPT ![d] = IF @ = "absent" THEN "half" ELSE "whole"]
    /\ UNCHANGED <<job, stage, answer, search, outcome>>

-----------------------------------------------------------------------------
(* The plan. *)

(* What apply_categories marks: the requests and all that they lead to. *)
LedTo(plan) ==
    LET Closed == {S \in SUBSET Name :
                      /\ job.requested \subseteq S
                      /\ \A n \in S \intersect DOMAIN plan : Requires[<<n, plan[n]>>] \subseteq S}
    IN  {n \in Name : \A S \in Closed : n \in S}

(* Mutant of Marked: all of the plan is marked. *)
MarkedAll(plan) == LedTo(plan) \union DOMAIN plan

Marked(plan) == LedTo(plan)

(* It raises a KeyError for what the plan does not have. *)
Plan ==
    /\ stage = "plan"
    /\ IF Marked(fetch) \subseteq DOMAIN fetch
       THEN /\ planned' = fetch /\ marked' = Marked(fetch)
            /\ stage' = "returned"
            /\ UNCHANGED <<job, answer, search, cache>>
       ELSE Fail("KeyError")

Caller ==
    \/ Create \/ List \/ Update \/ Merge \/ PkgsDirs
    \/ NextRecord \/ Found \/ NextDir \/ Sleep \/ GiveUp \/ Read \/ Plan

Next ==
    \/ Caller
    \/ ListAgain \/ CondaFails \/ Unrecognised \/ NothingToCreate
    \/ \E d \in Dir : Extract(d)

Spec == Init /\ [][Next]_vars

(* The code keeps going, and conda's processes end, as it is supposed of them: *)
(* there is no timeout.  Whoever fills the caches need not go on.             *)
FairSpec == Spec /\ WF_vars(Caller)

-----------------------------------------------------------------------------
IsChoices(f) == DOMAIN f \subseteq Name /\ \A n \in DOMAIN f : f[n] \in Version

TypeOK ==
    /\ stage \in Over \union {"create", "list", "list again", "update", "merge",
                              "pkgs_dirs", "next", "look", "read", "plan"}
    /\ IsChoices(solution) /\ IsChoices(link) /\ IsChoices(fetch) /\ IsChoices(planned)
    /\ DOMAIN fetch \subseteq DOMAIN link /\ marked \subseteq DOMAIN planned
    /\ keys \subseteq {"LINK", "FETCH"}
    /\ missing \subseteq DOMAIN link \ DOMAIN fetch
    /\ look = None \/ (look.try \in 1 .. Tries /\ look.dir \in Dir)
    /\ early \subseteq Dir

(* Whatever conda fetched, found in a cache or left as it was, the plan has   *)
(* every package of the solution, in the version of the solution; a record   *)
(* that could not be read fails the solve and never shortens the plan.       *)
PlanIsTheSolution ==
    stage = "returned" => \A n \in DOMAIN solution :
        n \in DOMAIN planned /\ planned[n] = solution[n]

(* A package that conda would remove stays in the plan, because the answer to *)
(* an update does not link it, but it gets no category, and a package without *)
(* a category is not in the lockfile: unless what is removed is a request.    *)
RemovedNotMarked ==
    stage = "returned" =>
        /\ job.requested \subseteq marked
        /\ job.requested \subseteq DOMAIN solution => marked \subseteq DOMAIN solution

(* No record is lost on the way from conda's answer to apply_categories: if    *)
(* the answer has both its lists and only requested packages are updated, a   *)
(* KeyError means that conda left a request out, which it may in an update.   *)
(* (The KeyErrors of the other cases are those of lines 244, 432, 498, 504.)  *)
RecordsSuffice ==
    stage = "KeyError" /\ keys = {"LINK", "FETCH"} /\ ToUpdate \subseteq job.requested =>
        ToUpdate # {} /\ ~(job.requested \subseteq DOMAIN solution)

(* A record is given up only after all the tries, and only if no cache held  *)
(* even a part of it when the last one began.                                *)
GaveUpInTheEnd ==
    stage = "FileNotFoundError" => look.try = Tries /\ early = {}

(* A solve ends, whatever the caches hold. *)
SolveEnds == <>(stage \in Over)
=============================================================================
