-------------------------- MODULE CondaSolveProofs --------------------------
(***************************************************************************)
(* One solve, for any packages, any calls, any caches and any number of     *)
(* tries: the plan is the solution or the solve fails.  The invariant        *)
(* accounts, at each step, for every package that is to be linked: its      *)
(* record was fetched, is missing, or is the one that is being looked for.   *)
(***************************************************************************)
EXTENDS CondaSolve, TLAPS

(* The stages before conda has answered, and those after. *)
Asking  == {"create", "list", "list again", "update"}
Filling == {"pkgs_dirs", "next", "look", "read", "plan"}

Solved == RequiredBy(solution) \subseteq DOMAIN solution

(* The record that is being looked for. *)
Pending == IF stage \in {"look", "read"} THEN {look.name} ELSE {}

(* Which of the two ways a solve goes (line 119). *)
WayInv ==
    /\ stage = "create" => ToUpdate = {}
    /\ stage \in {"list", "list again", "update", "merge"} => ToUpdate # {}

(* Before conda has answered there is nothing; afterwards there is a         *)
(* solution, of what was requested unless it is one of an update.            *)
AnswerInv ==
    /\ stage \in Asking => solution = NoPackages /\ keys = {} /\ missing = {}
    /\ stage \in {"merge"} \union Filling =>
           Solved /\ (ToUpdate = {} => job.requested \subseteq DOMAIN solution)

(* Each package that is to be linked is accounted for. *)
RecordsInv ==
    /\ stage \in {"merge"} \union Filling =>
           /\ DOMAIN link = (DOMAIN fetch \union missing) \union Pending
           /\ \A n \in DOMAIN fetch : fetch[n] = link[n]
    /\ stage \in {"look", "read"} =>
           look.name \in DOMAIN link \ (DOMAIN fetch \union missing)
    /\ stage = "plan" => missing = {}

(* What is linked is the solution; before the answer to an update is merged, *)
(* it is what differs from what is locked.                                   *)
LinkInv ==
    /\ stage \in Filling =>
           \A n \in DOMAIN solution : n \in DOMAIN link /\ link[n] = solution[n]
    /\ stage = "merge" => link = Changed(solution)

(* A cache that held the record when a try began is still to be looked into, *)
(* as no record goes away.                                                   *)
LookInv ==
    /\ cache \in [Dir -> Record]
    /\ look = None \/ look \in [name : Name, try : 1 .. Tries, dir : Dir]
    /\ stage \in {"look", "read"} => look \in [name : Name, try : 1 .. Tries, dir : Dir]
    /\ stage = "look" =>
           early \subseteq Holding(cache) /\ \A d \in early : d >= look.dir

Inv ==
    /\ job \in Jobs
    /\ TypeOK /\ WayInv /\ AnswerInv /\ RecordsInv /\ LinkInv /\ LookInv
    /\ PlanIsTheSolution /\ RemovedNotMarked /\ RecordsSuffice /\ GaveUpInTheEnd

-----------------------------------------------------------------------------
(* Operators. *)

LEMMA ChoicesAre ==
    \A f : f \in Choices <=> f = [n \in DOMAIN f |-> f[n]] /\ IsChoices(f)
BY DEF Choices, IsChoices

LEMMA NoPackagesAreChosen == IsChoices(NoPackages) /\ DOMAIN NoPackages = {}
BY DEF NoPackages, IsChoices

(* The job's arguments are what the assumption says of all jobs. *)
LEMMA JobTypes ==
    ASSUME job \in Jobs
    PROVE  /\ job.requested \subseteq Name /\ job.update \subseteq Name
           /\ IsChoices(job.locked)
           /\ ToUpdate \subseteq Name
BY SolveAssumption, ChoicesAre DEF ToUpdate

(* With, of choices. *)
LEMMA WithChoices ==
    ASSUME NEW f, NEW g, IsChoices(f), IsChoices(g)
    PROVE  /\ IsChoices(With(f, g))
           /\ DOMAIN With(f, g) = DOMAIN f \union DOMAIN g
           /\ \A n \in DOMAIN g : With(f, g)[n] = g[n]
           /\ \A n \in DOMAIN f \ DOMAIN g : With(f, g)[n] = f[n]
BY DEF With, IsChoices

(* What the requests lead to is in any set that is closed (LedTo, the        *)
(* categories of apply_categories).                                          *)
LEMMA LedToIsLeast ==
    ASSUME job \in Jobs, NEW plan,
           NEW S, S \subseteq Name, job.requested \subseteq S,
           \A n \in S \intersect DOMAIN plan : Requires[<<n, plan[n]>>] \subseteq S
    PROVE  job.requested \subseteq LedTo(plan) /\ LedTo(plan) \subseteq S
BY JobTypes DEF LedTo

(* A plan that agrees with a solution of the requests needs nothing that the *)
(* solution does not have.                                                   *)
LEMMA LedToInSolution ==
    ASSUME job \in Jobs, NEW plan, Solved, IsChoices(solution),
           job.requested \subseteq DOMAIN solution,
           \A n \in DOMAIN solution : n \in DOMAIN plan /\ plan[n] = solution[n]
    PROVE  LedTo(plan) \subseteq DOMAIN solution
<1>1. \A n \in DOMAIN solution : Requires[<<n, plan[n]>>] \subseteq DOMAIN solution
  BY DEF Solved, RequiredBy
<1> QED
  BY <1>1, LedToIsLeast DEF IsChoices

-----------------------------------------------------------------------------
LEMMA InitInv == Init => Inv
<1> SUFFICES ASSUME Init PROVE Inv
  OBVIOUS
<1>1. job \in Jobs /\ stage = (IF ToUpdate # {} THEN "list" ELSE "create") /\ early = {}
  BY DEF Init
<1>2. TypeOK
  BY NoPackagesAreChosen DEF Init, TypeOK
<1>3. WayInv /\ AnswerInv /\ RecordsInv /\ LinkInv
  BY DEF Init, WayInv, AnswerInv, RecordsInv, LinkInv, Filling, Asking
<1>4. LookInv
  BY DEF Init, LookInv, Record
<1>5. PlanIsTheSolution /\ RemovedNotMarked /\ RecordsSuffice /\ GaveUpInTheEnd
  BY <1>1 DEF PlanIsTheSolution, RemovedNotMarked, RecordsSuffice, GaveUpInTheEnd
<1> QED
  BY <1>1, <1>2, <1>3, <1>4, <1>5 DEF Inv

(* A solve that fails changes nothing else; what is left to say is when it    *)
(* fails in which way.                                                       *)
LEMMA FailKeeps ==
    ASSUME Inv, NEW how \in Failed, Fail(how),
           how = "KeyError" /\ keys = {"LINK", "FETCH"} /\ ToUpdate \subseteq job.requested =>
               ToUpdate # {} /\ ~(job.requested \subseteq DOMAIN solution),
           how = "FileNotFoundError" => look.try = Tries /\ early = {}
    PROVE  Inv'
<1>1. stage' = how /\ UNCHANGED <<job, answer, search, cache, outcome>>
  BY DEF Fail
<1>2. /\ how \in Over /\ how # "returned"
      /\ how \notin Asking \union Filling \union {"merge"}
  BY DEF Over, Failed, Asking, Filling
<1>3. TypeOK' /\ job' \in Jobs
  BY <1>1, <1>2 DEF Inv, TypeOK, IsChoices, answer, search, outcome
<1>4. WayInv' /\ AnswerInv' /\ RecordsInv' /\ LinkInv'
  BY <1>1, <1>2 DEF WayInv, AnswerInv, RecordsInv, LinkInv, Asking, Filling
<1>5. LookInv'
  BY <1>1, <1>2 DEF Inv, LookInv, search, Filling
<1>6. PlanIsTheSolution' /\ RemovedNotMarked'
  BY <1>1, <1>2 DEF PlanIsTheSolution, RemovedNotMarked
<1>7. RecordsSuffice' /\ GaveUpInTheEnd'
  BY <1>1 DEF RecordsSuffice, GaveUpInTheEnd, ToUpdate, answer, search
<1> QED
  BY <1>3, <1>4, <1>5, <1>6, <1>7 DEF Inv

(* Failures of conda, and answers of it that are not understood. *)
LEMMA CondaFailsKeeps == Inv /\ CondaFails => Inv'
BY FailKeeps DEF CondaFails, NotZero, NotJSON, Failed

LEMMA UnrecognisedKeeps == Inv /\ Unrecognised => Inv'
BY FailKeeps DEF Unrecognised, Failed

LEMMA NothingToCreateKeeps == Inv /\ NothingToCreate => Inv'
<1> SUFFICES ASSUME Inv, NothingToCreate PROVE Inv'
  OBVIOUS
<1>1. Fail("KeyError") /\ keys = {}
  BY DEF NothingToCreate, Inv, AnswerInv, Asking
<1> QED
  BY <1>1, FailKeeps DEF Failed

-----------------------------------------------------------------------------
(* Asking conda. *)

(* A step between two stages of a solve that is not over: what is to be shown *)
(* of it is what conda's answer and the records are.                         *)
LEMMA OnTheWay ==
    ASSUME Inv, UNCHANGED job, UNCHANGED outcome,
           stage' \in Asking \union Filling \union {"merge"},
           IsChoices(solution') /\ IsChoices(link') /\ IsChoices(fetch'),
           DOMAIN fetch' \subseteq DOMAIN link' /\ keys' \subseteq {"LINK", "FETCH"},
           missing' \subseteq DOMAIN link' \ DOMAIN fetch' /\ early' \subseteq Dir,
           look' = None \/ look' \in [name : Name, try : 1 .. Tries, dir : Dir],
           WayInv' /\ AnswerInv' /\ RecordsInv' /\ LinkInv' /\ LookInv'
    PROVE  Inv'
<1>1. UNCHANGED <<job, planned, marked>> /\ stage' \notin Over
  BY DEF outcome, Over, Failed, Asking, Filling
<1>2. TypeOK'
  BY <1>1 DEF Inv, TypeOK, Asking, Filling, IsChoices
<1>3. PlanIsTheSolution' /\ RemovedNotMarked' /\ RecordsSuffice' /\ GaveUpInTheEnd'
  BY <1>1 DEF PlanIsTheSolution, RemovedNotMarked, RecordsSuffice,
     GaveUpInTheEnd, Over, Failed
<1> QED
  BY <1>1, <1>2, <1>3 DEF Inv

LEMMA CreateKeeps == Inv /\ Create => Inv'
<1> SUFFICES ASSUME Inv, Create PROVE Inv'
  OBVIOUS
<1>0. PICK sol \in Choices :
          /\ Solves(sol, job.requested, {})
          /\ solution' = sol /\ link' = sol
          /\ \E S \in SUBSET DOMAIN sol : Fetches(sol, S)
  BY DEF Create
<1>1. PICK S \in SUBSET DOMAIN sol :
          /\ fetch' = [n \in S |-> sol[n]]
          /\ missing' = DOMAIN sol \ S
  BY <1>0 DEF Fetches
<1>2. /\ stage = "create" /\ stage' = "pkgs_dirs" /\ keys' = {"LINK", "FETCH"}
      /\ UNCHANGED <<job, look, cache, early, outcome>>
  BY DEF Create
<1>3. IsChoices(sol)
  BY ChoicesAre
<1>4. IsChoices(solution') /\ IsChoices(link') /\ IsChoices(fetch')
  BY <1>0, <1>1, <1>3 DEF IsChoices
<1>5. UNCHANGED <<job, cache, look, early>>
  BY <1>2
<1>6. /\ early \subseteq Dir
      /\ look = None \/ look \in [name : Name, try : 1 .. Tries, dir : Dir]
      /\ cache \in [Dir -> Record]
      /\ ToUpdate = {}
  BY <1>2 DEF Inv, TypeOK, LookInv, WayInv
<1>7. WayInv' /\ LinkInv' /\ LookInv'
  BY <1>0, <1>1, <1>2, <1>5, <1>6 DEF WayInv, LinkInv, LookInv
<1>8. AnswerInv'
  BY <1>0, <1>1, <1>2, <1>5 DEF AnswerInv, Asking, Solved, Solves, RequiredBy
<1>9. RecordsInv'
  BY <1>0, <1>1, <1>2 DEF RecordsInv, Pending
<1> QED
  BY <1>0, <1>1, <1>2, <1>4, <1>5, <1>6, <1>7, <1>8, <1>9, OnTheWay DEF Over, Failed, Asking, Filling

LEMMA ListAgainKeeps == Inv /\ ListAgain => Inv'
<1> SUFFICES ASSUME Inv, ListAgain PROVE Inv'
  OBVIOUS
<1>1. /\ stage = "list" /\ stage' = "list again"
      /\ UNCHANGED outcome /\ UNCHANGED <<job, solution, link, fetch, keys, missing, look, cache, early>>
  BY DEF ListAgain, answer, search
<1>2. WayInv' /\ AnswerInv' /\ RecordsInv' /\ LinkInv' /\ LookInv'
  BY <1>1 DEF Inv, WayInv, AnswerInv, RecordsInv, LinkInv, LookInv, Asking, Filling, ToUpdate
<1> QED
  BY <1>1, <1>2, OnTheWay DEF Inv, TypeOK, LookInv, Over, Failed, Asking, Filling, IsChoices

LEMMA ListKeeps == Inv /\ List => Inv'
<1> SUFFICES ASSUME Inv, List PROVE Inv'
  OBVIOUS
<1>1. stage \in {"list", "list again"} /\ ToUpdate # {} /\ keys = {}
  BY DEF List, Inv, WayInv, AnswerInv, Asking
<1>2. CASE ToUpdate \subseteq job.requested
  <2>1. /\ stage' = "update"
        /\ UNCHANGED outcome /\ UNCHANGED <<job, solution, link, fetch, keys, missing, look, cache, early>>
    BY <1>2 DEF List, answer, search
  <2>2. WayInv' /\ AnswerInv' /\ RecordsInv' /\ LinkInv' /\ LookInv'
    BY <1>1, <2>1 DEF Inv, WayInv, AnswerInv, RecordsInv, LinkInv, LookInv, Asking, Filling, ToUpdate
  <2> QED
    BY <1>1, <2>1, <2>2, OnTheWay DEF Inv, TypeOK, LookInv, Over, Failed, Asking, Filling, IsChoices
<1>3. CASE ~(ToUpdate \subseteq job.requested)
  <2>1. Fail("KeyError")
    BY <1>3 DEF List
  <2> QED
    BY <1>1, <1>3, <2>1, FailKeeps DEF Failed
<1> QED
  BY <1>2, <1>3

LEMMA UpdateKeeps == Inv /\ Update => Inv'
<1> SUFFICES ASSUME Inv, Update PROVE Inv'
  OBVIOUS
<1>0. PICK sol \in Choices :
          /\ Solves(sol, ToUpdate, DOMAIN job.locked)
          /\ solution' = sol /\ link' = Changed(sol)
          /\ \E S \in SUBSET DOMAIN Changed(sol) :
                 /\ Fetches(Changed(sol), S)
                 /\ keys' \subseteq {"LINK", "FETCH"}
  BY DEF Update
<1>1. PICK S \in SUBSET DOMAIN Changed(sol) :
          /\ fetch' = [n \in S |-> Changed(sol)[n]]
          /\ missing' = DOMAIN Changed(sol) \ S
          /\ keys' \subseteq {"LINK", "FETCH"}
  BY <1>0 DEF Fetches
<1>2. /\ stage = "update" /\ stage' = "merge"
      /\ UNCHANGED <<job, look, cache, early, outcome>>
  BY DEF Update
<1>3. IsChoices(sol) /\ IsChoices(Changed(sol))
  BY ChoicesAre DEF Changed, IsChoices
<1>4. IsChoices(solution') /\ IsChoices(link') /\ IsChoices(fetch')
  BY <1>0, <1>1, <1>3 DEF IsChoices
<1>5. UNCHANGED <<job, cache, look, early>>
  BY <1>2
<1>6. /\ early \subseteq Dir
      /\ look = None \/ look \in [name : Name, try : 1 .. Tries, dir : Dir]
      /\ cache \in [Dir -> Record]
      /\ ToUpdate # {}
  BY <1>2 DEF Inv, TypeOK, LookInv, WayInv
<1>7. WayInv' /\ LookInv'
  BY <1>0, <1>1, <1>2, <1>5, <1>6 DEF WayInv, LookInv, ToUpdate
<1>8. LinkInv'
  BY <1>0, <1>1, <1>2, <1>5 DEF LinkInv, Filling, Changed
<1>9. AnswerInv'
  BY <1>0, <1>1, <1>2, <1>5, <1>6 DEF AnswerInv, Asking, Solved, Solves, RequiredBy, ToUpdate
<1>10. RecordsInv'
  BY <1>0, <1>1, <1>2 DEF RecordsInv, Pending
<1> QED
  BY <1>0, <1>1, <1>2, <1>4, <1>5, <1>6, <1>7, <1>8, <1>9, <1>10, OnTheWay
  DEF Over, Failed, Asking, Filling

(* What is kept and what is linked are together the solution and what conda  *)
(* would remove.                                                             *)
LEMMA MergeKeeps == Inv /\ Merge => Inv'
<1> SUFFICES ASSUME Inv, Merge PROVE Inv'
  OBVIOUS
<1> DEFINE kept == [n \in Unchanged |-> job.locked[n]]
<1>1. stage = "merge" /\ ToUpdate # {} /\ job \in Jobs
  BY DEF Merge, Inv, WayInv
<1>2. CASE "LINK" \notin keys \/ (Unchanged # {} /\ "FETCH" \notin keys)
  <2>1. Fail("KeyError")
    BY <1>2 DEF Merge
  <2> QED
    BY <1>1, <1>2, <2>1, FailKeeps DEF Failed
<1>3. CASE ~("LINK" \notin keys \/ (Unchanged # {} /\ "FETCH" \notin keys))
  <2>1. /\ link' = With(link, kept) /\ fetch' = With(fetch, kept)
        /\ stage' = "pkgs_dirs"
        /\ UNCHANGED outcome /\ UNCHANGED <<job, solution, keys, missing, look, cache, early>>
    BY <1>3 DEF Merge, search
  <2>2. /\ IsChoices(solution) /\ IsChoices(link) /\ IsChoices(fetch) /\ IsChoices(kept)
        /\ DOMAIN kept = DOMAIN job.locked \ DOMAIN link
        /\ \A n \in DOMAIN kept : kept[n] = job.locked[n]
    BY <1>1, JobTypes DEF Inv, TypeOK, Unchanged, IsChoices
  <2> HIDE DEF kept
  <2>3. /\ IsChoices(link') /\ DOMAIN link' = DOMAIN link \union DOMAIN kept
        /\ \A n \in DOMAIN kept : link'[n] = job.locked[n]
        /\ \A n \in DOMAIN link \ DOMAIN kept : link'[n] = link[n]
    <3>1. /\ IsChoices(With(link, kept))
          /\ DOMAIN With(link, kept) = DOMAIN link \union DOMAIN kept
          /\ \A n \in DOMAIN kept : With(link, kept)[n] = kept[n]
          /\ \A n \in DOMAIN link \ DOMAIN kept : With(link, kept)[n] = link[n]
      BY <2>2, WithChoices, Zenon
    <3> QED
      BY <2>1, <2>2, <3>1
  <2>4. /\ IsChoices(fetch') /\ DOMAIN fetch' = DOMAIN fetch \union DOMAIN kept
        /\ \A n \in DOMAIN kept : fetch'[n] = job.locked[n]
        /\ \A n \in DOMAIN fetch \ DOMAIN kept : fetch'[n] = fetch[n]
    <3>1. /\ IsChoices(With(fetch, kept))
          /\ DOMAIN With(fetch, kept) = DOMAIN fetch \union DOMAIN kept
          /\ \A n \in DOMAIN kept : With(fetch, kept)[n] = kept[n]
          /\ \A n \in DOMAIN fetch \ DOMAIN kept : With(fetch, kept)[n] = fetch[n]
      BY <2>2, WithChoices, Zenon
    <3> QED
      BY <2>1, <2>2, <3>1
  <2>5. /\ DOMAIN link = DOMAIN fetch \union missing
        /\ \A n \in DOMAIN fetch : fetch[n] = link[n]
        /\ missing \subseteq DOMAIN link \ DOMAIN fetch
        /\ link = Changed(solution) /\ Solved
        /\ early \subseteq Dir
        /\ look = None \/ look \in [name : Name, try : 1 .. Tries, dir : Dir]
        /\ cache \in [Dir -> Record]
        /\ keys \subseteq {"LINK", "FETCH"}
    BY <1>1 DEF Inv, RecordsInv, LinkInv, AnswerInv, LookInv, TypeOK, Pending
  <2>6. \A n \in DOMAIN solution : n \in DOMAIN link' /\ link'[n] = solution[n]
    <3> SUFFICES ASSUME NEW n \in DOMAIN solution
                 PROVE  n \in DOMAIN link' /\ link'[n] = solution[n]
      OBVIOUS
    <3>1. CASE n \in DOMAIN link
      BY <2>2, <2>3, <2>5, <3>1 DEF Changed
    <3>2. CASE n \notin DOMAIN link
      BY <2>2, <2>3, <2>5, <3>2 DEF Changed
    <3> QED
      BY <3>1, <3>2
  <2>7. WayInv' /\ LinkInv' /\ LookInv' /\ AnswerInv'
    BY <1>1, <2>1, <2>5, <2>6
    DEF WayInv, LinkInv, LookInv, AnswerInv, Asking, Solved, ToUpdate
  <2>8. RecordsInv' /\ missing' \subseteq DOMAIN link' \ DOMAIN fetch'
    BY <2>1, <2>2, <2>3, <2>4, <2>5 DEF RecordsInv, Pending
  <2> QED
    BY <1>1, <2>1, <2>2, <2>3, <2>4, <2>5, <2>7, <2>8, OnTheWay
    DEF Over, Failed, Asking, Filling
<1> QED
  BY <1>2, <1>3

-----------------------------------------------------------------------------
(* The records of what is to be linked. *)

LEMMA PkgsDirsKeeps == Inv /\ PkgsDirs => Inv'
<1> SUFFICES ASSUME Inv, PkgsDirs PROVE Inv'
  OBVIOUS
<1>1. /\ stage = "pkgs_dirs" /\ stage' = "next"
      /\ UNCHANGED outcome /\ UNCHANGED <<job, solution, link, fetch, keys, missing, look, cache, early>>
  BY DEF PkgsDirs, answer, search
<1>2. WayInv' /\ AnswerInv' /\ RecordsInv' /\ LinkInv' /\ LookInv'
  BY <1>1 DEF Inv, WayInv, AnswerInv, RecordsInv, LinkInv, LookInv, Asking, Filling,
     Pending, Solved, RequiredBy, ToUpdate
<1> QED
  BY <1>1, <1>2, OnTheWay DEF Inv, TypeOK, LookInv, Over, Failed, Asking, Filling, IsChoices

LEMMA NextRecordKeeps == Inv /\ NextRecord => Inv'
<1> SUFFICES ASSUME Inv, NextRecord PROVE Inv'
  OBVIOUS
<1>1. /\ stage = "next" /\ UNCHANGED outcome
      /\ UNCHANGED <<job, solution, link, fetch, keys>>
  BY DEF NextRecord, answer
<1>2. CASE missing = {}
  <2>1. stage' = "plan" /\ UNCHANGED <<missing, look, cache, early>>
    BY <1>2 DEF NextRecord
  <2>2. WayInv' /\ AnswerInv' /\ RecordsInv' /\ LinkInv' /\ LookInv'
    BY <1>1, <1>2, <2>1 DEF Inv, WayInv, AnswerInv, RecordsInv, LinkInv, LookInv,
       Asking, Filling, Pending, Solved, RequiredBy, ToUpdate
  <2> QED
    BY <1>1, <2>1, <2>2, OnTheWay DEF Inv, TypeOK, LookInv, Over, Failed, Asking, Filling, IsChoices
<1>3. CASE missing # {}
  <2>1. PICK n \in missing : /\ look' = [name |-> n, try |-> 1, dir |-> 1]
                             /\ missing' = missing \ {n}
    BY <1>3 DEF NextRecord
  <2>2. cache' \in [Dir -> Record] /\ early' = Holding(cache)' /\ stage' = "look"
    BY <1>3 DEF NextRecord, Holding
  <2>3. /\ n \in DOMAIN link \ DOMAIN fetch /\ n \in Name
        /\ missing \subseteq DOMAIN link \ DOMAIN fetch
        /\ DOMAIN fetch \subseteq DOMAIN link
        /\ DOMAIN link = DOMAIN fetch \union missing
        /\ \A m \in DOMAIN fetch : fetch[m] = link[m]
    BY <1>1 DEF Inv, TypeOK, IsChoices, RecordsInv, Filling, Pending
  <2>4. look' \in [name : Name, try : 1 .. Tries, dir : Dir]
    BY <2>1, <2>3, SolveAssumption DEF Dir
  <2>5. early' \subseteq Dir /\ (\A d \in early' : d >= look.dir')
    BY <2>1, <2>2 DEF Holding, Dir
  <2>6. RecordsInv'
    BY <1>1, <2>1, <2>2, <2>3 DEF RecordsInv, Pending
  <2>7. LookInv'
    BY <2>1, <2>2, <2>4, <2>5 DEF LookInv
  <2>8. WayInv' /\ AnswerInv' /\ LinkInv'
    BY <1>1, <2>2 DEF Inv, WayInv, AnswerInv, LinkInv, Asking, Filling, Solved, RequiredBy, ToUpdate
  <2>9. missing' \subseteq DOMAIN link' \ DOMAIN fetch'
    BY <1>1, <2>1, <2>3
  <2> QED
    BY <1>1, <2>2, <2>3, <2>4, <2>5, <2>6, <2>7, <2>8, <2>9, OnTheWay
    DEF Inv, TypeOK, Over, Failed, Asking, Filling, IsChoices
<1> QED
  BY <1>2, <1>3

LEMMA FoundKeeps == Inv /\ Found => Inv'
<1> SUFFICES ASSUME Inv, Found PROVE Inv'
  OBVIOUS
<1>1. /\ stage = "look" /\ stage' = "read"
      /\ UNCHANGED outcome /\ UNCHANGED <<job, solution, link, fetch, keys, missing, look, cache, early>>
  BY DEF Found, answer, search
<1>2. WayInv' /\ AnswerInv' /\ RecordsInv' /\ LinkInv' /\ LookInv'
  BY <1>1 DEF Inv, WayInv, AnswerInv, RecordsInv, LinkInv, LookInv, Asking, Filling,
     Pending, Solved, RequiredBy, ToUpdate
<1> QED
  BY <1>1, <1>2, OnTheWay DEF Inv, TypeOK, LookInv, Over, Failed, Asking, Filling, IsChoices

(* The directory that was passed did not hold the record when this try began, *)
(* as no record goes away while one is looked for.                           *)
LEMMA NextDirKeeps == Inv /\ NextDir => Inv'
<1> SUFFICES ASSUME Inv, NextDir PROVE Inv'
  OBVIOUS
<1>1. /\ stage = "look" /\ stage' = stage /\ Here = "absent" /\ look.dir < Dirs
      /\ look' = [look EXCEPT !.dir = @ + 1]
      /\ UNCHANGED outcome /\ UNCHANGED <<job, solution, link, fetch, keys, missing, cache, early>>
  BY DEF NextDir, LastDir, answer
<1>2. /\ look \in [name : Name, try : 1 .. Tries, dir : Dir]
      /\ early \subseteq Holding(cache) /\ \A d \in early : d >= look.dir
      /\ early \subseteq Dir /\ cache \in [Dir -> Record]
  BY <1>1 DEF Inv, TypeOK, LookInv
<1>3. /\ look' \in [name : Name, try : 1 .. Tries, dir : Dir]
      /\ look'.name = look.name /\ look'.dir = look.dir + 1
  <2>1. look.dir \in Dir /\ Dirs \in Nat /\ look.dir + 1 \in Dir
    BY <1>1, <1>2, SolveAssumption DEF Dir
  <2> QED
    BY <1>1, <1>2, <2>1
<1>4. look.dir \notin early
  BY <1>1, <1>2 DEF Here, Holding
<1>5. \A d \in early' : d >= look'.dir
  BY <1>1, <1>2, <1>3, <1>4 DEF Dir
<1>6. LookInv'
  BY <1>1, <1>2, <1>3, <1>5 DEF LookInv, Holding
<1>7. WayInv' /\ AnswerInv' /\ RecordsInv' /\ LinkInv'
  BY <1>1, <1>3 DEF Inv, WayInv, AnswerInv, RecordsInv, LinkInv, Asking, Filling,
     Pending, Solved, RequiredBy, ToUpdate
<1> QED
  BY <1>1, <1>2, <1>3, <1>6, <1>7, OnTheWay
  DEF Inv, TypeOK, Over, Failed, Asking, Filling, IsChoices

LEMMA SleepKeeps == Inv /\ Sleep => Inv'
<1> SUFFICES ASSUME Inv, Sleep PROVE Inv'
  OBVIOUS
<1>1. /\ stage = "look" /\ stage' = stage /\ look.try < Tries
      /\ look' = [look EXCEPT !.try = @ + 1, !.dir = 1]
      /\ early' = Holding(cache)
      /\ UNCHANGED outcome /\ UNCHANGED <<job, solution, link, fetch, keys, missing, cache>>
  BY DEF Sleep, answer
<1>2. /\ look \in [name : Name, try : 1 .. Tries, dir : Dir]
      /\ cache \in [Dir -> Record]
  BY <1>1 DEF Inv, LookInv
<1>3. /\ look' \in [name : Name, try : 1 .. Tries, dir : Dir]
      /\ look'.name = look.name /\ look'.dir = 1
  <2>1. look' = [name |-> look.name, try |-> look.try + 1, dir |-> 1]
    BY <1>1, <1>2
  <2>2. look.name \in Name /\ look.try + 1 \in 1 .. Tries /\ 1 \in Dir
    BY <1>1, <1>2, SolveAssumption DEF Dir
  <2> QED
    BY <2>1, <2>2
<1>4. early' \subseteq Dir /\ (\A d \in early' : d >= look'.dir)
  BY <1>1, <1>3 DEF Holding, Dir
<1>5. LookInv'
  BY <1>1, <1>2, <1>3, <1>4 DEF LookInv, Holding
<1>6. WayInv' /\ AnswerInv' /\ RecordsInv' /\ LinkInv'
  BY <1>1, <1>3 DEF Inv, WayInv, AnswerInv, RecordsInv, LinkInv, Asking, Filling,
     Pending, Solved, RequiredBy, ToUpdate
<1> QED
  BY <1>1, <1>3, <1>4, <1>5, <1>6, OnTheWay
  DEF Inv, TypeOK, Over, Failed, Asking, Filling, IsChoices

(* The last directory has just been looked into: no directory is left in which *)
(* the record could have been when the try began.                            *)
LEMMA GiveUpKeeps == Inv /\ GiveUp => Inv'
<1> SUFFICES ASSUME Inv, GiveUp PROVE Inv'
  OBVIOUS
<1>1. /\ stage = "look" /\ Here = "absent" /\ look.dir = Dirs /\ look.try = Tries
      /\ Fail("FileNotFoundError")
  BY DEF GiveUp, LastDir
<1>2. /\ early \subseteq Holding(cache) /\ \A d \in early : d >= look.dir
      /\ early \subseteq Dir
  BY <1>1 DEF Inv, TypeOK, LookInv
<1>3. Dirs \notin early
  BY <1>1, <1>2 DEF Here, Holding
<1>4. early = {}
  BY <1>1, <1>2, <1>3, SolveAssumption DEF Dir
<1> QED
  BY <1>1, <1>4, FailKeeps DEF Failed

LEMMA ReadKeeps == Inv /\ Read => Inv'
<1> SUFFICES ASSUME Inv, Read PROVE Inv'
  OBVIOUS
<1>1. stage = "read"
  BY DEF Read
<1>2. CASE Here = "half"
  <2>1. Fail(NotJSON)
    BY <1>2 DEF Read
  <2> QED
    BY <2>1, FailKeeps DEF Failed, NotJSON
<1>3. CASE Here # "half"
  <2> DEFINE record == [n \in {look.name} |-> link[n]]
  <2>1. /\ fetch' = With(fetch, record) /\ stage' = "next"
        /\ UNCHANGED outcome /\ UNCHANGED <<job, solution, link, keys, missing, look, cache, early>>
    BY <1>3 DEF Read, search
  <2>2. /\ DOMAIN link = (DOMAIN fetch \union missing) \union {look.name}
        /\ \A n \in DOMAIN fetch : fetch[n] = link[n]
        /\ look.name \in DOMAIN link \ (DOMAIN fetch \union missing)
        /\ IsChoices(link) /\ IsChoices(fetch)
        /\ DOMAIN fetch \subseteq DOMAIN link /\ missing \subseteq DOMAIN link \ DOMAIN fetch
    BY <1>1 DEF Inv, RecordsInv, TypeOK, Filling, Pending
  <2>3. IsChoices(record) /\ DOMAIN record = {look.name} /\ record[look.name] = link[look.name]
    BY <2>2 DEF IsChoices
  <2> HIDE DEF record
  <2>4. /\ IsChoices(fetch') /\ DOMAIN fetch' = DOMAIN fetch \union {look.name}
        /\ \A n \in DOMAIN fetch' : fetch'[n] = link[n]
    <3>1. /\ IsChoices(With(fetch, record))
          /\ DOMAIN With(fetch, record) = DOMAIN fetch \union DOMAIN record
          /\ \A n \in DOMAIN record : With(fetch, record)[n] = record[n]
          /\ \A n \in DOMAIN fetch \ DOMAIN record : With(fetch, record)[n] = fetch[n]
      BY <2>2, <2>3, WithChoices, Zenon
    <3> QED
      BY <2>1, <2>2, <2>3, <3>1
  <2>5. RecordsInv' /\ missing' \subseteq DOMAIN link' \ DOMAIN fetch'
        /\ DOMAIN fetch' \subseteq DOMAIN link'
    BY <2>1, <2>2, <2>4 DEF RecordsInv, Pending
  <2>6. WayInv' /\ AnswerInv' /\ LinkInv' /\ LookInv'
    BY <1>1, <2>1 DEF Inv, WayInv, AnswerInv, LinkInv, LookInv, Asking, Filling,
       Solved, RequiredBy, ToUpdate
  <2> QED
    BY <1>1, <2>1, <2>4, <2>5, <2>6, OnTheWay
    DEF Inv, TypeOK, LookInv, Over, Failed, Asking, Filling, IsChoices
<1> QED
  BY <1>2, <1>3

LEMMA ExtractKeeps == ASSUME NEW d \in Dir, Inv, Extract(d) PROVE Inv'
<1>1. /\ stage \in {"look", "read"} /\ stage' = stage
      /\ cache' = [cache EXCEPT ![d] = IF @ = "absent" THEN "half" ELSE "whole"]
      /\ UNCHANGED outcome /\ UNCHANGED <<job, solution, link, fetch, keys, missing, look, early>>
  BY DEF Extract, answer, search
<1>2. cache \in [Dir -> Record]
  BY DEF Inv, LookInv
<1>3. cache' \in [Dir -> Record] /\ Holding(cache) \subseteq Holding(cache)'
  BY <1>1, <1>2 DEF Record, Holding
<1>4. LookInv'
  BY <1>1, <1>3 DEF Inv, LookInv
<1>5. WayInv' /\ AnswerInv' /\ LinkInv'
  BY <1>1 DEF Inv, WayInv, AnswerInv, LinkInv, Asking, Filling, Solved, RequiredBy, ToUpdate
<1>6. RecordsInv'
  BY <1>1 DEF Inv, RecordsInv, Filling, Pending
<1> QED
  BY <1>1, <1>4, <1>5, <1>6, OnTheWay DEF Inv, TypeOK, LookInv, Over, Failed, Asking, Filling, IsChoices

-----------------------------------------------------------------------------
(* All the records are there: the plan is what was linked, which has all of  *)
(* the solution.  A request that the solution lacks is one of an update.     *)
LEMMA PlanKeeps == Inv /\ Plan => Inv'
<1> SUFFICES ASSUME Inv, Plan PROVE Inv'
  OBVIOUS
<1>1. stage = "plan" /\ job \in Jobs
  BY DEF Plan, Inv
<1>2. \A n \in DOMAIN solution : n \in DOMAIN fetch /\ fetch[n] = solution[n]
  <2>1. missing = {} /\ DOMAIN link = DOMAIN fetch \union missing
        /\ \A n \in DOMAIN fetch : fetch[n] = link[n]
    BY <1>1 DEF Inv, RecordsInv, Filling, Pending
  <2>2. \A n \in DOMAIN solution : n \in DOMAIN link /\ link[n] = solution[n]
    BY <1>1 DEF Inv, LinkInv, Filling
  <2> QED
    BY <2>1, <2>2
<1>3. Solved /\ IsChoices(solution) /\ (ToUpdate = {} => job.requested \subseteq DOMAIN solution)
  BY <1>1 DEF Inv, AnswerInv, TypeOK, Filling
<1>4. job.requested \subseteq LedTo(fetch)
  BY JobTypes DEF LedTo, Inv
<1>5. job.requested \subseteq DOMAIN solution => LedTo(fetch) \subseteq DOMAIN solution
  BY <1>1, <1>2, <1>3, LedToInSolution
<1>6. CASE Marked(fetch) \subseteq DOMAIN fetch
  <2>1. /\ planned' = fetch /\ marked' = LedTo(fetch) /\ stage' = "returned"
        /\ UNCHANGED <<job, solution, link, fetch, keys, missing, look, early, cache>>
    BY <1>6 DEF Plan, Marked, answer, search
  <2>3. TypeOK'
    BY <1>6, <2>1 DEF Inv, TypeOK, IsChoices, Over, Marked
  <2>4. PlanIsTheSolution'
    BY <1>2, <2>1 DEF PlanIsTheSolution
  <2>5. RemovedNotMarked'
    BY <1>4, <1>5, <2>1 DEF RemovedNotMarked
  <2>6. RecordsSuffice' /\ GaveUpInTheEnd'
    BY <2>1 DEF RecordsSuffice, GaveUpInTheEnd
  <2>7. WayInv' /\ AnswerInv' /\ RecordsInv' /\ LinkInv' /\ LookInv'
    BY <2>1 DEF Inv, WayInv, AnswerInv, RecordsInv, LinkInv, LookInv, Asking, Filling
  <2> QED
    BY <1>1, <2>1, <2>3, <2>4, <2>5, <2>6, <2>7 DEF Inv
<1>7. CASE ~(Marked(fetch) \subseteq DOMAIN fetch)
  <2>1. ~(job.requested \subseteq DOMAIN solution)
    BY <1>2, <1>5, <1>7 DEF Marked
  <2>2. ToUpdate # {} /\ Fail("KeyError")
    BY <1>3, <1>7, <2>1 DEF Plan
  <2> QED
    BY <1>1, <2>1, <2>2, FailKeeps DEF Failed
<1> QED
  BY <1>6, <1>7

LEMMA StutterKeeps == Inv /\ UNCHANGED vars => Inv'
<1> SUFFICES ASSUME Inv, UNCHANGED vars PROVE Inv'
  OBVIOUS
<1>1. /\ UNCHANGED <<job, stage, solution, link, fetch, keys>>
      /\ UNCHANGED <<missing, look, cache, early, planned, marked>>
  BY DEF vars
<1>2. job' \in Jobs /\ TypeOK'
  BY <1>1 DEF Inv, TypeOK, IsChoices
<1>3. WayInv' /\ AnswerInv' /\ LinkInv'
  BY <1>1 DEF Inv, WayInv, AnswerInv, LinkInv, Solved, RequiredBy, ToUpdate, Changed
<1>4. RecordsInv' /\ LookInv'
  BY <1>1 DEF Inv, RecordsInv, LookInv, Pending, Holding
<1>5. PlanIsTheSolution' /\ RemovedNotMarked' /\ RecordsSuffice' /\ GaveUpInTheEnd'
  BY <1>1 DEF Inv, PlanIsTheSolution, RemovedNotMarked, RecordsSuffice, GaveUpInTheEnd, ToUpdate
<1> QED
  BY <1>2, <1>3, <1>4, <1>5 DEF Inv

LEMMA NextInv == Inv /\ [Next]_vars => Inv'
BY NothingToCreateKeeps, UnrecognisedKeeps, CreateKeeps, ListKeeps, UpdateKeeps, MergeKeeps, PkgsDirsKeeps,
   NextRecordKeeps, FoundKeeps, NextDirKeeps, SleepKeeps, GiveUpKeeps, ReadKeeps,
   PlanKeeps, ListAgainKeeps, CondaFailsKeeps, ExtractKeeps, StutterKeeps
DEF Next, Caller

LEMMA InvAlways == Spec => []Inv
BY InitInv, NextInv, PTL DEF Spec

-----------------------------------------------------------------------------
(* Every variable keeps its type in every solve.                             *)
THEOREM TypeCorrect == Spec => []TypeOK
<1>1. Inv => TypeOK
  BY DEF Inv
<1> QED
  BY <1>1, InvAlways, PTL

(* solve_conda returns a plan with every package of conda's solution, in its *)
(* version, whatever was fetched, kept or found in a cache: _reconstruct_-   *)
(* fetch_actions loses none, for any number of caches, packages and tries.   *)
THEOREM PlanComplete == Spec => []PlanIsTheSolution
<1>1. Inv => PlanIsTheSolution
  BY DEF Inv
<1> QED
  BY <1>1, InvAlways, PTL

(* What an update would remove stays in the plan but is not categorised, as  *)
(* the requests lead only to what the solution has (apply_categories).       *)
THEOREM RemovedUncategorised == Spec => []RemovedNotMarked
<1>1. Inv => RemovedNotMarked
  BY DEF Inv
<1> QED
  BY <1>1, InvAlways, PTL

(* No record is lost before apply_categories: whatever was fetched, kept or   *)
(* found, a KeyError over a whole answer to a sound call means that conda     *)
(* itself left a request out.                                                *)
THEOREM NoRecordLost == Spec => []RecordsSuffice
<1>1. Inv => RecordsSuffice
  BY DEF Inv
<1> QED
  BY <1>1, InvAlways, PTL

(* _get_repodata_record gives up only after the last try, and only if no     *)
(* cache held the record when that try began.                                *)
THEOREM GivesUpLast == Spec => []GaveUpInTheEnd
<1>1. Inv => GaveUpInTheEnd
  BY DEF Inv
<1> QED
  BY <1>1, InvAlways, PTL
=============================================================================
