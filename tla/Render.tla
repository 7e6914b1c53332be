------------------------------- MODULE Render -------------------------------
(***************************************************************************)
(* do_render and render_lockfile_for_platform (conda_lock/conda_lock.py):   *)
(* the files for one platform that are written from a lockfile, by          *)
(* make_lock_files with or without --check-input-hash and by the render     *)
(* command without it.  Between two calls the lockfile is locked anew.      *)
(*                                                                         *)
(* An explicit file lists packages in the order of Toposort, an instance of *)
(* which sorts the conda packages of the platform and then its pip packages. *)
(* Versions, URLs and hashes of packages are stood for by the revision of   *)
(* the lock that they come from.                                            *)
(***************************************************************************)
EXTENDS Integers, Sequences, FiniteSets, SequencesExt

CONSTANTS
    Platforms,  \* the platforms of the lockfile, in its order
    None,
    Name,       \* names of packages: their places in the alphabet
    Python,     \* as in Toposort
    Pip,
    PipName,    \* the names that are packages of pip, not of conda
    Virtual,    \* the names that begin with "__"
    Category,   \* "main", "dev" and the extras
    Tables,     \* what may be locked: [Name -> None or [deps, categories]]
    Hash,       \* content hashes
    Calls,      \* the calls of do_render
    MaxRev,     \* bound: times a platform is locked
    MaxCalls    \* bound: calls of do_render

Platform == ToSet(Platforms)
Kind     == {"explicit", "env"}
Manager  == {"conda", "pip"}

(* Placeholders of --filename-template that have to do with what is rendered. *)
Token == {"platform", "dev-dependencies", "input-hash"}

IsCall(c) ==
    /\ c.kinds \in Seq(Kind) /\ c.dev \in BOOLEAN
    /\ c.extras \subseteq Category \ {"main", "dev"}
    /\ c.check \in BOOLEAN
    /\ c.template \subseteq Token
    /\ c.yml \in {0, 1}  \* whether the template ends in .yml
    /\ c.override \subseteq Platform

(* As apply_categories leaves it: a dependency is wanted wherever what       *)
(* depends on it is wanted, and "main" stands for everything.                *)
IsTable(t) ==
    /\ DOMAIN t = Name
    /\ \A n \in Name : t[n] # None =>
        /\ t[n].deps \subseteq {d \in Name : t[d] # None} \union Virtual
        /\ t[n].categories \in (SUBSET Category) \ {{}}
        /\ \A d \in t[n].deps : t[d] # None =>
            "main" \in t[d].categories \/ t[n].categories \subseteq t[d].categories

ASSUME RenderAssumption ==
    /\ Platforms \in Seq(Platform)
    /\ IsFiniteSet(Name) /\ Name \subseteq Nat
    /\ None \notin [deps : SUBSET Name, categories : SUBSET Category]
    /\ PipName \subseteq Name /\ Virtual \subseteq Name \ PipName
    /\ {"main", "dev"} \subseteq Category
    /\ \A t \in Tables : IsTable(t)
    /\ \A c \in Calls : IsCall(c)
    /\ MaxRev \in Nat \ {0} /\ MaxCalls \in Nat

VARIABLES
    lock,    \* the lockfile: [Platform -> [rev, hash, table]]
    files,   \* [file names -> what the file holds]
    calls,   \* number of calls so far
    call,    \* the local state of the call
    lookup, data, round, out   \* the sort of render_lockfile_for_platform

sort == <<lookup, data, round, out>>
vars == <<lock, files, calls, call, lookup, data, round, out>>

Sorting == INSTANCE Toposort WITH Item <- Name

Steps == {"idle", "files", "sort", "open", "write", "done", "exit"}

(* Between two calls. *)
Idle == call.pc \in {"idle", "done", "exit"}

-----------------------------------------------------------------------------
(* The members of S among the elements of s, in their order. *)
Filtered(s, S) ==
    FlattenSeq([i \in DOMAIN s |-> IF s[i] \in S THEN <<s[i]>> ELSE <<>>])

(* The sequence of the members of S in their order (list.sort). *)
Alphabetical(S) ==
    {l \in [1 .. Cardinality(S) -> S] : \A i, j \in DOMAIN l : i < j => l[i] < l[j]}

(* platforms in do_render. *)
PlatformsOf(c) ==
    Filtered(Platforms, IF c.override = {} THEN Platform ELSE c.override)

(* The turns of do_render's two loops. *)
Turns(c) ==
    FlattenSeq([i \in DOMAIN PlatformsOf(c) |->
        [j \in DOMAIN c.kinds |-> <<PlatformsOf(c)[i], c.kinds[j]>>]])

(* Which platform, input hash and flag a name tells apart, and how often it     *)
(* ends in .yml, before KIND_FILE_EXT is added to it.                           *)
BaseName(c, p) ==
    [ platform |-> IF "platform" \in c.template THEN p ELSE None,
      hash     |-> IF "input-hash" \in c.template THEN lock[p].hash ELSE None,
      dev      |-> IF "dev-dependencies" \in c.template THEN c.dev ELSE None,
      yml      |-> c.yml ]

(* Mutant of FileName: the extension is forgotten. *)
FileNameBare(c, p, k) == BaseName(c, p)

FileName(c, p, k) ==
    [BaseName(c, p) EXCEPT !.yml = IF k = "env" THEN @ + 1 ELSE @]

CategoriesToInstall(c) ==
    {"main"} \union c.extras \union (IF c.dev THEN {"dev"} ELSE {})

(* Lockfile.to_v1: in the file a package has an entry for each category. *)
Entries(t) ==
    UNION {{[name |-> n, deps |-> t[n].deps, category |-> k] : k \in t[n].categories} :
              n \in {n \in Name \ Virtual : t[n] # None}}

(* Mutant of Collected: the last of a package's entries decides. *)
CollectedLast(E) ==
    [n \in Name |->
        LET own == {e \in E : e.name = n}
        IN  IF own = {} THEN None
            ELSE LET e == CHOOSE e \in own : TRUE
                 IN  [deps |-> e.deps, categories |-> {e.category}]]

(* lockfile_v1_to_v2 collects the entries of a package. *)
Collected(E) ==
    [n \in Name |->
        LET own == {e \in E : e.name = n}
        IN  IF own = {} THEN None
            ELSE [deps |-> (CHOOSE e \in own : TRUE).deps, categories |-> {e.category : e \in own}]]

(* The packages of a manager that are listed for a platform. *)
Listed(c, t, m) ==
    {n \in Name \ Virtual :
        /\ t[n] # None
        /\ (m = "pip") <=> (n \in PipName)
        /\ t[n].categories \intersect CategoriesToInstall(c) # {}}

(* lookup in Lockfile._toposort: all packages of the platform and manager,   *)
(* virtual ones included, with the names they depend on.                     *)
LookupOf(t, m) ==
    [n \in {n \in Name : t[n] # None /\ ((m = "pip") <=> (n \in PipName))} |-> t[n].deps]

-----------------------------------------------------------------------------
Init ==
    /\ lock \in [Platform -> [rev : {1}, hash : Hash, table : Tables]]
    /\ files = [f \in {} |-> None]
    /\ calls = 0
    /\ call = [pc |-> "idle"]
    /\ lookup = <<>> /\ data = <<>> /\ round = {} /\ out = <<>>

(* make_lock_files locks a platform again: with --update the specification,  *)
(* and so the hash, may be what it was.  Bound: once between two calls.      *)
Relock ==
    /\ Idle /\ call.pc # "idle" /\ calls < MaxCalls
    /\ \E p \in Platform, h \in Hash :
        /\ lock[p].rev < MaxRev
        /\ lock' = [lock EXCEPT ![p].rev = @ + 1, ![p].hash = h]
    /\ call' = [pc |-> "idle"]
    /\ UNCHANGED <<files, calls, sort>>

(* Several platforms, but one name for all of them, or a template that ends   *)
(* in the extension of environment files.                                     *)
Refused(c) ==
    ("platform" \notin c.template /\ Len(PlatformsOf(c)) > 1) \/ c.yml # 0

InMemory == [p \in Platform |-> lock[p].table]
Read     == [p \in Platform |-> Collected(Entries(lock[p].table))]

(* do_render is called, and checks the template before it writes anything.   *)
(* make_lock_files calls it with what it has locked or, if it solved nothing, *)
(* with what it has read, as the render command does, which alone overrides  *)
(* the platforms.                                                            *)
StartCall ==
    /\ Idle /\ calls < MaxCalls
    /\ \E c \in Calls, content \in {InMemory, Read} :
        /\ c.override # {} => content = Read
        /\ call' = [ pc   |-> IF Refused(c) THEN "exit" ELSE "files",
                  args |-> c,
                  content |-> content,
                  todo |-> Turns(c),
                  file |-> <<>>,        \* the platform and kind being rendered
                  sorting |-> None,     \* the manager whose packages are being sorted
                  lines |-> [m \in Manager |-> <<>>] ]
    /\ calls' = calls + 1
    /\ UNCHANGED <<lock, files, sort>>

(* The file whose hash is compared is the one without an extension, whatever *)
(* kind is to be rendered.                                                   *)
Skipped(p) ==
    LET f == BaseName(call.args, p)
    IN  call.args.check /\ f \in DOMAIN files /\ files[f].hash = lock[p].hash

(* The platform and kind whose turn it is. *)
InTurn(p, k) ==
    /\ call.pc = "files" /\ call.todo # <<>>
    /\ <<p, k>> = Head(call.todo)

SkipFile ==
    /\ \E p \in Platform, k \in Kind : InTurn(p, k) /\ Skipped(p)
    /\ call' = [call EXCEPT !.todo = Tail(@)]
    /\ UNCHANGED <<lock, files, calls, sort>>

(* alphasort_inplace for an environment file. *)
RenderEnv ==
    /\ \E p \in Platform :
        /\ InTurn(p, "env") /\ ~Skipped(p)
        /\ \E conda \in Alphabetical(Listed(call.args, call.content[p], "conda")),
              pip \in Alphabetical(Listed(call.args, call.content[p], "pip")) :
            call' = [call EXCEPT !.todo = Tail(@), !.file = <<p, "env">>, !.pc = "open",
                        !.lines = [conda |-> conda, pip |-> pip]]
    /\ UNCHANGED <<lock, files, calls, sort>>

(* toposort_inplace for an explicit one, conda packages first. *)
RenderExplicit ==
    /\ \E p \in Platform :
        /\ InTurn(p, "explicit") /\ ~Skipped(p)
        /\ call' = [call EXCEPT !.todo = Tail(@), !.file = <<p, "explicit">>, !.pc = "sort",
                        !.lines = [m \in Manager |-> <<>>], !.sorting = "conda"]
        /\ Sorting!Begin(LookupOf(call.content[p], "conda"))
    /\ UNCHANGED <<lock, files, calls>>

SortStep ==
    /\ call.pc = "sort"
    /\ Sorting!Next
    /\ UNCHANGED <<lock, files, calls, call>>

(* What was sorted is filtered: names without a package of the manager, and  *)
(* packages that are virtual or in none of the categories.                   *)
SortDone ==
    /\ call.pc = "sort" /\ Sorting!Done
    /\ LET p == call.file[1]
           m == call.sorting
           l == Filtered(out, Listed(call.args, call.content[p], m))
       IN  IF m = "conda"
           THEN /\ call' = [call EXCEPT !.lines[m] = l, !.sorting = "pip"]
                /\ Sorting!Begin(LookupOf(call.content[p], "pip"))
           ELSE /\ call' = [call EXCEPT !.lines[m] = l, !.sorting = None, !.pc = "open"]
                /\ lookup' = <<>> /\ data' = <<>> /\ round' = {} /\ out' = <<>>
    /\ UNCHANGED <<lock, files, calls>>

(* open(filename, "w") *)
Open ==
    /\ call.pc = "open"
    /\ LET f == FileName(call.args, call.file[1], call.file[2])
       IN  files' = [x \in DOMAIN files \union {f} |->
                        IF x = f THEN [hash |-> None, whole |-> FALSE] ELSE files[x]]
    /\ call' = [call EXCEPT !.pc = "write"]
    /\ UNCHANGED <<lock, calls, sort>>

Write ==
    /\ call.pc = "write"
    /\ LET p == call.file[1]
       IN  files' = [files EXCEPT ![FileName(call.args, p, call.file[2])] =
                        [ hash  |-> lock[p].hash, whole |-> TRUE,
                          platform |-> p, kind |-> call.file[2], rev |-> lock[p].rev,
                          for   |-> CategoriesToInstall(call.args),
                          lines |-> call.lines ]]
    /\ call' = [call EXCEPT !.pc = "files"]
    /\ UNCHANGED <<lock, calls, sort>>

(* The process is killed while it writes; there is a beginning of the file,  *)
(* with the line of the hash or without it.  Bound: another call follows, of *)
(* the same lock.                                                            *)
Kill ==
    /\ call.pc = "write" /\ calls < MaxCalls
    /\ \E h \in {None, lock[call.file[1]].hash} :
           files' = [files EXCEPT ![FileName(call.args, call.file[1], call.file[2])] =
                        [hash |-> h, whole |-> FALSE]]
    /\ call' = [pc |-> "idle"]
    /\ UNCHANGED <<lock, calls, sort>>

EndCall ==
    /\ call.pc = "files" /\ call.todo = <<>>
    /\ call' = [call EXCEPT !.pc = "done"]
    /\ UNCHANGED <<lock, files, calls, sort>>

Step == SkipFile \/ RenderEnv \/ RenderExplicit \/ SortStep \/ SortDone
            \/ Open \/ Write \/ EndCall
Next == Relock \/ StartCall \/ Kill \/ Step

Spec     == Init /\ [][Next]_vars
FairSpec == Spec /\ WF_vars(Step)

-----------------------------------------------------------------------------
TypeOK ==
    /\ \A p \in Platform :
        lock[p].rev \in 1 .. MaxRev /\ lock[p].hash \in Hash /\ IsTable(lock[p].table)
    /\ calls \in 0 .. MaxCalls
    /\ call.pc \in Steps
    /\ IF call.pc = "sort" THEN Sorting!TypeOK ELSE DOMAIN data = {} /\ out = <<>>
    /\ \A f \in DOMAIN files :
        /\ f.platform \in Platform \union {None} /\ f.yml \in {0, 1}
        /\ files[f].hash \in Hash \union {None}

(* The file of p and k is what a call has been asked for, of this lock. *)
Current(c, p, k) ==
    LET f == FileName(c, p, k)
    IN  /\ f \in DOMAIN files /\ files[f].whole
        /\ files[f].platform = p /\ files[f].kind = k
        /\ files[f].rev = lock[p].rev
        /\ files[f].for = CategoriesToInstall(c)

Requested == ToSet(Turns(call.args))

(* When a call without --check-input-hash has ended, each file it was asked  *)
(* for is there, of its platform, kind and categories and of the lock as it  *)
(* is: no file of another platform or kind has been written over it          *)
(* (do_render's check of the template, KIND_FILE_EXT).  With the flag at     *)
(* least the explicit files are of the lock's specification.                 *)
RenderedIsCurrent ==
    call.pc = "done" =>
        \A t \in Requested :
            IF ~call.args.check THEN Current(call.args, t[1], t[2])
            ELSE t[2] = "explicit" =>
                LET f == FileName(call.args, t[1], t[2])
                IN  f \in DOMAIN files /\ files[f].hash = lock[t[1]].hash

(* "Lock content already rendered for {plat}. Skipping render of             *)
(* {filename}." (do_render): the files of a call are current, those that     *)
(* --check-input-hash made it skip included.                                 *)
SkippedIsCurrent ==
    call.pc = "done" => \A t \in Requested : Current(call.args, t[1], t[2])

Whole == {f \in DOMAIN files : files[f].whole}

LinesOf(f) == files[f].lines["conda"] \o files[f].lines["pip"]

(* conda and pip are told not to look for dependencies of what an explicit   *)
(* file lists, so whatever subset of the extras it is for, each locked       *)
(* dependency of a package it lists is listed, and no package is missing     *)
(* that the lock has in one of the categories (render_lockfile_for_platform's *)
(* filter over what apply_categories assigned).  None is listed twice,        *)
(* however the sort left a cycle.  And the name of the file tells             *)
(* do_conda_install its kind (conda_lock.py:209), whichever templates other   *)
(* calls were given.                                                          *)
Installable ==
    \A f \in Whole :
        LET table == lock[files[f].platform].table
            names == ToSet(LinesOf(f))
        IN  /\ \A n \in Name \ Virtual :
                table[n] # None /\ table[n].categories \intersect files[f].for # {} => n \in names
            /\ \A n \in names : \A d \in table[n].deps :
                table[d] # None => d \in names \union Virtual
            /\ Cardinality(names) = Len(LinesOf(f))
            /\ files[f].kind = "env" <=> f.yml = 1

(* In an explicit file a package comes after the packages of its manager it  *)
(* depends on, unless these have a cycle upstream: conda links in this order *)
(* (test_explicit_toposorted), and python comes before what needs it.        *)
ExplicitInOrder ==
    \A f \in Whole : files[f].kind = "explicit" =>
        \A m \in Manager :
            LET l     == files[f].lines[m]
                graph == Sorting!Needs(LookupOf(lock[files[f].platform].table, m))
            IN  \A i \in DOMAIN l : \A d \in graph[l[i]] \ Sorting!Tangled(graph) :
                    d \in ToSet(l) => d \in ToSet(SubSeq(l, 1, i - 1))

(* Each call of do_render ends: no cycle keeps the sort going. *)
CallEnds == call.pc \notin {"idle", "done", "exit"} ~> Idle
=============================================================================
