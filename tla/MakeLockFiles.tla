--------------------------- MODULE MakeLockFiles ---------------------------
(***************************************************************************)
(* make_lock_files (conda_lock/conda_lock.py): a run of `conda-lock lock`   *)
(* reads the sources and the existing lockfile, decides which platforms to  *)
(* solve, solves them one after the other, merges the result into what was  *)
(* locked before and rewrites the lockfile in place.                        *)
(*                                                                          *)
(* Around it the user edits the sources, upstream publishes versions and    *)
(* processes are killed.  The solvers are external: a package is requested  *)
(* with the set of versions its constraint admits.  A content hash is stood *)
(* for by what is hashed.                                                   *)
(***************************************************************************)
EXTENDS Integers, FiniteSets, FiniteSetsExt

CONSTANTS
    Proc,        \* processes that run conda-lock on one lockfile
    None,        \* no lockfile, no --platform, no channel
    NoUpdate,    \* update=None, which only callers of the Python API can pass
    Platform,    \* platforms, numbered in the order of their names
    Conda,       \* conda packages
    Pip,         \* pip packages
    Python,      \* the conda package without which no pip package is locked
    Deps,        \* [Conda -> SUBSET Conda] transitive dependencies
    MaxVersion,  \* bound: versions upstream publishes of each package
    Sources,     \* source specifications the user switches between
    Calls,       \* invocations
    MaxRuns,     \* bound: number of runs
    Crashes      \* whether processes may be killed

Package == Conda \union Pip
Version == 1 .. MaxVersion

(* LockSpecification: the platforms, the channels and, for each requested *)
(* package, the versions its constraint admits.                           *)
IsSource(s) ==
    /\ s.platforms \subseteq Platform /\ s.platforms # {}
    /\ DOMAIN s.wants \subseteq Package
    /\ s.wants \in [DOMAIN s.wants -> SUBSET Version]

IsCall(c) ==
    /\ c.platforms = None \/ c.platforms \in (SUBSET Platform) \ {{}}
    /\ c.update = NoUpdate \/ c.update \subseteq Package
    /\ {c.check, c.writes} \subseteq BOOLEAN

ASSUME LockAssumption ==
    /\ Platform \subseteq Nat /\ IsFiniteSet(Platform)
    /\ Conda \intersect Pip = {}
    /\ Deps \in [Conda -> SUBSET Conda]
    /\ \A n \in Conda : \A d \in Deps[n] : Deps[d] \subseteq Deps[n]
    /\ MaxVersion \in Nat \ {0} /\ MaxRuns \in Nat
    /\ \A s \in Sources : IsSource(s)
    /\ \A c \in Calls : IsCall(c)
    /\ Crashes \in BOOLEAN

VARIABLES
    source,    \* the source files
    latest,    \* [Package -> newest version published]
    lockfile,  \* [state, lock]: the file, and the content last written whole
    run,       \* [Proc -> the local state of make_lock_files]
    runs       \* number of runs begun

vars == <<source, latest, lockfile, run, runs>>

(* How a run ends.  "ParseError": what parse_conda_lock_file raises besides *)
(* YAMLError, an AttributeError or a ValidationError.                       *)
Failures == {"ParseError", "ChannelsChanged", "Unsatisfiable", "KeyError", "ValueError",
             "MergeError", "killed"}
Ends     == {"idle", "done"} \union Failures
Steps    == {"load", "decide", "solve", "open", "dump"}

NewRun == [ pc     |-> "idle",
            call   |-> None,    \* the arguments
            spec   |-> None,    \* lock_spec
            found  |-> None,    \* the lockfile as it was when it was read
            origin |-> None,    \* original_lock_content
            toLock |-> {},      \* platforms_to_lock
            solved |-> {},      \* those already solved
            fresh  |-> {},      \* packages of fresh_lock_content
            new    |-> None ]   \* new_lock_content

-----------------------------------------------------------------------------
(* A locked package.  PyPI's have no channel.                              *)
Pkg(pl, n, v, ch) == [platform |-> pl, name |-> n, version |-> v, channel |-> ch]

On(pkgs, pl)    == {x \in pkgs : x.platform = pl}
NamesIn(pkgs)   == {x.name : x \in pkgs}

(* compute_content_hashes: one hash per platform of the specification. *)
Content(spec) == [channel |-> spec.channel, wants |-> spec.wants]
Hashes(spec)  == [pl \in spec.platforms |-> Content(spec)]

(* metadata.platforms *)
LockedPlatforms(lock) == DOMAIN lock.hash

Allowed(wants, n) == IF n \in DOMAIN wants THEN wants[n] ELSE Version

(* The conda packages a specification needs, the transitive ones included. *)
CondaNeeds(wants) ==
    LET named == DOMAIN wants \intersect Conda
    IN  named \union UNION {Deps[n] : n \in named}

Needs(wants) == CondaNeeds(wants) \union (DOMAIN wants \intersect Pip)

(* What a solver may choose from, and what it chooses. *)
Candidates(wants, n) == Allowed(wants, n) \intersect 1 .. latest[n]
Best(wants, n)       == Max(Candidates(wants, n))

(* use_latest and update are UpdateSpecification's `update or []`. *)
Named(call) == IF call.update = NoUpdate THEN {} ELSE call.update

(* solve_conda's to_update: the names to update that are locked on pl. *)
CondaUpdates(r, pl, locked) ==
    Named(r.call) \intersect Conda \intersect NamesIn(On(locked, pl))

(* solve_conda without anything to update: a solve from scratch. *)
SolveSpecs(spec, pl) ==
    {Pkg(pl, n, Best(spec.wants, n), spec.channel) : n \in CondaNeeds(spec.wants)}

(* Mutant of UpdateSpecs: packages that are no longer needed stay. *)
UpdateSpecsKeepingAll(spec, pl, locked, names) ==
    {x \in On(locked, pl) : x.name \in Conda \ names}
        \union {Pkg(pl, n, Best(spec.wants, n), spec.channel) : n \in names}

(* update_specs_for_arch: only the packages to update are given to the       *)
(* solver, the others stay; what no request reaches gets no category and is  *)
(* not written (to_v1).                                                      *)
UpdateSpecs(spec, pl, locked, names) ==
    {x \in On(locked, pl) : x.name \in CondaNeeds(spec.wants) \ names}
        \union {Pkg(pl, n, Best(spec.wants, n), spec.channel) : n \in names}

(* pip_locked: a dict by name over the packages of ALL platforms, in order of *)
(* platform: the last one counts.                                             *)
PipLocked(locked, n) == Max({x.platform : x \in {y \in locked : y.name = n}})

(* Mutant of PipKept: the constraint is not looked at. *)
PipKeptAnyway(spec, names, locked, n) ==
    {x \in locked : x.name = n /\ n \notin names /\ x.platform = PipLocked(locked, n)}

(* Poetry keeps a locked version that the constraint admits. *)
PipKept(spec, names, locked, n) ==
    {x \in locked :
        /\ x.name = n /\ n \notin names
        /\ x.platform = PipLocked(locked, n)
        /\ x.version \in spec.wants[n]}

SolvePypi(spec, pl, locked, names) ==
    {Pkg(pl, n,
         IF PipKept(spec, names, locked, n) = {} THEN Best(spec.wants, n)
         ELSE (CHOOSE x \in PipKept(spec, names, locked, n) : TRUE).version,
         None) : n \in DOMAIN spec.wants \intersect Pip}

-----------------------------------------------------------------------------
Init ==
    /\ source \in Sources
    /\ latest = [n \in Package |-> 1]
    /\ lockfile = [state |-> "absent", lock |-> None]
    /\ run = [p \in Proc |-> NewRun]
    /\ runs = 0

(* make_lock_spec: the platforms come from the command line or the sources. *)
Begin(p) ==
    /\ run[p].pc \in Ends /\ runs < MaxRuns
    /\ \E c \in Calls :
        run' = [run EXCEPT ![p] =
            [NewRun EXCEPT !.pc = "load", !.call = c,
                !.spec = IF c.platforms = None THEN source
                         ELSE [source EXCEPT !.platforms = c.platforms]]]
    /\ runs' = runs + 1
    /\ UNCHANGED <<source, latest, lockfile>>

(* parse_conda_lock_file.  An empty file has no `version` to pop; a damaged  *)
(* one is not YAML or not a Lockfile.  Only YAMLErrors are caught.           *)
Load(p) ==
    /\ run[p].pc = "load"
    /\ \E origin \in {None, lockfile.lock}, pc \in {"decide", "ParseError"} :
        /\ lockfile.state = "whole"  => origin = lockfile.lock /\ pc = "decide"
        /\ lockfile.state = "absent" => origin = None /\ pc = "decide"
        /\ lockfile.state = "empty"  => origin = None /\ pc = "ParseError"
        /\ lockfile.state = "cut"    => origin = None
        /\ run' = [run EXCEPT ![p].found = lockfile, ![p].origin = origin, ![p].pc = pc]
    /\ UNCHANGED <<source, latest, lockfile, runs>>

(* Mutant of ChannelsDiffer: the channels are not compared. *)
ChannelsNeverDiffer(r) == FALSE

(* The channel check: the command line passes a tuple, never None. *)
ChannelsDiffer(r) == r.origin # None /\ r.origin.channel # r.spec.channel

RefuseChannels(p) ==
    /\ run[p].pc = "decide"
    /\ ChannelsDiffer(run[p]) /\ run[p].call.update # NoUpdate
    /\ run' = [run EXCEPT ![p].pc = "ChannelsChanged"]
    /\ UNCHANGED <<source, latest, lockfile, runs>>

(* platforms_to_lock *)
PlatformsToLock(r) ==
    {pl \in r.spec.platforms :
        r.origin # None =>
            \/ Named(r.call) # {}
            \/ pl \notin LockedPlatforms(r.origin)
            \/ ~r.call.check
            \/ r.origin.hash[pl] # Content(r.spec)}

(* Mutant of Decide: the lockfile is opened before anything is solved. *)
DecideAndOpen(p) ==
    /\ run[p].pc = "decide"
    /\ ~(ChannelsDiffer(run[p]) /\ run[p].call.update # NoUpdate)
    /\ LET todo == PlatformsToLock(run[p])
       IN  /\ run' = [run EXCEPT ![p].toLock = todo,
                                 ![p].pc = IF todo = {} THEN "done" ELSE "solve"]
           /\ lockfile' = IF todo = {} THEN lockfile ELSE [lockfile EXCEPT !.state = "empty"]
    /\ UNCHANGED <<source, latest, runs>>

(* With nothing to solve the lockfile is not written. *)
Decide(p) ==
    /\ run[p].pc = "decide"
    /\ ~(ChannelsDiffer(run[p]) /\ run[p].call.update # NoUpdate)
    /\ LET todo == PlatformsToLock(run[p])
       IN  run' = [run EXCEPT ![p].toLock = todo,
                              ![p].pc = IF todo = {} THEN "done" ELSE "solve"]
    /\ UNCHANGED <<source, latest, lockfile, runs>>

(* update_spec.locked *)
Locked(r) == IF r.origin = None THEN {} ELSE r.origin.pkgs

NextPlatform(r) == Min(r.toLock \ r.solved)

Updates(r) == CondaUpdates(r, NextPlatform(r), Locked(r))

(* update_specs_for_arch looks up the spec of each package it is to update;   *)
(* apply_categories looks up each needed package among those it kept.         *)
SpecMissing(r)    == ~(Updates(r) \subseteq DOMAIN r.spec.wants)
PackageMissing(r) ==
    Updates(r) # {}
        /\ ~(CondaNeeds(r.spec.wants) \subseteq NamesIn(On(Locked(r), NextPlatform(r))))

CondaUnsatisfiable(r) ==
    \E n \in IF Updates(r) = {} THEN CondaNeeds(r.spec.wants) ELSE Updates(r) :
        Candidates(r.spec.wants, n) = {}

PipUnsatisfiable(r) ==
    \E n \in DOMAIN r.spec.wants \intersect Pip :
        /\ Candidates(r.spec.wants, n) = {}
        /\ PipKept(r.spec, Named(r.call), Locked(r), n) = {}

(* solve_conda's result: in an update all that stays counts, needed or not.   *)
CondaDeps(r) ==
    IF Updates(r) = {} THEN CondaNeeds(r.spec.wants)
    ELSE NamesIn(On(Locked(r), NextPlatform(r))) \intersect Conda

(* "Got pip specs without Python" *)
PythonMissing(r) ==
    DOMAIN r.spec.wants \intersect Pip # {} /\ Python \notin CondaDeps(r)

(* What _solve_for_arch raises for the next platform, in this order. *)
Outcome(r) ==
    IF SpecMissing(r) THEN "KeyError"
    ELSE IF CondaUnsatisfiable(r) THEN "Unsatisfiable"
    ELSE IF PackageMissing(r) THEN "KeyError"
    ELSE IF PythonMissing(r) THEN "ValueError"
    ELSE IF PipUnsatisfiable(r) THEN "Unsatisfiable"
    ELSE "solved"

(* The packages it returns otherwise: conda's, then pip's. *)
SolveForArch(r) ==
    LET pl == NextPlatform(r)
    IN  (IF Updates(r) = {} THEN SolveSpecs(r.spec, pl)
         ELSE UpdateSpecs(r.spec, pl, Locked(r), Updates(r)))
            \union SolvePypi(r.spec, pl, Locked(r), Named(r.call))

Solving(r) == r.pc = "solve" /\ r.toLock # r.solved

(* create_lockfile_from_spec: one platform after the other... *)
Solve(p) ==
    /\ Solving(run[p]) /\ Outcome(run[p]) = "solved"
    /\ run' = [run EXCEPT ![p].solved = @ \union {NextPlatform(run[p])},
                          ![p].fresh = @ \union SolveForArch(run[p])]
    /\ UNCHANGED <<source, latest, lockfile, runs>>

(* ... the first failure leaving the whole run. *)
SolveFails(p) ==
    /\ Solving(run[p]) /\ Outcome(run[p]) # "solved"
    /\ run' = [run EXCEPT ![p].pc = Outcome(run[p])]
    /\ UNCHANGED <<source, latest, lockfile, runs>>

FreshLock(r) ==
    [channel |-> r.spec.channel, hash |-> Hashes(r.spec), pkgs |-> r.fresh]

(* Mutants of MergeHashes: the old hashes win; the old hashes are dropped. *)
MergeHashesOursFirst(ours, theirs) ==
    [pl \in DOMAIN ours \union DOMAIN theirs |->
        IF pl \in DOMAIN ours THEN ours[pl] ELSE theirs[pl]]

MergeHashesTheirsOnly(ours, theirs) == theirs

(* Lockfile.merge and LockMeta.__or__, after dropping what was solved again. *)
MergeHashes(ours, theirs) ==
    [pl \in DOMAIN ours \union DOMAIN theirs |->
        IF pl \in DOMAIN theirs THEN theirs[pl] ELSE ours[pl]]

(* Mutants of Merged: all old packages stay; none does. *)
MergedWithAll(r) ==
    [channel |-> r.origin.channel,
     hash    |-> MergeHashes(r.origin.hash, FreshLock(r).hash),
     pkgs    |-> r.origin.pkgs \union r.fresh]

MergedWithNone(r) ==
    [channel |-> r.origin.channel,
     hash    |-> MergeHashes(r.origin.hash, FreshLock(r).hash),
     pkgs    |-> r.fresh]

Merged(r) ==
    [channel |-> r.origin.channel,
     hash    |-> MergeHashes(r.origin.hash, FreshLock(r).hash),
     pkgs    |-> {x \in r.origin.pkgs : x.platform \notin r.toLock} \union r.fresh]

Merge(p) ==
    /\ run[p].pc = "solve" /\ run[p].toLock = run[p].solved
    /\ ~ChannelsDiffer(run[p])
    /\ run' = [run EXCEPT
        ![p].new = IF run[p].origin = None THEN FreshLock(run[p]) ELSE Merged(run[p]),
        ![p].pc  = IF run[p].call.writes THEN "open" ELSE "done"]
    /\ UNCHANGED <<source, latest, lockfile, runs>>

MergeRaises(p) ==
    /\ run[p].pc = "solve" /\ run[p].toLock = run[p].solved
    /\ ChannelsDiffer(run[p])
    /\ run' = [run EXCEPT ![p].pc = "MergeError"]
    /\ UNCHANGED <<source, latest, lockfile, runs>>

(* write_conda_lock_file: open(path, "w") truncates... *)
Open(p) ==
    /\ run[p].pc = "open"
    /\ lockfile' = [lockfile EXCEPT !.state = "empty"]
    /\ run' = [run EXCEPT ![p].pc = "dump"]
    /\ UNCHANGED <<source, latest, runs>>

(* ... and the content follows.  Over what another process has written in the *)
(* meantime it may leave the longer content's tail.                           *)
Dump(p) ==
    /\ run[p].pc = "dump"
    /\ \/ lockfile' = [state |-> "whole", lock |-> run[p].new]
       \/ /\ lockfile.state \in {"whole", "cut"}
          /\ lockfile' = [lockfile EXCEPT !.state = "cut"]
    /\ run' = [run EXCEPT ![p].pc = "done"]
    /\ UNCHANGED <<source, latest, runs>>

(* Killed while it writes, a run leaves a part of the file. *)
Kill(p) ==
    /\ Crashes /\ run[p].pc \in Steps
    /\ \/ UNCHANGED lockfile
       \/ /\ run[p].pc = "dump"
          /\ lockfile' = [lockfile EXCEPT !.state = "cut"]
    /\ run' = [run EXCEPT ![p].pc = "killed"]
    /\ UNCHANGED <<source, latest, runs>>

(* The user edits the sources; upstream publishes. *)
Edit ==
    /\ source' \in Sources \ {source}
    /\ UNCHANGED <<latest, lockfile, run, runs>>

Publish ==
    /\ \E n \in Package :
        /\ latest[n] < MaxVersion
        /\ latest' = [latest EXCEPT ![n] = @ + 1]
    /\ UNCHANGED <<source, lockfile, run, runs>>

Step(p) ==
    \/ Load(p) \/ RefuseChannels(p) \/ Decide(p) \/ Solve(p) \/ SolveFails(p)
    \/ Merge(p) \/ MergeRaises(p) \/ Open(p) \/ Dump(p)

Next ==
    \/ \E p \in Proc : Begin(p) \/ Step(p) \/ Kill(p)
    \/ Edit \/ Publish

Spec == Init /\ [][Next]_vars
-----------------------------------------------------------------------------
IsLock(lock) ==
    /\ \A pl \in DOMAIN lock.hash : IsSource([platforms |-> {pl}, wants |-> lock.hash[pl].wants])
    /\ \A x \in lock.pkgs :
        /\ x.platform \in LockedPlatforms(lock)
        /\ x.name \in Package /\ x.version \in Version

TypeOK ==
    /\ source \in Sources
    /\ latest \in [Package -> Version]
    /\ lockfile.state \in {"absent", "empty", "cut", "whole"}
    /\ lockfile.lock # None => IsLock(lockfile.lock)
    /\ runs \in 0 .. MaxRuns
    /\ \A p \in Proc :
        /\ run[p].pc \in Ends \union Steps
        /\ run[p].solved \subseteq run[p].toLock /\ run[p].toLock \subseteq Platform
        /\ run[p].new # None => IsLock(run[p].new)

(* The packages of one platform solve a specification: they are exactly those *)
(* it needs, one of each, in versions it admits.                              *)
Solution(pkgs, wants) ==
    /\ NamesIn(pkgs) = Needs(wants)
    /\ \A x, y \in pkgs : x.name = y.name => x = y
    /\ \A x \in pkgs : x.version \in Allowed(wants, x.name)

Solves(lock, pl) == Solution(On(lock.pkgs, pl), lock.hash[pl].wants)

(* A content hash in the lockfile is never that of a specification its        *)
(* packages do not solve: --check-input-hash, which looks at nothing else,    *)
(* skips no platform that needs solving (line 410).                           *)
HashHonest ==
    lockfile.state = "whole" =>
        \A pl \in LockedPlatforms(lockfile.lock) : Solves(lockfile.lock, pl)

(* No package in the lockfile comes from other channels than those it names:  *)
(* "packages being resolved from different channels" (line 393) is what the   *)
(* channel check and merge's own check are there to prevent.                  *)
OneChannel ==
    lockfile.state = "whole" =>
        \A x \in lockfile.lock.pkgs :
            x.name \in Conda => x.channel = lockfile.lock.channel

(* A run that has written the lockfile, or skipped every platform, leaves one *)
(* whose hashes are those of its specification, for each of its platforms,    *)
(* and whose packages solve it.                                               *)
DoneMeansLocked ==
    \A p \in Proc : run[p].pc = "done" /\ (run[p].call.writes \/ run[p].toLock = {}) =>
        /\ lockfile.state = "whole"
        /\ \A pl \in run[p].spec.platforms :
            /\ pl \in LockedPlatforms(lockfile.lock)
            /\ lockfile.lock.hash[pl] = Content(run[p].spec)
            /\ Solves(lockfile.lock, pl)

(* A run that fails, on whichever platform, leaves the lockfile as it was.    *)
AllOrNothing ==
    \A p \in Proc : run[p].pc \in Failures \ {"killed"} => lockfile = run[p].found

(* "Persist packages from original lockfile for platforms not requested for   *)
(* lock" (line 450): what is locked for a platform changes only in a run that *)
(* solves that platform, even when the sources no longer name it.             *)
OthersPersist ==
    [][lockfile.lock # None =>
        \A pl \in LockedPlatforms(lockfile.lock) :
            (\A p \in Proc : pl \notin run[p].solved) =>
                /\ pl \in LockedPlatforms(lockfile'.lock)
                /\ lockfile'.lock.hash[pl] = lockfile.lock.hash[pl]
                /\ On(lockfile'.lock.pkgs, pl) = On(lockfile.lock.pkgs, pl)
      ]_lockfile

(* What the lockfile stands for: the content that was last written whole. *)
StoredChannel == IF lockfile.lock = None THEN None ELSE lockfile.lock.channel

StoredEntries ==
    [pl \in IF lockfile.lock = None THEN {} ELSE LockedPlatforms(lockfile.lock) |->
        [content |-> lockfile.lock.hash[pl], pkgs |-> On(lockfile.lock.pkgs, pl)]]

(* One process that is not killed keeps the promise of LockStore: whatever    *)
(* the sequence of edits, partial runs and updates, the steps of its runs     *)
(* amount to replacing, in one step, the entries of the platforms of one      *)
(* specification by solutions of it ("Persist packages from original lockfile *)
(* for platforms not requested for lock", line 450).                          *)
Store       == INSTANCE LockStore WITH channel <- StoredChannel, locked <- StoredEntries
ActsAsStore == Store!Spec

(* The runs that have replaced an earlier lock. *)
Relocked(r) == r.pc = "done" /\ r.origin # None /\ r.new # None

(* pip_locked is the "previous solution for the given platform"               *)
(* (pypi_solver.py:518): a pip package that is not updated, and whose locked  *)
(* version is still admitted, does not go back to the older version that      *)
(* another platform is locked to.                                             *)
PipNotDowngraded ==
    \A p \in Proc : Relocked(run[p]) =>
        \A x \in run[p].origin.pkgs, y \in run[p].new.pkgs :
            /\ x.platform = y.platform /\ x.name = y.name /\ x.name \in Pip
            /\ x.name \notin Named(run[p].call)
            /\ x.version \in Allowed(run[p].spec.wants, x.name)
            => y.version >= x.version
=============================================================================
