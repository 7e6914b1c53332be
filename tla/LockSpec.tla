------------------------------ MODULE LockSpec ------------------------------
(***************************************************************************)
(* What is to be locked, and whether it has been: make_lock_spec             *)
(* (src_parser/__init__.py) parses and aggregates the source files,          *)
(* content_hash.py hashes the outcome, and make_lock_files does not solve a  *)
(* platform again if the hash in the lockfile is one that this, or an        *)
(* earlier, release computes.  One platform is modelled, and a hash is what  *)
(* is hashed.                                                                *)
(***************************************************************************)
EXTENDS SourceFile

CONSTANTS
    Files,       \* the source files
    MaxFiles,    \* bound: source files
    Filters,     \* filtered_categories: None or a set of categories
    Overrides,   \* channel_overrides: sequences of channels
    Repos,       \* the virtual packages: sets of [name, version, build, numbered]
    Osx10,       \* the virtual packages __osx 10.15 and
    Osx11,       \* __osx 11.0
    OsxPlatform  \* whether the platform is osx-64

(* The entries of the virtual packages' repodata, as they are built now. *)
VirtualPackage == [name : STRING, version : Nat, build : STRING, numbered : {FALSE}]

ASSUME LockSpecAssumption ==
    /\ MaxFiles \in Nat \ {0} /\ OsxPlatform \in BOOLEAN
    /\ \A n \in DOMAIN CondaName : n \in Nat /\ CondaName[n] \in Nat
    /\ PipName \in DOMAIN CondaName /\ None # "elsewhere"
    /\ \A f \in Files : IsFile(f)
    /\ Overrides \subseteq Seq(STRING)
    /\ Repos \subseteq SUBSET VirtualPackage
    /\ {Osx10, Osx11} \subseteq VirtualPackage /\ Osx10 # Osx11

VARIABLES
    sources,   \* [files, filter, overrides, repo]: the arguments of make_lock_files
    parsed,    \* what the parsers have last made of the files
    recorded,  \* the content hash in the lockfile
    locked,    \* [sources, parsed]: what it was computed for
    outcome    \* "none", "locked", "edited", or how a call has ended

vars == <<sources, parsed, recorded, locked, outcome>>

-----------------------------------------------------------------------------
(* aggregation.py *)

NoDeps == [k \in {} |-> None]

(* Mutant of Collect: the first source file that names a package wins. *)
CollectFirst(unique, dep) ==
    [k \in DOMAIN unique \union {dep.key} |-> IF k \in DOMAIN unique THEN unique[k] ELSE dep]

(* unique_deps[key] = dep *)
Collect(unique, dep) ==
    [k \in DOMAIN unique \union {dep.key} |-> IF k = dep.key THEN dep ELSE unique[k]]

Chained(contents) == FlattenSeq([i \in DOMAIN contents |-> contents[i].deps])

Aggregated(contents) ==
    LET all == Chained(contents)
        unique[i \in 0 .. Len(all)] == IF i = 0 THEN NoDeps ELSE Collect(unique[i - 1], all[i])
    IN  unique[Len(all)]

(* unify_package_sources: max takes the first of the longest. *)
Longest(lists) ==
    lists[CHOOSE i \in DOMAIN lists :
        /\ \A j \in DOMAIN lists : Len(lists[j]) <= Len(lists[i])
        /\ \A j \in 1 .. i - 1 : Len(lists[j]) < Len(lists[i])]

LastOf(list, n) == SubSeq(list, Len(list) - n + 1, Len(list))

(* Mutant of Unifiable: the lists agree at their beginning. *)
UnifiableAtFront(lists) ==
    \A i \in DOMAIN lists : lists[i] = SubSeq(Longest(lists), 1, Len(lists[i]))

Unifiable(lists) ==
    \A i \in DOMAIN lists : lists[i] = LastOf(Longest(lists), Len(lists[i]))

ChannelsOf(contents)     == [i \in DOMAIN contents |-> contents[i].channels]
RepositoriesOf(contents) == [i \in DOMAIN contents |-> contents[i].repositories]

(* aggregate_lock_specs unifies the channels, then the pip repositories. *)
CanUnify(contents) == Unifiable(ChannelsOf(contents)) /\ Unifiable(RepositoriesOf(contents))

-----------------------------------------------------------------------------
(* make_lock_spec: the files are parsed, each in one of the ways in which it  *)
(* can be; they are unified even if the channels are overridden, and what is  *)
(* filtered is the dependency that won.  make_lock_files overrides no pip      *)
(* repositories.                                                              *)

ParseSourceFiles(files) ==
    {contents \in [DOMAIN files -> UNION {Parses(files[i]) : i \in DOMAIN files}] :
        \A i \in DOMAIN files : contents[i] \in Parses(files[i])}

Fits(dep, filter) == filter = None \/ dep.category \in filter

MakeLockSpec(s, contents) ==
    LET unique == Aggregated(contents)
    IN  [ deps     |-> [k \in {l \in DOMAIN unique : Fits(unique[l], s.filter)} |-> unique[k]],
          channels |-> IF s.overrides # <<>> THEN s.overrides ELSE Longest(ChannelsOf(contents)),
          repositories |-> Longest(RepositoriesOf(contents)) ]

-----------------------------------------------------------------------------
(* content_hash.py *)

(* sorted by manager and name *)
Before(k, l) == k[1] < l[1] \/ (k[1] = l[1] /\ k[2] < l[2])
SortedKeys(S) ==
    [i \in 1 .. Cardinality(S) |->
        CHOOSE k \in S : Cardinality({l \in S : Before(l, k)}) = i - 1]

(* _remove_new_nulls, of a dependency *)
NullsRemoved(dep) ==
    [k \in {f \in DOMAIN dep : f = "markers" => dep.markers # None} |-> dep[k]]

(* _content_for_platform; without pip repositories there is no key for them,  *)
(* which tells as much as the empty sequence.                                 *)
Content(spec, repo, removeNulls) ==
    LET keys == SortedKeys(DOMAIN spec.deps)
    IN  [ channels     |-> spec.channels,
          repositories |-> spec.repositories,
          specs        |-> [i \in DOMAIN keys |->
                           IF removeNulls THEN NullsRemoved(spec.deps[keys[i]])
                           ELSE spec.deps[keys[i]]],
          virtual      |-> repo ]

(* _reinsert_spurious_build_number renames the entries that have a build     *)
(* string; an entry that has its new name already is deleted.                *)
Numbered(repo) ==
    {p \in repo : p.build = ""}
    \union {[p EXCEPT !.numbered = TRUE] : p \in {q \in repo : q.build # "" /\ ~q.numbered}}

(* add_or_remove_osx_10_15_0_tar_bz2 *)
Toggled(repo) == IF Osx10 \in repo THEN repo \ {Osx10} ELSE repo \union {Osx10}

OsxVariants(repo) == {repo} \union (IF OsxPlatform /\ Osx11 \in repo THEN {Toggled(repo)} ELSE {})

(* Mutant of Variants: each difference is allowed for, but not both of them. *)
VariantsOneByOne(repo) == OsxVariants(repo) \union {Numbered(repo)}

Variants(repo) == OsxVariants(repo) \union {Numbered(r) : r \in OsxVariants(repo)}

(* backwards_compatible_content_hashes *)
Accepted(spec, repo) ==
    {Content(spec, r, nulls) : r \in Variants(repo), nulls \in BOOLEAN}

(* compute_content_hashes, in the forms that this and earlier releases use.  *)
Computed(spec, repo, reinsert, removeNulls) ==
    Content(spec, IF reinsert THEN Numbered(repo) ELSE repo, removeNulls)

-----------------------------------------------------------------------------
Lists(n) == UNION {[1 .. m -> Files] : m \in 1 .. n}

Init ==
    /\ sources \in [files : Lists(MaxFiles), filter : Filters, overrides : Overrides, repo : Repos]
    /\ parsed = <<>> /\ recorded = None /\ locked = None
    /\ outcome = "none"

(* make_lock_files without a lockfile, of a release that hashes in one way.   *)
(* An earlier one may have had the other of the two osx packages.            *)
Lock(reinsert, removeNulls) ==
    /\ outcome = "none"
    /\ \E contents \in ParseSourceFiles(sources.files), repo \in OsxVariants(sources.repo) :
           /\ CanUnify(contents)
           /\ parsed' = contents
           /\ recorded' = Computed(MakeLockSpec(sources, contents), repo, reinsert, removeNulls)
           /\ locked' = [sources |-> sources, parsed |-> contents]
    /\ outcome' = "locked"
    /\ UNCHANGED sources

ParserRaises ==
    /\ outcome \in {"none", "edited"} /\ ParseSourceFiles(sources.files) = {}
    /\ outcome' = "raised"
    /\ UNCHANGED <<sources, parsed, recorded, locked>>

Refuse ==
    /\ outcome \in {"none", "edited"}
    /\ \E contents \in ParseSourceFiles(sources.files) :
           ~CanUnify(contents) /\ parsed' = contents
    /\ outcome' = "ChannelAggregationError"
    /\ UNCHANGED <<sources, recorded, locked>>

(* One of the arguments or of the files becomes another, or the files are put *)
(* in another order.                                                          *)
Edit ==
    /\ outcome = "locked"
    /\ \/ \E i \in DOMAIN sources.files, f \in Files : sources' = [sources EXCEPT !.files[i] = f]
       \/ sources' = [sources EXCEPT !.files = Reverse(@)]
       \/ \E f \in Filters   : sources' = [sources EXCEPT !.filter = f]
       \/ \E o \in Overrides : sources' = [sources EXCEPT !.overrides = o]
       \/ \E r \in Repos     : sources' = [sources EXCEPT !.repo = r]
    /\ outcome' = "edited"
    /\ UNCHANGED <<parsed, recorded, locked>>

(* make_lock_files with the lockfile and check_input_hash *)
Check ==
    /\ outcome = "edited"
    /\ \E contents \in ParseSourceFiles(sources.files) :
           /\ CanUnify(contents)
           /\ parsed' = contents
           /\ outcome' = IF recorded \in Accepted(MakeLockSpec(sources, contents), sources.repo)
                         THEN "skipped" ELSE "relocked"
    /\ UNCHANGED <<sources, recorded, locked>>

Next ==
    \/ \E reinsert, removeNulls \in BOOLEAN : Lock(reinsert, removeNulls)
    \/ ParserRaises \/ Refuse \/ Edit \/ Check

Spec == Init /\ [][Next]_vars

-----------------------------------------------------------------------------
(* The calls that have parsed the files as they are. *)
Parsed == outcome \in {"locked", "skipped", "relocked", "ChannelAggregationError"}

(* Each requirement that a file declares for this platform is one of its      *)
(* dependencies, in its version and in the category of the section or the     *)
(* extra it is in, and each dependency is such a requirement: in whatever     *)
(* order the groups are read, no selector or marker that holds loses one, and *)
(* none that does not hold lets one in (but PDM's dev-dependencies, which     *)
(* are added after the markers were evaluated).                               *)
DeclaredIsThere ==
    Parsed => \A i \in DOMAIN parsed :
        LET f    == sources.files[i]
            deps == ToSet(parsed[i].deps)
        IN  /\ \A r \in Declared(f) :
                AppliesHere(r.entry) => \E d \in deps : StandsFor(f, d, r)
            /\ \A d \in deps \ {PipItself} : \E r \in Declared(f) :
                /\ StandsFor(f, d, r)
                /\ AppliesHere(r.entry) \/ r.entry \in Unmarked(f)

(* What the files say of a package is what the last file that names it says.  *)
Says(contents, k) ==
    LET all   == Chained(contents)
        named == {i \in DOMAIN all : all[i].key = k}
    IN  IF named = {} THEN None ELSE all[CHOOSE i \in named : \A j \in named : j <= i]

Keys(contents) == {Chained(contents)[i].key : i \in DOMAIN Chained(contents)}

(* The last source file that names a package, for conda or for pip, decides   *)
(* on it (test_aggregate_lock_specs_override_version), and also whether its   *)
(* category is filtered out; nothing that a file names is lost otherwise.  A  *)
(* file with a pip section names pip itself, after whatever it says of pip.   *)
LastSourceWins ==
    Parsed =>
        LET deps == MakeLockSpec(sources, parsed).deps
        IN  /\ DOMAIN deps \subseteq Keys(parsed)
            /\ \A k \in Keys(parsed) :
                IF Fits(Says(parsed, k), sources.filter)
                THEN k \in DOMAIN deps /\ deps[k] = Says(parsed, k)
                ELSE k \notin DOMAIN deps

(* "between any two lock specs, the package sources must be identical or one  *)
(* must be an extension of the other" (aggregation.py:79): the files are       *)
(* refused if and only if two of them are not, by their channels or by their   *)
(* pip repositories, in whatever order they come, and no channel or repository *)
(* gets a priority over another that a file denies it.                         *)
SourcesUnified ==
    LET channels == [i \in DOMAIN sources.files |-> Channels(sources.files[i])]
        repos    == [i \in DOMAIN sources.files |-> sources.files[i].repositories]
        spec     == MakeLockSpec(sources, parsed)
        Compatible(lists) == \A i, j \in DOMAIN lists :
                                 IsSuffix(lists[i], lists[j]) \/ IsSuffix(lists[j], lists[i])
    IN  /\ outcome = "ChannelAggregationError" => ~(Compatible(channels) /\ Compatible(repos))
        /\ outcome \in {"locked", "skipped", "relocked"} =>
               /\ Compatible(channels) /\ Compatible(repos)
               /\ \A i \in DOMAIN repos :
                      /\ sources.overrides = <<>> => IsSuffix(channels[i], spec.channels)
                      /\ IsSuffix(repos[i], spec.repositories)

(* What conda sees of the virtual packages: of two __osx, the newer one. *)
Effective(repo) == IF OsxPlatform /\ Osx11 \in repo THEN repo \ {Osx10} ELSE repo

Meaning(s, contents) == <<MakeLockSpec(s, contents), Effective(s.repo)>>

(* The solve is skipped if and only if what is to be locked is what was        *)
(* locked: however an earlier release hashed it, whichever file says it and    *)
(* in whatever order, and never if a version, a category, a marker, a channel, *)
(* a pip repository or a virtual package has changed.  What has not been edited is solved again *)
(* only if a package is in two of the groups that are read in any order.       *)
SkippedIffTheSame ==
    outcome \in {"skipped", "relocked"} =>
        /\ outcome = "skipped" <=> Meaning(sources, parsed) = Meaning(locked.sources, locked.parsed)
        /\ outcome = "relocked" /\ sources = locked.sources =>
               \E i \in DOMAIN sources.files : InTwoGroups(sources.files[i])
=============================================================================
