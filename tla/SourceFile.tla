----------------------------- MODULE SourceFile -----------------------------
(***************************************************************************)
(* The parsers of conda_lock/src_parser: what environment.yml, meta.yaml    *)
(* and pyproject.toml ask for on one platform.                              *)
(*                                                                         *)
(* Names, versions, URLs and revisions are numbers.  A selector or a marker *)
(* is stood for by where it holds: "here", on the platform that is parsed   *)
(* for, or "elsewhere".                                                     *)
(***************************************************************************)
EXTENDS Integers, FiniteSets, Sequences, SequencesExt

CONSTANTS
    CondaName, \* pypi_name_to_conda_name: [names -> names]
    PipName,   \* the names of pip
    Python,    \* and of python
    None       \* no selector, no marker, no table

Conda == 1     \* the managers, in the order of their names
Pip   == 2

(* A line of a source file: a requirement in one of the forms that the        *)
(* parsers tell apart, "none" of which are a version, URL, VCS or path.       *)
Forms == {"version", "url", "vcs", "path", "editable", "none"}

Places == {None, "here", "elsewhere"}

Lines(forms, selectors, markers) ==
    [ name : DOMAIN CondaName, version : Nat, form : forms, pypi : BOOLEAN,
      selector : selectors, marker : markers ]

(* What a file may be: conda's lines have no markers, and a TOML file has no  *)
(* selectors and no editable requirements.  The sections of a file that the   *)
(* layout of the file does not have are empty.                                *)
CondaLine == Lines({"version"}, Places, {None})
OwnLine   == Lines({"version"}, {None}, {None})
TomlLine  == Lines(Forms \ {"editable"}, {None}, Places)

IsEnvironment(f) ==
    /\ f.category \in STRING
    /\ f.specs \in Seq(CondaLine) /\ f.pip \in Seq(Lines(Forms, Places, Places))

IsPyproject(f) ==
    /\ f.layout \in {"poetry", "project", "pdm"} /\ f.skip \in BOOLEAN
    /\ f.nonConda \in {Conda, Pip}
    /\ f.main \in Seq(TomlLine) /\ f.own \in Seq(OwnLine)
    /\ \/ f.dev \in Seq(TomlLine) /\ (f.layout = "project" => f.dev = <<>>)
       \/ f.layout = "pdm" /\ f.dev = None
    /\ f.groups \in Seq([name : STRING, entries : Seq(TomlLine)])
    /\ f.extras \in Seq([name : STRING, names : SUBSET DOMAIN CondaName])

IsFile(f) ==
    /\ f.channels \in Seq(STRING) /\ f.repositories \in Seq(STRING)
    /\ \/ f.kind = "environment" /\ IsEnvironment(f)
       \/ f.kind = "meta" /\ f.outputs \in Seq([run : Seq(CondaLine), test : Seq(CondaLine)])
       \/ f.kind = "pyproject" /\ IsPyproject(f)

(* VersionedDependency, URLDependency, VCSDependency or PathDependency *)
Dep(manager, name, category, version, markers) ==
    [ key |-> <<manager, name>>, category |-> category,
      version |-> version, markers |-> markers ]

(* conda_spec_to_versioned_dep *)
CondaDep(e, category) == Dep(Conda, e.name, category, e.version, None)

CondaDeps(entries, category) ==
    [i \in DOMAIN entries |-> CondaDep(entries[i], category)]

(* PyPI names are translated for conda. *)
Translated(manager, n) == IF manager = Conda THEN CondaName[n] ELSE n

(* parse_python_requirement *)
PythonDep(e, manager, category) ==
    Dep(manager, Translated(manager, e.name), category, e.version, e.marker)

PythonDeps(entries, manager, category) ==
    [i \in DOMAIN entries |-> PythonDep(entries[i], manager, category)]

(* The members of S among the elements of s, in their order. *)
Filtered(s, S) ==
    FlattenSeq([i \in DOMAIN s |-> IF s[i] \in S THEN <<s[i]>> ELSE <<>>])

(* evaluate_marker *)
Evaluated(deps) == Filtered(deps, {d \in ToSet(deps) : d.markers # "elsewhere"})

(* Mutant of Kept: selectors are comments. *)
KeptAll(entries) == entries

(* filter_platform_selectors *)
Kept(entries) == Filtered(entries, {e \in ToSet(entries) : e.selector # "elsewhere"})

(* A list all of whose lines are filtered out is no list any more, and the   *)
(* parser raises a TypeError.                                                *)
Emptied(entries) == entries # <<>> /\ Kept(entries) = <<>>

(* The first nodefaults is removed. *)
Channels(f) == RemoveFirst(f.channels, "nodefaults")

-----------------------------------------------------------------------------
(* A file is parsed to one of a set of sequences of dependencies: to none if *)
(* the parser raises, and to several if their order depends on the order of  *)
(* a set of strings, which differs from process to process.                  *)

(* "ensure pip is in target env" *)
PipItself == Dep(Conda, CondaName[PipName], "main", 0, None)

(* _parse_environment_file_for_platform *)
Environment(f) ==
    LET pip == Filtered(Kept(f.pip), {e \in ToSet(f.pip) : e.form # "editable"})
    IN  IF Emptied(f.specs) /\ f.pip = <<>> THEN {}
        ELSE {CondaDeps(Kept(f.specs), f.category)
              \o (IF Kept(f.pip) = <<>> THEN <<>>
                  ELSE Append(Evaluated(PythonDeps(pip, Pip, f.category)), PipItself))}

(* _parse_meta_yaml_file_for_platform, of a recipe and its outputs.  What is  *)
(* required to build is not asked for; host stands with run.                  *)
Meta(f) ==
    IF \E i \in DOMAIN f.outputs : Emptied(f.outputs[i].run) \/ Emptied(f.outputs[i].test)
    THEN {}
    ELSE {FlattenSeq([i \in DOMAIN f.outputs |->
              CondaDeps(Kept(f.outputs[i].run), "main")
                  \o CondaDeps(Kept(f.outputs[i].test), "dev")])}

(* specification_with_dependencies: what [tool.conda-lock.dependencies] adds, *)
(* and what it wants of PyPI, under the name that a dependency has by now.    *)
Finished(f, deps) ==
    LET all    == deps \o CondaDeps(f.own, "main")
        forced == [i \in DOMAIN all |->
                      IF all[i].key[2] \in f.forced THEN [all[i] EXCEPT !.key[1] = Pip] ELSE all[i]]
    IN  Evaluated(forced)

(* handle_mapping: only a version can be left to conda. *)
PoetryManager(f, e) ==
    IF e.form # "version" \/ e.pypi THEN Pip
    ELSE IF e.name = Python THEN Conda ELSE f.nonConda

(* dep_to_extra: the last extra that names it. *)
ExtrasOf(f, n) == {i \in DOMAIN f.extras : n \in f.extras[i].names}

PoetryCategory(f, e, default) ==
    IF ExtrasOf(f, e.name) = {} THEN default
    ELSE f.extras[CHOOSE i \in ExtrasOf(f, e.name) : \A j \in ExtrasOf(f, e.name) : j <= i].name

(* parse_poetry_pyproject_toml: a dependency on a repository or on a path is  *)
(* not told its category.                                                     *)
PoetryDep(f, e, default) ==
    PythonDep(e, PoetryManager(f, e),
              IF e.form \in {"vcs", "path"} THEN "main" ELSE PoetryCategory(f, e, default))

PoetrySections(f) ==
    <<[name |-> "main", entries |-> f.main], [name |-> "dev", entries |-> f.dev]>> \o f.groups

Poetry(f) ==
    LET sections == PoetrySections(f)
    IN  IF \E s \in ToSet(sections) : \E e \in ToSet(s.entries) : e.form = "none" THEN {}
        ELSE {Finished(f, FlattenSeq([i \in DOMAIN sections |->
                 [j \in DOMAIN sections[i].entries |->
                     PoetryDep(f, sections[i].entries[j], sections[i].name)]]))}

(* parse_requirements_pyproject_toml: the groups of optional dependencies are *)
(* gone through in the order of two sets.                                     *)
DevTags == {"dev", "test"}

SectionDeps(f, s) ==
    PythonDeps(s.entries, f.nonConda, IF s.name \in DevTags THEN "dev" ELSE s.name)

Requirements(f) ==
    LET dev    == {i \in DOMAIN f.groups : f.groups[i].name \in DevTags}
        Orders == {o \in SetToSeqs(DOMAIN f.groups) :
                       \A k, l \in DOMAIN o : k < l /\ o[l] \in dev => o[k] \in dev}
    IN  {Finished(f, PythonDeps(f.main, f.nonConda, "main")
                 \o FlattenSeq([k \in DOMAIN o |-> SectionDeps(f, f.groups[o[k]])])) : o \in Orders}

(* parse_pdm_pyproject_toml: what it adds goes past Finished.  Without the    *)
(* table it raises.                                                           *)
Pdm(f) ==
    IF f.dev = None THEN {}
    ELSE {deps \o PythonDeps(f.dev, f.nonConda, "dev") : deps \in Requirements(f)}

(* parse_pyproject_toml: layout is what its probes make of the file. *)
Pyproject(f) ==
    IF f.skip THEN {Finished(f, <<>>)}
    ELSE CASE f.layout = "poetry"  -> Poetry(f)
           [] f.layout = "project" -> Requirements(f)
           [] f.layout = "pdm"     -> Pdm(f)

(* _parse_source_files, of one file *)
Parses(f) ==
    {[deps |-> deps, channels |-> Channels(f), repositories |-> f.repositories] :
        deps \in CASE f.kind = "environment" -> Environment(f)
                   [] f.kind = "meta"        -> Meta(f)
                   [] f.kind = "pyproject"   -> Pyproject(f)}

-----------------------------------------------------------------------------
(* What a reader of the docs takes a file to ask for: its requirements with   *)
(* the categories that are theirs.                                            *)
Requirement(e, categories) == [entry |-> e, categories |-> categories]

InSection(f, s) ==
    {Requirement(e, IF f.layout = "poetry"
                    THEN IF ExtrasOf(f, e.name) = {} THEN {s.name}
                         ELSE {f.extras[i].name : i \in ExtrasOf(f, e.name)}
                    ELSE {IF s.name \in DevTags THEN "dev" ELSE s.name}) : e \in ToSet(s.entries)}

Declared(f) ==
    CASE f.kind = "environment" ->
            {Requirement(e, {f.category}) : e \in ToSet(f.specs \o f.pip)}
      [] f.kind = "meta" ->
            UNION {{Requirement(e, {"main"}) : e \in ToSet(p.run)}
                   \union {Requirement(e, {"dev"}) : e \in ToSet(p.test)} : p \in ToSet(f.outputs)}
      [] f.kind = "pyproject" ->
            {Requirement(e, {"main"}) : e \in ToSet(f.own)}
            \union IF f.skip THEN {}
                   ELSE UNION {InSection(f, s) : s \in ToSet(PoetrySections(f))}

(* Whether a requirement is one for this platform, and for the lockfile. *)
AppliesHere(e) == e.selector # "elsewhere" /\ e.marker # "elsewhere" /\ e.form # "editable"

(* A dependency is what a requirement has become.  Poetry's on a repository   *)
(* or a path are in main, wherever they are declared.                         *)
StandsFor(f, dep, r) ==
    /\ dep.version = r.entry.version
    /\ dep.key[2] \in {r.entry.name, CondaName[r.entry.name]}
    /\ \/ dep.category \in r.categories
       \/ /\ f.kind = "pyproject" /\ f.layout = "poetry"
          /\ r.entry.form \in {"vcs", "path"} /\ dep.category = "main"

(* Requirements of which no marker is evaluated. *)
Unmarked(f) == IF f.kind = "pyproject" /\ f.layout = "pdm" THEN ToSet(f.dev) ELSE {}

(* The groups of which nobody knows the order name something twice. *)
InTwoGroups(f) ==
    /\ f.kind = "pyproject" /\ ~f.skip /\ f.layout # "poetry"
    /\ \E i, j \in DOMAIN f.groups :
        /\ i # j
        /\ \E e \in ToSet(f.groups[i].entries), x \in ToSet(f.groups[j].entries) :
               CondaName[e.name] = CondaName[x.name]
=============================================================================
