# conda-lock, specified in TLA+

conda-lock turns environment specifications (`environment.yml`, `meta.yaml`,
`pyproject.toml`) into a lockfile that names every package of every platform
exactly. This directory holds TLA+ models of the parts of it whose behaviour is
hard to test, the TLC configurations that check them and TLAPS proofs about
them. Paths below are those of the repository; line numbers refer to the commit
the models were written from.

`PROJECT.json` holds the machine-readable side: which definition stands for
which lines, the runs, the mutants, the findings, the hazards and the theorems.

## 1. The system

| component | state | operations | talks to | hard because |
|---|---|---|---|---|
| lock pipeline, `conda_lock.py` `make_lock_files` | the lockfile on disk; nothing in memory outlives a run | decide what to solve, solve per platform, merge, rewrite | all below | several runs over one file; partial updates; failures half way; kills; truncating write |
| category propagation, `lockfile/__init__.py` `apply_categories` | `dependents`, a work list, the packages' categories | walk, assign, truncate | called by both solvers | cycles, several packages per name, two name spaces |
| lookup cache, `lookup_cache.py` | a directory of files, ETags and lock files, shared by processes | clear, lock, check, request, write | the server of the PyPI-to-conda mapping | concurrency, clearing without the lock, kills, clocks |
| conda solver, `conda_solver.py` | a fake environment, conda's package cache | solve, update, reconstruct FETCH actions | the conda executable | two solve paths; three executables with different semantics; retries |
| PyPI solver, `pypi_solver.py` | none | solve with locked packages | vendored Poetry | what is offered as locked, per platform |
| lockfile formats, `lockfile/v1`, `lockfile/v2prelim` | none | parse, merge, convert, sort | pipeline | several entries per package; merging of metadata |
| content hash, `content_hash.py` | none | compute, compare with earlier conventions | pipeline | compatibility |
| topological sort, vendored | a dict that it consumes | sort, break cycles | formats | cycles |
| conda invocation, `invoke_conda.py` | two pipes, two threads | run, drain, report | child process | deadlock of pipes |
| virtual packages, `virtual_package.py` | `os.environ`, a fake channel | enter, exit | conda solver | restore on every path |
| temporary directories, `tempdir_manager.py` | thread-local flags and lists, `atexit` | create, track, clean up | everybody | threads against exit handlers |
| source parsing and aggregation, `src_parser/` | none | parse, select, aggregate | pipeline | order of files, channel order |
| name lookup, `lookup.py` | a memoised table | translate | lookup cache | |
| channels and repositories, `models/` | none | normalise URLs | solvers | |
| rendering, installing, command line, `conda_lock.py` | output files | render, install | formats | |
| export, `export_lock_spec.py` | none | convert | pixi | |

How a run goes: the command line calls `run_lock`, which calls
`make_lock_files`. That reads the sources (`src_parser`), the lockfile
(`lockfile`) and the virtual packages, and compares content hashes. For each
platform to lock, `_solve_for_arch` calls `solve_conda` (which calls the conda
executable, through a fake environment when it updates) and then `solve_pypi`
(which runs Poetry on top of conda's result). Each of them ends with
`apply_categories`, which looks up names through `lookup`, whose table comes
through the lookup cache. The results of the platforms are merged into the
earlier lockfile, sorted and written. The override of the virtual packages' environment
variables (`FakeRepoData`) is around all this from the comparison of
hashes on, the rendering included (`conda_lock.py:382-500`).

What makes each part correct:

* pipeline: the lockfile is honest (its hashes are of specifications that its
  packages solve), never mixes channels, loses nothing for the platforms a run
  does not solve, and is left alone by a run that fails;
* categories: a package gets exactly the categories of the requests that reach
  it, since one without a category is not written at all;
* cache: no half file, no outdated file, nothing vouched for that is not there,
  and no call that never ends;
* conda solver: the plan is the solution, package by package, whatever conda
  fetched, found in a cache or left alone, and no record is lost on the way;
* specification: what a file declares for a platform is asked for, in its
  category; the last file wins; channels and pip repositories are never reordered;
  a solve is skipped if and only if nothing that matters has changed;
* rendering: files do not overwrite each other, are complete for any choice of
  categories, and list packages in an order in which they can be linked;
* installing: no deadlock of pipes, no line of output lost, no failure reported
  as success, no temporary file gone before its reader or left behind.

## 2. The modules

| module | extends | what it is |
|---|---|---|
| `ApplyCategories` | | `apply_categories` as a state machine |
| `MCApply` | `ApplyCategories` | its instances, as either solver calls it |
| `ApplyCategoriesProofs` | `ApplyCategories`, `TLAPS` | theorems |
| `LookupCache` | | `cached_download_file` by several processes |
| `MCLookupCache` | `LookupCache` | instances |
| `LookupCacheProofs` | `LookupCache`, `TLAPS` | theorems |
| `LockStore` | | what a lockfile promises: the abstract specification |
| `MakeLockFiles` | | `make_lock_files` by one or more processes; it implements `LockStore` (`ActsAsStore`) |
| `MCMakeLockFiles` | `MakeLockFiles` | instances |
| `MakeLockFilesProofs` | `MakeLockFiles`, `TLAPS` | theorems, the refinement among them |
| `CondaSolve` | | `solve_conda` with the package caches |
| `MCCondaSolve` | `CondaSolve` | instances |
| `CondaSolveProofs` | `CondaSolve`, `TLAPS` | theorems |
| `SourceFile` | | the parsers, as operators from a file to its dependencies |
| `LockSpec` | `SourceFile` | aggregation, content hash and the decision to solve |
| `MCLockSpec` | `LockSpec` | instances: files of all kinds |
| `LockSpecProofs` | `LockSpec`, `TLAPS` | theorems |
| `Toposort` | | the vendored sort, as a state machine over its dict |
| `ToposortProofs` | `Toposort`, `TLAPS` | theorems |
| `Render` | | `do_render`, composed with an instance of `Toposort` |
| `MCRender` | `Render` | instances |
| `RenderProofs` | `Render`, `TLAPS` | theorems; it uses those of an instance of `ToposortProofs` |
| `InvokeConda` | | a child process, two pipes, two threads |
| `Install` | `InvokeConda` | the install command, which invokes twice, and its temporary files |
| `MCInstall` | `Install` | instances |
| `InstallProofs` | `Install`, `TLAPS` | theorems |

Definitions whose comment begins "Mutant of" are alternative, faulty versions of
the definition that follows. No run uses them; substituted for that definition
they make the property named in `PROJECT.json` fail, which shows that the
property depends on the code.

### ApplyCategories

One behaviour is one call. Its arguments are a record `plan` that never changes,
taken from the constant `Plans`: the packages of the solution, their
dependencies, the requests with their categories, and the categories set before
(by `solve_conda`, when `solve_pypi` calls). `plan.convert` is
`convert_to_pip_names`: with it, packages are filed under translated names,
several under one, and the lookup of line 87 filters them.

| action | code |
|---|---|
| `StartRequest` | the `for` of line 104, in any order of the requests |
| `Extract` | lines 115-121; the name joins `deps` after its packages were taken |
| `ExtractMissing` | the `KeyError` of line 38 |
| `Expand` | lines 123-131, one package at a time, in any order of its dependencies |
| `Pop`, `FinishRequest` | lines 132-137 |
| `Assign` | lines 139-165: roots, categories, truncation |

Names are model values. The two replacements of separators and the translation
of names are constant functions, so the proofs hold for any. A package of
`planned` is found under `KeyOf`, the key under which the callers file it.
`request.name`, by which line 139 collects the roots, is the key of `requested`
at both callers.

`Reach(r)` is the specification: the least set of names with `r` closed under
"some package of this name depends on", and `Expected(p)` the categories that
follow from it. They are defined without the walk, as an intersection of closed
sets.

### LookupCache

`dir` maps the three paths of a URL to a file with an inode, contents and a
modification time; `call[p]` holds a process's place in the code and its local
variables. A lock belongs to an inode, so does an open file, and both survive
the path: that is what clearing files without the lock is about.

| action | code |
|---|---|
| `Start`, `ClearStat`, `ClearUnlink`, `ClearDone` | `clear_old_files_from_cache`, where the age and the unlink are two steps |
| `LockOpen`, `LockAcquire`, `LockRetry` | `FileLock` and the loop of lines 65-79 |
| `CheckIsFile`, `CheckAge` | `_is_cached_file_fresh` |
| `FindTag`, `ReadTag` | lines 130-132 |
| `Request304`, `Request200`, `RequestFails` | lines 135-139 and the server |
| `WriteOpen`, `WriteBytes`, `WriteTag`, `ReadBytes` | lines 140-146 and 126 |
| `Kill`, `Publish`, `Tick` | environment |

Contents and ETags are version numbers, `Truncated` what a file holds between
`open(..., "w")` and the write. filelock is external: it opens the lock file with
`O_TRUNC`, which renews its modification time, and locks without blocking; its
poll and the `Timeout` that starts the loop over are one action, `LockRetry`,
because nothing depends on which of them happens.

Clocks disagree: a file may be dated up to `Skew` ahead when it is written
(`Stamps`), and one that was there before may be dated anywhere in `Future`. `Age`
takes an age for 0 that is negative by no more than `Resolution`, the 5 seconds
of `TIMESTAMP_RESOLUTION_SECONDS` (line 23); one that is more negative is neither
fresh (line 100) nor left in place by the clearing (line 191).

### MakeLockFiles

`lockfile.state` says whether the file is absent, empty, cut or whole, and
`lockfile.lock` what was last written whole; it is read only when the state is
"whole". A lock has one channel (list), a hash per platform, and a set of
packages; `metadata.platforms` is the domain of the hashes, since both are made
from the platforms of the same specification (lines 948-956).

| action | code |
|---|---|
| `Begin` | `make_lock_spec`; the platforms of the sources or of `-p` |
| `Load` | lines 345-356 with the exceptions of `parse_conda_lock_file` |
| `RefuseChannels`, `Decide` | lines 385-420 |
| `Solve`, `SolveFails` | `_solve_for_arch` of one platform: both solvers |
| `Merge`, `MergeRaises` | lines 447-460, `Lockfile.merge`, `LockMeta.__or__` |
| `Open`, `Dump` | `write_conda_lock_file` |
| `Edit`, `Publish`, `Kill` | environment; a publication may fall between two platforms |

The solvers are external and represented by what they are given and what they
give back. A constraint is the set of versions it admits. A solve from scratch
takes the newest admissible version of what is needed. An update takes the
newest admissible version of what is named and keeps the rest of the locked
packages: the semantics the code aims at for all three executables (comment at
`conda_solver.py:435-446`). Packages that no request reaches lose their
categories and are not written, as `ApplyCategories` and `to_v1` make it.
Poetry keeps a locked version the constraint admits unless it is named. `Outcome`
tells apart, in the order of the code, what `_solve_for_arch` raises: a solver that
finds nothing, a `KeyError`, and the `ValueError` "Got pip specs without Python"
(line 807), which comes between the two solvers.

A content hash is represented by what is hashed: no collisions, and the virtual
packages constant. `update=None` and `update=()` differ in the code, so they
differ here (`NoUpdate` and `{}`): the command line can only say the second.
What two interleaved writers leave is either whole or damaged; that a damaged
file is mistaken for a whole one is not modelled.

### LockStore

A store with an entry per platform. A run replaces the entries of the platforms
of one specification, in one step, by packages that solve it, and touches no
other; the channels of the first run stay. `MakeLockFiles!Store` maps the
lockfile to it: whatever the run has read, decided or solved so far is a stutter,
and `Dump` is the step. An absent, empty or damaged file is the empty store.

### CondaSolve

One behaviour is one call of `solve_conda`, for one platform.

| action | code |
|---|---|
| `Create`, `NothingToCreate` | `solve_specs_for_arch` and conda's answer; an answer without "actions", which line 244 indexes |
| `List`, `ListAgain` | `_get_installed_conda_packages` with its second try; the specs of line 432 |
| `Update`, `Merge` | the update, mamba's pins, and lines 498-510 |
| `PkgsDirs`, `NextRecord`, `Found`, `NextDir`, `Sleep`, `GiveUp`, `Read` | `_reconstruct_fetch_actions`, `_get_repodata_record` |
| `Plan` | the plan and `apply_categories` |
| `CondaFails` | any of conda's processes: not 0 (`NotZero`), not JSON (`NotJSON`) |
| `Unrecognised` | the `ValueError`s of lines 225-230 and 259-270 |
| `Extract` | another process, which extracts a package into one of the caches |

Conda is external: its answer is any set of versions that holds what it was asked
for and what that requires, with any part of it in FETCH. Its answer to an update
may lack a key whose list is empty, and may remove a package. The caches are
arbitrary when a record is first looked for. The fake environment of an update is
a temporary directory of its own, and the virtual packages' environment variables
are overridden and restored outside, by `make_lock_files`; neither is modelled.

### SourceFile and LockSpec

`SourceFile` has an operator per parser: a file is a record of its sections, a
requirement a record of its name, version, form, selector and marker, and
`Parses(f)` the set of what the parser may make of the file. It is a set because
PEP 621 groups are read in the order of a set of strings, and is empty when the
parser raises. `IsFile` says what a file may be: which lines carry selectors and
which markers, which sections a layout has. Whatever filters a list is `Filtered`.
`LockSpec` parses a list of files, aggregates, filters and hashes. Pip repositories
come from some files, are unified as channels are (`Unifiable`; one error stands for
the two), and are in what is hashed if there are any.

| action | code |
|---|---|
| `Lock` | a run without a lockfile, of this release or of one that hashed in another way |
| `Edit` | environment: one file, their order, the filter, the overrides or the virtual packages |
| `Check` | a run with the lockfile and `check_input_hash` |
| `ParserRaises`, `Refuse` | the exceptions of parsers and of `unify_package_sources` |

The properties do not use the parsers' definitions: `Declared(f)` says what a
file declares, section by section, and `StandsFor` what may represent it.
`SkippedIffTheSame` compares the meaning of the specification, not its hash.

### Toposort and Render

`Toposort` keeps the dict (`data`), the set of items that a round yields
(`round`) and what was yielded (`out`). `NextRound` and `Yield` are
`_toposort`; `PopKey` is `_safe_toposort` with `pop_key` when a round would be
empty, that is, when the generator ends with `ValueError` and is begun again over
what is left. `Prepared` and `WithoutPip` are the preparation: self-dependencies
dropped, items without an entry added, and `pip` no dependency of python.

| action of `Render` | code |
|---|---|
| `StartCall` | `do_render` up to its loops, with what was locked or with what was read from the file |
| `SkipFile` | lines 569-577 |
| `RenderEnv` | `alphasort_inplace` and the filter |
| `RenderExplicit`, `SortStep`, `SortDone` | `toposort_inplace` by manager and the filter |
| `Open`, `Write`, `EndCall` | lines 588-590 and the end |
| `Relock`, `Kill` | environment: the platform is locked again; the process is killed while it writes |

`Entries` and `Collected` are the conversion between versions 2 and 1 that
writing and reading a lockfile amount to: an entry for each category of a
package, put together again. A file name is a record of the placeholders that
tell names apart, and the number of times it ends in `.yml`. A call is `Refused` for
a template that does not tell several platforms apart, or that ends in the
extension reserved for environment files. `Alphabetical` is `list.sort` and
`Filtered` the loop that keeps, of what was sorted, the packages to be listed.

### InvokeConda and Install

| action | code |
|---|---|
| `Invoke` | `subprocess.Popen` and the start of the thread |
| `ReaderReads`, `ReaderEnds` | `read_stdout` and `_process_stdout` in the thread |
| `MainReads`, `MainAtEnd`, `Join`, `Unwind`, `Judge` | `_stderr_to_log`, `join`, `Popen.__exit__`, the return code |
| `ChildWrites`, `ChildExits`, `BrokenPipe` | the process |
| `Validate`, `RenderLockfile`, `AddAuth` | `install` and `_render_lockfile_for_install` |
| `Create`, `Created`, `RunPip`, `PipEnded` | `do_conda_install` |
| `LeaveFile`, `End` | the contexts of temporary files, left in reverse order, by exceptions too |

A request says of the file what it contains and whether its name ends in `.yml`, by
which alone `do_conda_install` knows it (`TakenForEnv`): a user's `*.yaml` is installed
as an explicit file and an explicit `*.yml` as an environment, and either fails.

A pipe holds a bounded number of lines; who writes to a full one waits. A line is
text, a progress report, blank, the banner or undecodable, the kinds that
`_process_stdout` and the decoder tell apart. `AllOutputCollected` knows lines by
their position in the program: what was collected of a stream is, in their order,
the lines at the positions that count (`Worth` for standard output).

## 3. What is checked

Every property of a passing run has a mutant of the code that breaks it.

| run | bounds | shows |
|---|---|---|
| `apply` | the plans of `MCApply.tla`: all graphs over three conda packages, a choice of graphs over four with translated names; up to three requests | `CategoriesCorrect`, `OnlyNeededWalked`, `KeyErrorJustified`, `Termination`: categories are those of reachability, and the walk ends |
| `cache` | 2 processes, 2 versions, time from 4 (`MaxAge`) to 7, files dated ahead by 1, the tolerance, or far ahead, a lock file too young to be cleared | only whole files, staleness bounded, 304 trusted rightly |
| `cache_ends` | 2 processes, 1 version, kills, a lock file that is old, new or dated far ahead | each call ends |
| `lock_update` | 1 process, 3 runs, 2 platforms, python with a library and a PyPI package, 4 sources, 10 invocations | honesty, one channel, failures change nothing, persistence, success means solved, `ActsAsStore` |
| `lock_concurrent` | 2 processes, 3 runs, kills | `HashHonest` under overwriting and damage |
| `conda_solve` | 3 packages of 2 versions, 2 caches, 3 tries instead of 10 | the plan is the solution or the solve fails, no record is lost on the way or given up early, the solve ends |
| `lock_spec` | 10 files of all kinds, up to 2 at a time, 2 sets of virtual packages, 2 filters, 2 overrides, 1 edit | `DeclaredIsThere`, `LastSourceWins`, `SourcesUnified`, `SkippedIffTheSame` |
| `render` | 2 platforms; all graphs over three conda packages, a pip and a virtual package; 6 kinds of calls, 2 calls, a relock or a kill between them | `RenderedIsCurrent`, `Installable`, `ExplicitInOrder`, `CallEnds` |
| `install` | pipes of one line, every order of four lines on two pipes, and lines treated specially; every request, with files of either kind under either kind of name | `AllOutputCollected`, `ReturnedMeansInstalled`, `FilesLastAsLongAsNeeded`, `InstallEnds` |

Why the bounds are enough.

* Categories: the smallest plans with a cycle, a shared dependency, a virtual
  package, a missing package, two packages of one name and a name in two
  spellings are among those enumerated, and the theorems lift the safety
  properties to all.
* Cache: the errors are races of one process's clearing with another's use,
  which takes two processes. Files of the beginning have every age from 0 to the
  one at which they are cleared, and every negative one that is told apart: within
  the tolerance and beyond it. The clock runs on until what was written during
  the behaviour has ceased to be fresh.
* Lockfile: an inconsistency takes one run to establish what was locked, one to
  lock a part of it under other circumstances, and one to trust the result; two
  platforms, of which one can be left out, and two versions give every case of
  newer, older and same.
* Conda solver: a package may be requested or not, locked or not, changed, kept or
  removed, which three packages combine; two caches show the order of
  directories; the number of tries is a parameter of the loop only.
* Specification: one file shows a parser's rewritings, two show precedence and
  unification, and one edit whether a hash tells two specifications apart. With two
  files "some two disagree" and "some one does not end the longest" nearly coincide;
  `UnifiesSources` is about any number. The
  instances of `SourceFile` are single files with several traps each (a name in
  two groups, an extra that names what a group names, a selector that empties a
  list) rather than a product.
* Rendering: a cycle of two and one of three, with and without something above and
  below, exist over three packages; the sort's order for any graph is proved.
* Installing: a pipe of one line is the smallest that can be full, four lines give
  each pipe a second line while the other is full.

Bounds that cut off behaviour are constants named in the modules: `MaxVersion`,
`MaxTime`, `WriteDelay`, `Skew`, `Future`, `MaxRuns`, `MaxFiles`, `MaxRev`, `MaxCalls`,
`Tries`, `Capacity`. `WriteDelay` and `Skew` are assumptions of `BoundedStaleness`: a
response is written at most that long after it was sent, and what is written is
dated at most that far ahead. Symmetry is used over processes only,
and not with liveness.

Deadlock is not checked except in `apply`: the calls, or the runs that the bound
allows, come to an end, and the liveness properties say that they do not end too
early. In `install` a deadlock of the pipes is a violation of `InstallEnds`.

### Fairness

* `ApplyCategories!FairSpec` is weak fairness of `Next`: one thread of Python that
  nothing blocks.
* `LookupCache!FairSpec` is weak fairness of `Step(p)` for each process that has
  begun: the operating system schedules it. No fairness is assumed of `Start`,
  `Kill`, `Publish` or of the clock. The retry loop needs no more, as each process
  makes one call, so that the lock is taken away from a waiting process finitely
  often; with an endless supply of callers a process could wait for ever, filelock
  having no queue. It supposes that `requests.get`, which is called without a
  timeout (`lookup_cache.py:135`), returns or raises: a server that never answers
  holds the lock, and all other calls, for ever.
* `CondaSolve!FairSpec` is weak fairness of `Caller`, the solver's own steps, and
  none of `Extract`: a record may never come. It supposes that conda's processes,
  which are run without a timeout, end.
* `Render` has weak fairness of `Step`, what a call does, and none of relocking or
  calling again.
* `Install` has weak fairness of the child, of the thread, of the main thread and
  of `install` itself. That the child keeps running when its pipes are drained is
  conda's part. `InstallEnds` supposes that its output can be decoded.

### Where the code differs from what it says

These runs check one property each, taken from the repository's words, and TLC
shows a behaviour that violates it.

| run | words | what happens |
|---|---|---|
| `apply_pip_self` | comment on `dask` and `dask-core`, `lockfile/__init__.py:111` | `dask-core` and `dask` have one PyPI name and `dask` depends on `dask-core`: the walk from that name never ends |
| `lock_pip` | "Previous solution for the given platform", `pypi_solver.py:518` | a platform's pip package goes back to the version of another platform |
| `render_stale` | "Lock content already rendered for {plat}", `conda_lock.py:574` | the file is of another kind, of an earlier revision of the lock or of other categories |

Reading the code for the models showed further disagreements, which need no model
checker to be seen once they are pointed at, and have no run.

The pipeline:

* `conda_lock.py:387`: the command line passes `update` as a tuple, never `None`,
  so that the channel check refuses every run; the message at line 397 advises to
  leave out `--update`, which leads to the same error.
* `conda_lock.py:352`: only `YAMLError` and `FileNotFoundError` are caught, so an
  empty lockfile, which a run killed after `open("w")` leaves, raises an
  `AttributeError` in every later run, where line 353 says "Regenerating from
  scratch".
* `README.md:61` says that the existing lockfile "is used as constraint when
  regenerating the lockfile"; without a package to update, `solve_conda` solves
  from scratch (`conda_solver.py:119`).
* The lockfile's header (`lockfile/__init__.py:243`) offers "--update PACKAGE" to
  "update a single package"; when it is a PyPI package all conda packages are
  solved anew, since `to_update` is empty for them (`conda_solver.py:107`).
* `conda_lock.py:424` reports "Spec hash already locked" of platforms that were
  not asked for and whose hash was not compared.

The lookup cache and the categories:

* `lookup_cache.py:62` says "Wait for any other process" of the lock; a lock file
  old enough is cleared while it is held (line 192), the next process locks another
  inode, and two download. The run `cache`, and the theorems, have a lock file too
  young for that.
* `lookup_cache.py:99`: a file that another process clears between `is_file` and
  its `stat` makes `_is_cached_file_fresh`, which "returns True if the file is
  fresh, False otherwise", raise a `RuntimeError`.
* `lockfile/__init__.py:130` compares raw names with translated ones:
  `msgpack-python` is `msgpack` on PyPI, and where another dependency's raw name
  is `msgpack` one of the two may get no category and is not written.

The conda solver:

* `conda_lock.py:1345` offers `--update` for "Packages to update to their latest
  versions"; a locked package that is not requested, a transitive dependency,
  raises a `KeyError` (`conda_solver.py:432`).
* `conda_solver.py:177-179`: the docstring waits for records that are being
  written; one that is half written is loaded and raises at once, and after the
  last sleep nobody looks again. The first cache that has a record wins, be it of
  another channel.
* `conda_solver.py:498` and `504` use the keys LINK and FETCH as if they were
  there, where `_reconstruct_fetch_actions` (lines 245-247) caters for their
  absence. That one uses `actions` (244) as if it were there, where the update
  (492) caters for its absence: with nothing to install a solve may raise a
  `KeyError`, an update of the same not.
* `conda_solver.py:499`: what an update does not link counts as unchanged, what
  conda would remove included. `RemovedNotMarked` shows why this is harmless unless
  it is requested: it gets no category.
* A newly requested package is not passed to an update that names another one, and
  raises a `KeyError` when the plan's categories are assigned.

Specification:

* The filter of categories comes after the aggregation (`src_parser/__init__.py`):
  a package in main of one file and in dev of a later one is dropped by `--no-dev`.
* Channels are unified, and may be refused, even if they are overridden.
* `allow_pypi_requests` is not in the content hash.
* `_reinsert_spurious_build_number` (`content_hash.py:292`) applied to its own result
  would delete entries.
* `pyproject_toml.py:291-316`: Poetry's VCS and path dependencies are always in
  main, whatever their group, and `path` is rebound to a path dependency's path,
  so that `sources` (lines 305, 346) is wrong afterwards. A dependency in two
  extras gets the last only (209-212), and PEP 621 groups are read in the order of
  a set (646-653): a package in two of them changes its category, and the hash,
  from process to process, which is why `SkippedIffTheSame` excepts it.
* `pyproject_toml.py:714`: PDM's dev-dependencies are added after markers and
  `force_pypi` were applied; `[tool.pdm]` without them raises an `AttributeError`
  (701).
* `environment_yaml.py:46`, `meta_yaml.py:167`: a list that the selectors empty is
  `None`, and raises a `TypeError`.
* `environment_yaml.py:85`: a `pip:` section adds an unconstrained conda `pip` in
  main, over a pin of the user's. `LastSourceWins` is about what the parsers make of
  the files, and takes this for the last word of the file.
* What `DeclaredIsThere` does not say: which manager a dependency goes to; and the
  category of Poetry's VCS and path dependencies, of a dependency in several extras
  and of PDM's dev-dependencies is taken as the parsers have it.
* A PEP 621 requirement with a URL stays with conda, where `docs/src_pyproject.md`
  says pip.

Rendering and installing:

* A rendered file is written in place with its hash at its beginning: cut off by a
  crash it is believed complete with `--check-input-hash`. `RenderedIsCurrent` says
  of such calls no more than that the hash is right.
* `invoke_conda.py:133`: a line of standard output that is not UTF-8 kills the thread
  that drains it, and conda may block for ever.
* `conda_lock.py:209`: an environment file is recognised by `.yml`; a user's
  `*.yaml`, and the copy that `--auth` makes of any, is taken for an explicit file.

## 4. What is proved

`ApplyCategoriesProofs` proves of `ApplyCategories!Spec`, for any names, any
packages, any dependency graphs and any plans:

* `TypeCorrect`: `[]TypeOK`;
* `WalkIsSound`: `[]OnlyNeededWalked`;
* `KeyErrorIsJustified`: `[]KeyErrorJustified`;
* `CategoriesAreCorrect`: `NoNameSwap` implies `[]CategoriesCorrect`.

The assumptions are those of the module, `NamesAssumption` and `PlansAssumption`:
they say what the constants are and that arguments have their types. In
particular requested names are not virtual packages' (`__` names).

The first three follow from soundness: what is in `deps`, in the work list or in
hand is reachable, because `Reach` is closed. The last is two inclusions.
Soundness gives "nobody gets a category in excess". Completeness is the harder
one, and no part of the property is inductive: the invariant has to say, in the
middle of the walk, that for every name already in `deps` everything its packages
need is in `deps`, in the work list, in hand, or will be pushed by a package that
is still to be expanded. When the list is empty this says that `deps` with the
root is closed, hence contains `Reach`, which is the least closed set. The
filters complicate it: line 130 looks at raw names while `deps` holds translated
ones, and the filter of line 94 skips packages whose name is in `deps`.
`NoNameSwap` says that the first is harmless; without it the theorem is false,
as the example of `msgpack` in section 3 shows.

`MakeLockFilesProofs` proves of `MakeLockFiles!Spec`, for any platforms,
packages, dependencies, sources, invocations and bounds:

* `LockTypesAreKept`: `[]TypeOK`;
* `ChannelsAreOne`: `[]OneChannel`;
* `HashesAreHonest`: `UpdateSafe` implies `[]HashHonest`;
* `FailuresChangeNothing`: `SoleProcess` implies `[]AllOrNothing`;
* `DoneIsLocked`: `SoleProcess` and `UpdateSafe` imply `[]DoneMeansLocked`;
* `OthersArePersisted`: `SoleProcess` and no kills imply `OthersPersist`;
* `LockfileIsAStore`: `SoleProcess`, no kills and `UpdateSafe` imply `ActsAsStore`,
  that is `Store!Spec`: the detailed specification implements the abstract one.

The first three hold for any number of processes, concurrent and killed. What
they assume, beside `LockAssumption` (types of the constants, and that `Deps` is
transitively closed):

* `UpdateSafe`: no invocation names a package to update, or no two sources differ
  in what they admit of a conda package. Without it an update keeps locked
  packages that the edited constraint excludes (section 5).
* `SoleProcess`: there is at most one process. Nothing in the code locks the
  lockfile, and with two the theorems are false: one run fails after the other
  has written.
* No kills, for `OthersPersist` and the store: a run killed while it writes leaves a file that
  the next one cannot read, and the platforms it does not solve are lost.

None of the properties is inductive, since a run carries in memory what it will
write. The invariant has a part for each thing a run must remember:

* `BookInv`: what is solved so far is a part of what is to be solved; whose
  packages are in `fresh`; that a skipped platform has the hash of the
  specification; that what is about to be written is the merge. From it
  `MergedParts` says of a merge, platform by platform, whose packages and whose
  hash it has.
* `ChannelInv`: what was read has one channel, and so has what is solved. The one
  way into it is `UpdateSpecs`, which keeps locked packages: harmless, because a
  run that updates has passed the check on channels.
* `TypeInv` and `HonestInv`: the lock that was read and the one to write are typed
  and honest, and so is every platform already solved. `SolveForArchSolves`
  splits a solve into its conda and its PyPI half, and the conda half into solve
  and update; it is the place where `UpdateSafe` is used.
* `FileInv`, `PersistInv`: until the run opens the file, the file is what it read;
  while it writes, the file is empty; when it is done the file locks its
  specification.

The refinement adds no invariant. That every step but `Dump` leaves the store alone
is `FileInv` (nobody else writes) with the fact that the file is opened by a run
which then holds in memory what was in it. That `Dump` is one `Relock` is
`MergedParts`: the platforms that are solved have one specification, `HonestInv`
says that they solve it, `ChannelInv` that their channel is the store's, and the
platforms that are kept are those that were read. `NoneIsNoLock` says that the
value for "no lock" is none.

`ToposortProofs` proves of `Toposort!Spec`, for any set of items and any
graph:

* `SortTypeCorrect`: `[]TypeOK`: what is left and what was yielded are disjoint;
* `NothingYieldedTwice`: `[]YieldedOnce`, however often a cycle restarted the sort;
* `NeedsComeFirst`: `[]DependenciesFirst`: what has no cycle upstream is yielded
  before what depends on it.

The inductive invariant says that the dict is the graph of the dependencies
restricted to what is left (`RemoveKeeps`), so that "free" means that all
dependencies were yielded. The point is `pop_key`, which yields an item that is not
free: `StuckTangle` shows that when nothing is free, everything left is a tangle
(each item in it needs another one in it), so what is popped is tangled, and what is
tangled is excepted.

`RenderProofs` proves of `Render!Spec`, for any lockfiles, platforms, tables of
packages, templates and calls:

* `TypeCorrect`: `[]TypeOK`;
* `RendersCurrent`: `[]RenderedIsCurrent`: what a call was asked for is there;
* `InstallsWhole`: `[]Installable`: a whole file lists its packages once each and is
  closed under dependencies;
* `KeepsOrder`: `[]ExplicitInOrder`.

They rest on `RenderAssumption`: the types of the constants, and of a table that
categories reach what depends on it (which `CategoriesAreCorrect` is about). The
invariant (`InvHolds`) says of each turn of a call's loops that it is to come, is
being rendered, or is settled (`TurnsInv`). That settled turns stay settled is the
injectivity of file names, `NamesApart`: the check of the template lets several
platforms through only if the name tells them apart, and the check that it does not
end in `.yml` makes the extension tell the kinds apart, which `InstallsWhole` says of
whole files as well. `LinesInv` and `FilesInv` say that the lines of a manager, once they are
made, and in whole files for good, are the packages to be listed, each once, in
order. Here the composition is used: `Render!Sorting` is stepwise an instance of
`ToposortProofs` (`SortingIsOrdering`, `SortBegun`), whose invariant says at the
sort's end that all has been yielded, once, in order. `FilteredInOrder` carries the
order through the filter, `ReadAsLocked` through the conversion of versions, which
loses the virtual packages, and `ListedAsLocked` says that this loss changes no
list. Since the order is one of the table as it was locked, `SortedLines` compares
two graphs: the sorted one is a part of the other, and less of it is tangled.

`CondaSolveProofs` proves of `CondaSolve!Spec`, for any packages, calls, caches and
number of tries, without hypotheses beside the module's assumption:

* `TypeCorrect`: `[]TypeOK`; `PlanComplete`: `[]PlanIsTheSolution`;
* `RemovedUncategorised`: `[]RemovedNotMarked`; `NoRecordLost`: `[]RecordsSuffice`;
* `GivesUpLast`: `[]GaveUpInTheEnd`.

The invariant accounts for every package of LINK (`RecordsInv`): its record is in
FETCH, is missing, or is the one being looked for. With `LinkInv`, that LINK and what
an update keeps are the solution, this makes the plan complete. `LookInv` says of a
cache that held a record when a try began that it has not been passed: records come,
while the solver looks, but do not go.

`LookupCacheProofs` proves of `LookupCache!Spec`, for any number of processes:

* `TypeCorrect`: `[]TypeOK`, kills and clearing included;
* `WholeFiles`, `StalenessBounded`, `ValidatedCurrent`: `CalmCache` implies
  `[]ReturnsWholeFile`, `[]BoundedStaleness`, `[]ValidatedIsCurrent`.

`CalmCache` has three parts. `LockIsYoung` says that the lock file of the beginning
cannot reach the age at which it is cleared, nor is dated so far ahead that it would
be; without it a process unlinks the file that another holds a lock on
(`lookup_cache.py:192`), the next one locks another inode, and the theorems are false
(section 5). Taking the lock renews the file's modification time, so that the
hypothesis is about caches that have not been used for `MaxAge`, and about clocks
that disagree by more than `Resolution`. Nobody is killed, since a process killed
between the truncation and the write leaves an empty file that is fresh. And
`FreshFor` or `WriteDelay` is not 0. Files other than the lock's may be dated
ahead as they like. `LockInv` is why one process at a time is past the lock
(`OneHolder`): all locks are of one inode.
`FilesInv` says that the ETag is never newer than the file beside it, and who is
responsible for a file that is half written; `CallInv` what a call knows of them at
each of its steps, which has to survive that another process clears either.

`InstallProofs` proves of `InstallSpec`, for any programs, capacities and requests,
without hypotheses:

* `TypeCorrect`: `[]InstallTypeOK`; `OutputComplete`: `[]AllOutputCollected`;
* `ReturnsInstalled`: `[]ReturnedMeansInstalled`;
* `FilesLast`: `[]FilesLastAsLongAsNeeded`.

`Flow` follows each line through an invocation: for each stream there is a position
up to which lines have been read; those that count are in what was collected, in
order, and the lines after it that have been written are in the pipe, in order.
`Order` says in which order thread, main thread and process come to their ends.
Positions replace an induction over sequences. The other part relates the steps of
`install` to the files that are open and to the process that runs.

`LockSpecProofs` proves of `LockSpec!Spec`, for any lists of files, filters,
overrides, virtual packages and translation of names:

* `DeclaresAll`: `[]DeclaredIsThere`; `LastWins`: `[]LastSourceWins`;
* `UnifiesSources`: `[]SourcesUnified`; `SkipsTheSame`: `[]SkippedIffTheSame`.

There are no hypotheses beside `LockSpecAssumption`, which says that files and
virtual packages have the shapes that the formats allow. The state machine is the
smaller part: `Inv` says that what was parsed is a parse of the files as they are,
`HashInv` that the hash in the lockfile is one that some release computes of what was
locked, and that a check has compared it with those accepted now. The larger part are
facts about the operators:

* *Parsers.* `FlattenSeq` is defined by recursion; `Flattening` gives it as a function
  of the number of parts, and `UpTo`, which is induction for a set of numbers, makes
  `Flattened` and `FilteredHas` of it: what is in a flattened or a filtered list. Then each
  parser has a lemma that what it makes of a file `Honours` the file. Those of TOML go
  through `Reads`, before markers are evaluated, and `Answers`, after it.
* *Channels and pip repositories.* `UnifiedIffCompatible`: that all lists end the
  longest is that any two of them are suffixes of one another. A suffix of a suffix is one, and of two
  suffixes of one list the shorter is a suffix of the longer.
* *Aggregation.* `LastCollected` is the invariant of the loop over the dependencies:
  what was collected of the first `n` is the last of each key.
* *Hashes.* `HashTells`: of the forms of a hash, two of different releases are equal only
  if dependencies, channels, pip repositories and effective virtual packages are.
  The sorted keys have every key once (`KeysInOrder`), a dependency without its nulls is still told from
  others (`NullsTell`), and renumbering builds can be undone (`NumberedTells`).
* *Orders of groups.* Two parses of a file `Agree` if, for dependencies of one name, the
  last is the same. If no two groups name a package all parses agree
  (`ParsesAgree`); agreement goes through what is put before and after, the
  forced managers and the markers (`AgreeFinished`), and through the chaining of files
  (`LastOfFlats`), and what is aggregated depends on nothing else (`AggregatedIsLast`).

Only model-checked:

* liveness (`Termination`, `CallsEnd`, `SolveEnds`, `CallEnds`, `InstallEnds`), which is
  out of the prover's reach, as is the argument by induction over what is still to be
  walked; that the sort ends with everything yielded would need induction over the
  size of the dict.

No module uses RECURSIVE operators, so that each can be proved about.

## 5. What is not modelled

* Channels and pip repositories (`models/channel.py`, `models/pip_repository.py`):
  normalisation of URLs and environment variables in them. Either is a value.
* `allow-pypi-requests`, which is handed through to the solvers and not hashed.
* The override of the virtual packages' environment variables and the fake channel
  (`virtual_package.py:175-198`): one `with` statement around a run, whose model could
  only repeat it.
* Export of specifications (`export_lock_spec.py`): a pure conversion to the format
  of another tool.
* The command line's parsing of options, logging, small helpers.
* Versions and their constraints (a set of versions in `MakeLockFiles`, a number in
  `LockSpec`), YAML and TOML syntax, git URLs, hashes of packages, credentials.
* PyPI: Poetry's solver is external; the choice of wheels, the fetching of their
  metadata and the locked packages offered across markers are left out.
* Metadata of the lockfile other than platforms, channels, hashes and sources.
* Temporary directories: what is preserved is only logged at exit, by one thread of
  those that may have preserved something.
* `conda_lock/_vendor`: conda, Poetry, poetry-core, grayskull and cleo, taken over
  unchanged, and an order of magnitude larger than conda-lock's own code. They are
  projects of their own; conda-lock calls a few functions of them, of which the
  topological sort is modelled, because the order of the explicit files is its
  outcome. This is why the share of all lines under `src/` that the models stand
  for is small.
* The map of cache files to URLs (four hexadecimal digits, `lookup_cache.py:164`) is
  one URL.

Known and not covered by a passing run: `ValidatedIsCurrent` fails when kills and
clearing come together (a file cleared, its ETag not yet, a process killed while
it rewrites the file: the next 304 vouches for half a file); it and
`ReturnsWholeFile` fail when the lock file is old enough to be cleared, since two
processes then use the cache at once; and `HashHonest` fails when a
constraint of a package that is kept is edited before a run with `--update`, which
the repository's tests expect (`test_conda_lock.py:1537`). No plan of `apply` has a
name swap (`NoNameSwap`), with which `CategoriesCorrect` fails. All of them are listed
as hazards.

## 6. Plan

Done: category propagation; lookup cache; lock pipeline and its abstract
specification, implemented; conda solver; specification (parsers, aggregation, content
hash); topological sort, composed with rendering; installing, composed with the
invocation of conda, all with proofs of the safety that is checked; conversion of
lockfile versions.

Next, in this order:

1. `PypiSolve`: what is offered as locked and installed, and how `planned` is built,
   composed with `ApplyCategories`; the export's
   `unify_platform_independent_deps` against its reference definition.
