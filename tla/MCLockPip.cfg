SPECIFICATION Spec
CONSTANTS
    python = python
    lib = lib
    wheel = wheel
    A = A
    B = B
    None = None
    NoUpdate = NoUpdate
    Proc = {p}
    Platform = {1, 2}
    Conda = {python, lib}
    Pip = {wheel}
    Python = python
    Deps <- MCDeps
    MaxVersion = 2
    Sources <- OneSource
    Calls <- PipFilter
    MaxRuns = 3
    Crashes = FALSE
CHECK_DEADLOCK FALSE
INVARIANT PipNotDowngraded
