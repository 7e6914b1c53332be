SPECIFICATION Spec
CONSTANTS
    python = python
    lib = lib
    wheel = wheel
    A = A
    B = B
    None = None
    NoUpdate = NoUpdate
    Proc = {p, r}
    Platform = {1, 2}
    Conda = {python}
    Pip = {}
    Python = python
    Deps <- NoDeps
    MaxVersion = 2
    Sources <- SmallSources
    Calls <- ApiCall
    MaxRuns = 3
    Crashes = TRUE
SYMMETRY Symmetry
CHECK_DEADLOCK FALSE
INVARIANTS HashHonest
