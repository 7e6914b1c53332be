SPECIFICATION Spec
CONSTANTS
    Proc = {p, q}
    None = None
    MaxVersion = 2
    Untagged = {}
    FreshFor = 1
    MaxAge = 4
    Epoch = 4
    MaxTime = 7
    WriteDelay = 1
    Resolution = 1
    Skew = 1
    Future = {9}
    LockMTime = {4}
    Crashes = FALSE
SYMMETRY Symmetry
CHECK_DEADLOCK FALSE
INVARIANTS TypeOK ReturnsWholeFile BoundedStaleness ValidatedIsCurrent
