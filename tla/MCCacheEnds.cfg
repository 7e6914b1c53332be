SPECIFICATION FairSpec
CONSTANTS
    Proc = {p, q}
    None = None
    MaxVersion = 1
    Untagged = {}
    FreshFor = 1
    MaxAge = 2
    Epoch = 2
    MaxTime = 3
    WriteDelay = 1
    Resolution = 1
    Skew = 0
    Future = {5}
    LockMTime = {0, 2, 5}
    Crashes = TRUE
CHECK_DEADLOCK FALSE
PROPERTY CallsEnd
