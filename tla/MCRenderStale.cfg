SPECIFICATION MCSpec
CONSTANTS
    linux = linux
    osx = osx
    Platforms <- MCPlatforms
    None = None
    Name = {0, 1, 2, 3, 4}
    Python = 2
    Pip = 1
    PipName = {4}
    Virtual = {0}
    Category = {"main", "dev", "x"}
    Tables <- MCTables
    Hash = {"h1", "h2"}
    Calls <- MCCalls
    MaxRev = 2
    MaxCalls = 2
CHECK_DEADLOCK FALSE
INVARIANT SkippedIsCurrent
