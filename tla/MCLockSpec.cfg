SPECIFICATION Spec
CONSTANTS
    MaxFiles = 2
    OsxPlatform = TRUE
    None = None
    CondaName <- MCCondaName
    PipName = 3
    Python = 4
    Files <- MCFiles
    Filters <- MCFilters
    Overrides <- MCOverrides
    Repos <- MCRepos
    Osx10 <- MCOsx10
    Osx11 <- MCOsx11
CHECK_DEADLOCK FALSE
INVARIANTS LastSourceWins SourcesUnified SkippedIffTheSame DeclaredIsThere
