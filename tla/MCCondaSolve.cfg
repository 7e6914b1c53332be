SPECIFICATION FairSpec
CONSTANTS
    Name = {"a", "b", "c"}
    Version = {1, 2}
    Dirs = 2
    Tries = 3
    None = None
    Requires <- MCRequires
    Jobs <- MCJobs
CHECK_DEADLOCK FALSE
INVARIANTS TypeOK PlanIsTheSolution RemovedNotMarked RecordsSuffice GaveUpInTheEnd
PROPERTY SolveEnds
