SPECIFICATION InstallSpec
CONSTANTS
    Capacity = 1
    Text = {"text"}
    Progress = {"50%"}
    Blank = "blank"
    Banner = "banner"
    Garbled = "garbled"
    None = None
    Requests <- MCRequests
    Programs <- MCPrograms
CHECK_DEADLOCK FALSE
INVARIANTS InstallTypeOK AllOutputCollected ReturnedMeansInstalled FilesLastAsLongAsNeeded
PROPERTY InstallEnds
