SPECIFICATION Spec
CONSTANTS
    Procs = {p1, p2}
    Inputs <- MCInputs
    Deployments <- MCDeployments
    Seed <- MCSeed
    Dropped <- MCDropped
    Space = "space"
    RecorderLimit = 2
    PageSize = 1
    Missing = Missing
    Blank = "blank"
    MaxRequests = 4
SYMMETRY Symmetry
CHECK_DEADLOCK FALSE
INVARIANTS LimitExceededOnlyByRace LogTellsDirectory IndexNeverDangles QuietListAddsUp
