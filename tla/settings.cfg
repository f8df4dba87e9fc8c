SPECIFICATION SettingsSpec
CONSTANTS
    Procs = {p1, p2}
    Users = {1}
    Roles = {"admin", "viewer"}
    Deployments <- MCDeployments
    Filters <- MCFilters
    Ops = {"watermark", "toggle", "screenshot", "view", "export",
           "logs", "login", "logout", "timeout", "prepare"}
    DefaultPageSize = 1
    MaxPageSize = 3
    RangeLimit = 1
    MaxInt = 5
    MaxRequests = 3
    MaxDays = 2
SYMMETRY ProcsSymmetry
INVARIANTS LogTellsSetting PageOfLogRight
CHECK_DEADLOCK FALSE
