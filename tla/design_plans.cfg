SPECIFICATION PlansSpec
CONSTANTS
    Procs = {p1, p2}
    Names <- MCNames
    Dropped <- MCDropped
    Inputs <- MCInputs
    Outputs <- MCOutputs
    Providers = {"responses", "chat_completions", "minimax", "unset"}
    Ops = {"upload", "recognize", "create", "update", "delete", "image", "check"}
    Missing = Missing
    MaxUploads = 1
    MaxPlanRequests = 3
SYMMETRY ProcsSymmetry
INVARIANTS StoreKeepsFiles DuplicateReportRight
CHECK_DEADLOCK FALSE
