SPECIFICATION Spec
SYMMETRY Symmetric
CONSTANTS
    Cameras = {1, 2, 3}
    Uploadable = {2}
    Stored = {2}
    Requests = {r1, r2}
    r1 = r1
    r2 = r2
    Codes <- MCCodes
    MaxFailures = 2
    MaxRuns = 1
    None = None
INVARIANTS CircuitOpensOnTime PicturesAreAudited RefusedLeavesNoTrace
