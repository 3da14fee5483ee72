SPECIFICATION FairSpec
CONSTANTS
    Runs = {r1, r2}
    MaxFailures = 1
    MaxLosses = 1
    MaxOverlaps = 1
INVARIANTS
    ProgressIsReal
    RepeatsAreLosses
PROPERTIES
    EventuallyApproved
CHECK_DEADLOCK FALSE
