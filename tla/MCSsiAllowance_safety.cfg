SPECIFICATION Spec
CONSTANTS
    Plans = {p1, p2}
    Requests = {r1, r2}
    Total = 1
    Multiplier = 1
    Validity = 1
    None = None
    MaxNow = 1
    MaxCrashes = 1
SYMMETRY Symmetry
CONSTRAINT Bounded
INVARIANTS
    ActiveHasAllowance
    PlansBacked
PROPERTIES
    UsageNeverReset
    ActivationSeesUsage
