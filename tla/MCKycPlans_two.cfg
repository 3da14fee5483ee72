SPECIFICATION Spec
CONSTANTS
    Plans = {p1, p2}
    Callers = {c1}
    Workers = {w1}
    Replica <- OneReplica
    Total = 2
    Critical = 1
    Validity = 1
    None = None
    MaxNow = 0
    MaxCrashes = 0
SYMMETRY Symmetry
INVARIANTS
    OneActivePlan
