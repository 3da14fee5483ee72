SPECIFICATION FairSpec
CONSTANTS
    Plans = {p1, p2}
    Callers = {c1}
    Workers = {w1}
    Replica <- OneReplica
    Total = 1
    Critical = 0
    Validity = 1
    None = None
    MaxNow = 1
    MaxCrashes = 1
CONSTRAINT Bounded
INVARIANTS
    GrantsAgree
PROPERTIES
    ClockStartsOnce
    GrantTakesEffect
    EventsComplete
