SPECIFICATION FairSpec
CONSTANTS
    w1 = w1
    w2 = w2
    e1 = e1
    e2 = e2
    e3 = e3
    e4 = e4
    plan = plan
    Workers = {w1, w2}
    Events = {e1, e3}
    Plans = {plan}
    SsiPlans = {}
    Commit <- MCCommit
    Total <- MCTotal
    NoOne = NoOne
    PromptWriters = TRUE
    MaxAttempts = 2
    MaxStalls = 1
    MaxRedeliveries = 1
CONSTRAINT OneStalled
INVARIANTS
    LedgerRowUnique
PROPERTIES
    ChargedIsRecorded
