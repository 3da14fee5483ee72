SPECIFICATION Spec
CONSTANTS
    w1 = w1
    w2 = w2
    e1 = e1
    e2 = e2
    e3 = e3
    e4 = e4
    plan = plan
    Workers = {w1, w2}
    Events = {e1, e2, e4}
    Plans = {plan}
    SsiPlans = {plan}
    Commit <- MCCommit
    Total <- MCTotal
    NoOne = NoOne
    PromptWriters = FALSE
    MaxAttempts = 2
    MaxStalls = 1
    MaxRedeliveries = 0
SYMMETRY Symmetry
CONSTRAINT InvalidFirst
INVARIANTS
    CompletedIsRecorded
    OutboxMatchesLedger
PROPERTIES
    AccountSpec
