SPECIFICATION FairSpec
CONSTANTS
    Plans = {p1}
    SsiPlans = {p1}
    Workers = {w1, w2}
    Replicas = {r1, r2}
    Total = 4
    Lifetime = 2
    UsageThresholds = {50, 100}
    ExpiryThresholds = {0, 1}
    None = None
    MaxDay = 2
    MaxFailures = 1
INVARIANTS
    MailedOnce
    ClaimsFollowUsage
PROPERTIES
    ExhaustionAlerted
