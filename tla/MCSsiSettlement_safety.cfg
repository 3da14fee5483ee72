SPECIFICATION FairSettlement
CONSTANTS
    m1 = m1
    m2 = m2
    m3 = m3
    a = a
    b = b
    c = c
    Slots = {s1, s2}
    Messages = {m1, m2, m3}
    Result <- MCResult
    Reservations = {a, b, c}
    None = None
    MaxFailures = 2
CHECK_DEADLOCK FALSE
INVARIANTS
    AckedIsSettled
PROPERTIES
    ResultsSettle
