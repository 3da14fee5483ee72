SPECIFICATION Spec
CONSTANTS
    SsiApps = {s}
    KycApps = {k}
    Domains = {d}
    Calls = {c1, c2}
    MaxFaults = 1
    None = None
SYMMETRY Symmetry
CONSTRAINT Bounded
INVARIANTS DocHasKeys GoneIsGone NoDangling CopiesAgree CopiesExpire LinkedDomain
CHECK_DEADLOCK FALSE
