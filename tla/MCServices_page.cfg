SPECIFICATION Spec
CONSTANTS
    SsiApps = {s}
    KycApps = {k1, k2}
    Domains = {}
    Calls = {c1}
    MaxFaults = 0
    None = None
CONSTRAINT Linked
PROPERTIES OwnPage
CHECK_DEADLOCK FALSE
