SPECIFICATION Spec
CONSTANTS
    Visits = {v1, v2}
    MaxAttempts = 2
    HourlyLimit = 2
    MaxCodes = 2
    MaxLost = 1
    Sids = {s1}
    Calls = {c1, c2}
    Types = {t1}
    MaxWrong = 1
    MaxVersion = 3
    MaxDeaths = 1
    Gone = Gone
SYMMETRY Symmetry
CONSTRAINT Bounded
INVARIANTS OneTimeUse GuessesBounded CounterExpires
           SecondFactor LogoutFinal
           ConfirmedIsEnabled
PROPERTIES VersionsGrow
CHECK_DEADLOCK FALSE
