SPECIFICATION Spec
CONSTANTS
    Admins = {a}
    Roles = {r1, r2}
    Sids = {s1, s2}
    Calls = {c1, c2}
    MaxInvites = 2
    MaxEdits = 1
    MaxDeaths = 1
    None = None
CONSTRAINT Bounded
SYMMETRY Symmetry
INVARIANTS
    TypeOK
    ServedHasJoined
    DeletedMeansOut
    PermissionsFollowRole
    IndexComplete
    SessionsExpire
CHECK_DEADLOCK FALSE
