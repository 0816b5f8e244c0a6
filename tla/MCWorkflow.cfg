SPECIFICATION Spec
CONSTANTS
    Jobs = {j1, j2}
    Types = {t1, t2}
    Registered = {t1}
    API = {p1, p2}
    Delays = {0, 1}
    PurgeAges = {0}
    MaxRetries = 2
    BackoffBase = 2
    MaxHandlers = 1
    MaxLate = 1
    MaxAge = 1
    MaxBusy = 1
    MaxShutdowns = 1
    MaxCrashes = 1
SYMMETRY APISymmetry
INVARIANT ClaimExclusive CancelHonoured AttemptsBounded
PROPERTY TerminalStays
