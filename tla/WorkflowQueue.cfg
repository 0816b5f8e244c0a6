SPECIFICATION FairSpec
CONSTANTS
    Jobs = {j1, j2}
    Types = {t1}
    Registered = {t1}
    API = {p1}
    Delays = {0}
    PurgeAges = {0}
    MaxRetries = 3
    BackoffBase = 3
    MaxHandlers = 64
    MaxLate = 1
    MaxAge = 1
    MaxBusy = 0
    MaxShutdowns = 1
    MaxCrashes = 0
PROPERTY JobsFinish ImplementsQueue
