SPECIFICATION FairSpec
CONSTANTS
    Jobs = {j1}
    Types = {t1}
    Registered = {t1}
    API = {p1}
    Delays = {0}
    PurgeAges = {0}
    MaxRetries = 2
    BackoffBase = 3
    MaxHandlers = 64
    MaxLate = 1
    MaxAge = 1
    MaxBusy = 0
    MaxShutdowns = 0
    MaxCrashes = 1
PROPERTY JobsFinish
