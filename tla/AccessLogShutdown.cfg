SPECIFICATION FairSpec
CONSTANTS
    Workers = {1}
    Domains = {"d"}
    Lens = {3}
    BUFLEN = 8
    SYNC = 6
    HDR = 2
    GUESS = 2
    LOGBUF_SIZE = 10
    DOMAIN_LOGBUF_LEN = 6
    TICKS = 2
    MaxEntries = 3
    MaxDeaths = 0
CHECK_DEADLOCK FALSE
PROPERTY EntriesReachDisk
