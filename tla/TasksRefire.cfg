SPECIFICATION TasksFairSpec
CONSTANTS
    Tasks = {t1, t2}
    Threads = {tt1, tt2}
    None = None
CHECK_DEADLOCK FALSE
PROPERTY Refires
