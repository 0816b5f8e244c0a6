SPECIFICATION EventsSpec
CONSTANTS
    Tasks = {t1, t2, t3}
    Threads = {tt1}
    None = None
INVARIANTS NoLostWakeup
PROPERTIES RefiresUnlessDead Delivered  WaiterProceeds  CertificateArrives
CHECK_DEADLOCK FALSE
