CONSTANTS
    Keys = {k}
    Bodies = {b1, b2}
    Tasks = {t1, t2, t3}
    TTL = 3
    PendingTimeout = 1
    MaxRun = 1
    MaxTime = 7
    MaxRequests = 5
    None = None
SYMMETRY Interchangeable
SPECIFICATION Spec
INVARIANT SingleFlight
 
INVARIANT RetriesDoNotRepeat
CHECK_DEADLOCK FALSE
