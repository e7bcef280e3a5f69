SPECIFICATION Spec
CONSTANTS
    t1 = t1
    t2 = t2
    k1 = k1
    k2 = k2
    k3 = k3
    k4 = k4
    Tables = {t1, t2}
    Tasks = {k1, k2, k3}
    Workers = 2
    MaxRequests = 3
    FilesMayFail = TRUE
    None = None
INVARIANTS AwaitingIsQueued
CHECK_DEADLOCK FALSE
