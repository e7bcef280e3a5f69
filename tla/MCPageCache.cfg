SPECIFICATION Spec
CONSTANTS
    w1 = w1
    w2 = w2
    w3 = w3
    a = a
    b = b
    Tables = {a, b}
    Keys <- MCOneKey
    Timestamps <- MCTimestamps
    FrameMax = 1
    Tasks = {w1, w2}
    MaxRequests = 3
    None = None
SYMMETRY MCSymmetry
INVARIANTS LruExact NoInsertLost SelectExact OnlyEvictionSticks
CHECK_DEADLOCK FALSE
