SPECIFICATION FairSpec
CONSTANTS
    u1 = u1
    u2 = u2
    u3 = u3
    u4 = u4
    b = b
    Users = {u1, u2, u3, u4}
    Blocker = b
    CounterLimit = 5
    None = None
INVARIANTS CounterExact
PROPERTIES GuardSpec WaitEnds
