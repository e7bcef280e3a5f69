SPECIFICATION FairSpec
CONSTANTS
    MaxHandles = 2
    MaxConns = 2
    Fds = {4, 512}
    Tasks = {t1, t2}
    Workers = 1
    VersionMod = 3
    MaxPackets = 2
INVARIANTS
    HandlesExact
    AnswersAsker
    AwaitingServed
PROPERTIES
    Stops
CHECK_DEADLOCK FALSE
