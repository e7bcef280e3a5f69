SPECIFICATION Spec
CONSTANTS
    Nodes = {m1, m2}
    NoNode = NoNode
    Handles = {h1, h2}
    MainThread = main
    Pause = pause
    Stop = stop
    Workers = 2
    Tables = {"t1"}
    Consistency <- MCConsistency
    Criteria = {"NONE", "SC"}
    Quantum = 2
    MaxLines = 2
    MaxOpens = 2
INVARIANTS
    AssignedUsable
    SendSafe
    AnswerMatches
    AwaitingServed
SYMMETRY MCSymmetry
CHECK_DEADLOCK FALSE
