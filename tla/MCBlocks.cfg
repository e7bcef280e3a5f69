SPECIFICATION Spec
CONSTANTS
    Tables = {"t"}
    Parts = 1
    NumBlocks = 3
    FileBlocks = 2
    Threads = {w1, w2}
    MaxCreates = 2
    MaxDumps = 1
    MaxCompacts = 2
    MaxCrashes = 1
INVARIANTS
    NoSharedBlock
    UsedIsOwned
SYMMETRY MCSymmetry
CHECK_DEADLOCK FALSE
