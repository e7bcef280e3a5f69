SPECIFICATION MemtableSpec
CONSTANTS
    Keys = {0, 1, 2}
    Parts = 2
    Timestamps = {1, 2, 6}
    Modulus = 8
    Capacity = 2
    MaxAdds = 4
INVARIANTS ValuesExact FindExact
PROPERTIES DumpExact
CHECK_DEADLOCK FALSE
