SPECIFICATION CrashSpec
CONSTANTS
    i1 = i1
    d1 = d1
    Keys <- MCKeys
    PartCount = 2
    Timestamps <- MCTimestamps
    Values = {v1}
    MaxDumps = 2
    MaxInserts = 3
    MaxCrashes = 2
    Inserters = {i1}
    Dumpers = {d1}
    Selectors = {}
    AllocMayFail = TRUE
    None = None
INVARIANTS DurableSurvives MissingPartRecoverable CompactionClears
