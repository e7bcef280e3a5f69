SPECIFICATION FairSpec
CONSTANTS
    i1 = i1
    d1 = d1
    d2 = d2
    s1 = s1
    Keys <- MCKeys
    PartCount = 2
    Timestamps <- MCTimestamps
    Values = {v1}
    MaxDumps = 2
    MaxInserts = 2
    Inserters = {i1}
    Dumpers = {d1, d2}
    Selectors = {s1}
    AllocMayFail = TRUE
    None = None
INVARIANTS StagesExclusive NoRecordInvented SelectFreshUnlessDumped NoAckedRecordLost FilesSearchable
PROPERTIES CompactionEnds DumpsNeverOverwritten StoreSpec
