SPECIFICATION FairSpec
CONSTANTS
    CFs = {c1, c2}
    Syncers = {s1}
    Purgers = {p1}
    Writer = writer
    Flusher = flusher
    MaxLogs = 2
    MaxRecords = 1
    Setups <- Manual
INVARIANTS
    FlushedIsBacked
PROPERTIES
    EveryCallReturns
