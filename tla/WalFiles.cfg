SPECIFICATION Spec
CONSTANTS
    CFs = {c1, c2}
    Syncers = {s1, s2}
    Purgers = {p1}
    Writer = writer
    Flusher = flusher
    MaxLogs = 4
    MaxRecords = 1
    Setups <- SyncOrTracked
SYMMETRY Symmetry
INVARIANTS
    SyncProtocol
    AckedIsDurable
    UnflushedDataIsKept
    CheckWalsSucceeds
