SPECIFICATION Spec
CONSTANTS
    CFs = {c1, c2}
    Syncers = {s1}
    Purgers = {p1}
    Writer = writer
    Flusher = flusher
    MaxLogs = 5
    MaxRecords = 1
    Setups <- FiveTracked
SYMMETRY Symmetry
CONSTRAINT OneAtATime
INVARIANTS
    CheckWalsSucceeds
