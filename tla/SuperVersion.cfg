SPECIFICATION Spec
CONSTANTS
    Readers = {r1, r2}
    Deletes = {2}
    Bounds <- Loads
SYMMETRY Symmetry
INVARIANTS
    NoUseAfterFree
    NoLeak
    SnapshotReadsExact
    ReadSeesLatest
CHECK_DEADLOCK FALSE
