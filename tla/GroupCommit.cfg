SPECIFICATION Spec
CONSTANTS
    Threads = {t1, t2, t3}
    Null = Null
    max_write_batch_group_size_bytes = 80
    Loads <- GroupLoads
    MaxWrites = 1
    paranoid_checks = TRUE
SYMMETRY Symmetry
INVARIANTS
    NoSlowdownNeverStalls
    OkMeansWritten
    BatchAtomic
    UnlockWALEndsStall
PROPERTIES
    LockWALFreezes
    WritesAreAtomic
