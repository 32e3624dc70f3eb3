SPECIFICATION FairSpec
CONSTANTS
    Threads = {t1, t2, t3}
    Null = Null
    max_write_batch_group_size_bytes = 80
    Loads <- FairLoads
    MaxWrites = 1
    paranoid_checks = TRUE
INVARIANTS
    LogMatchesMemTable
PROPERTIES
    EveryWriteReturns
