SPECIFICATION FairSpec
CONSTANTS
    Txns = {t1, t2, t3}
    Keys = {1, 2, 3}
    MaxNow = 1
    Setups <- LockSetups
INVARIANTS
    LocksExclude
    NoLockLeak
PROPERTIES
    EveryLockCallReturns
CHECK_DEADLOCK FALSE
