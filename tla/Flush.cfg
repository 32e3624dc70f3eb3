SPECIFICATION FairSpec
CONSTANTS
    Flushers = {f1, f2}
    Setups <- Faults
    min_write_buffer_number_to_merge = 1
    max_bgerror_resume_count = 1
INVARIANTS
    CrashRecovers
    FlushOkMeansFlushed
PROPERTIES
    Recovers
    FlushCallReturns
    CloseReturns
CHECK_DEADLOCK FALSE
