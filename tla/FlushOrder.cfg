SPECIFICATION Spec
CONSTANTS
    Flushers = {f1, f2}
    Setups <- ParallelFault
    min_write_buffer_number_to_merge = 1
    max_bgerror_resume_count = 1
INVARIANT NewerFilesHoldNewerData
CHECK_DEADLOCK FALSE
