\* The real constants over 48: an entry without a value costs 1 and takes 11
\* on disk; the global quota is to the largest log as 64 MiB to 256 MiB.
SPECIFICATION StoreSpec
CONSTANTS
    None = None
    Pid <- MCPid
    Key = {1, 2}
    Site <- MCSite
    Value = {0}
    PID_BYTES = 11
    HEADER_LEN = 0
    FRAME_LEN = 0
    ENTRY_OVERHEAD_BYTES = 1
    MAX_VALUE_BYTES = 1
    MAX_ENTRIES_PER_PARTITION = 2
    PARTITION_QUOTA_BYTES = 2
    GLOBAL_QUOTA_BYTES = 4
    MAX_LOG_BYTES = 16
    COMPACT_SLACK = 16
INVARIANTS LogCanBeReopened
