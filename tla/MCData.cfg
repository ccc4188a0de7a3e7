SPECIFICATION DataSpec
CONSTANTS
    None = None
    Pid <- MCPid
    Key = {1, 2}
    Site <- MCSite
    Value = {1, 2}
    PID_BYTES = 1
    HEADER_LEN = 1
    FRAME_LEN = 1
    ENTRY_OVERHEAD_BYTES = 1
    MAX_VALUE_BYTES = 2
    MAX_ENTRIES_PER_PARTITION = 2
    PARTITION_QUOTA_BYTES = 4
    GLOBAL_QUOTA_BYTES = 5
    MAX_LOG_BYTES = 9
    COMPACT_SLACK = 2
    Name <- MCName
    File = {1, 2}
    StartVersion = {2, 3}
    MaxVersion = 3
    MaxWrites = 2
    Host <- MCHost
    Path = {"/"}
    RegistrableDomainOf <- MCRegistrableDomainOf
    Preloaded = {"b"}
    Loopback = {}
    Contexts <- MCContexts
    Replies <- MCReplies
    MAX_HOPS = 2
    MAX_PER_KEY = 1
    MAX_CACHE_ENTRIES = 2
    MaxFetches = 2
    MaxClock = 1
    fa = fa
    fb = fb
    Font <- MCFont
    BadFont = {fb}
    Chunks <- MCChunks
    DisplayList <- MCDisplayList
    RowsPerStrip = 2
    MAX_FONTS = 2
    MAX_RESTARTS = 2
    QUEUE_DEPTH = 2
    PipeDepth = 1
    MaxFrames = 4
    Fault <- MCFault
INVARIANTS AccountingIsExact ForgottenIsGone NothingLost NothingGoesAstray ReadableIsAdmitted
    UnsafeIsGranted FontsStayInStep
PROPERTIES StoreIsDurable NewProfileIsWhole FirstRenameIsCarriedOver FetchesEnd
    RendersAsPromised
CHECK_DEADLOCK FALSE
