SPECIFICATION BrowserSpec
CONSTANTS
    None = None
    origin_a = origin_a
    origin_b = origin_b
    e1 = e1
    e2 = e2
    MaxChannel = 3
    MaxGroup = 2
    Origin <- TwoOrigins
    RegistrableDomain <- OneSite
    MaxIndex = 2
    MaxGeneration = 1
    MAX_FRAME_DEPTH = 2
    MAX_CHILDREN_PER_FRAME = 2
    Ordinal <- TwoOrdinals
    MAX_CONTENT_PROCESSES = 2
    AUDIT_CAPACITY = 1
    MaxPlans = 1
    MAX_TABS = 2
    EditText <- MCEditText
    Location <- MCLocation
    Web = {"web", "web2"}
    Welcome = "welcome"
    ErrorPage = "error"
    FinalUrls <- MCFinalUrls
    Parse <- MCParse
    Href <- MCHref
    LinksOf <- MCLinksOf
    Resolve <- MCResolve
    Height <- MCHeight
    Unlayable = {"web2"}
    Inputs <- MCInputs
    MaxEntries = 3
    MAX_DEPTH = 2
    MAX_GENERATION = 2
    MaxNodes = 4
    MaxText = 2
    MaxHandles = 4
    Kind = {"Element", "Template"}
    SelfInsert = FALSE
    MoveContents = FALSE
VIEW BrowserView
INVARIANTS PoolIsSound Forest CapsMatchTree VisibilityIsCurrent ChromeShowsTheShell
    TreeIsATree RangesAreSound
PROPERTIES CommitsShareProcesses AuthoritySpec DeadHandlesStayDead
    FramesOutliveOtherChannels HistoryIsKept StaleHandlesStayStale RangesKeepTheirContent
CHECK_DEADLOCK FALSE
