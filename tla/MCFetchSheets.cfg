SPECIFICATION FetchSpec
CONSTANTS
    None = None
    Host <- MCHost
    Path = {"/"}
    RegistrableDomainOf <- MCRegistrableDomainOf
    Preloaded = {"b"}
    Loopback = {}
    Contexts = {}
    Replies <- MCReplies
    MAX_HOPS = 2
    MAX_PER_KEY = 1
    MAX_CACHE_ENTRIES = 2
    MaxFetches = 2
    MaxClock = 0
INVARIANT StyleSheetsLoad
CHECK_DEADLOCK FALSE
