SPECIFICATION Spec
CONSTANTS
    None = None
    origin_a = origin_a
    origin_b = origin_b
    e1 = e1
    e2 = e2
    MaxChannel = 2
    MaxGroup = 1
    Origin <- TwoOrigins
    RegistrableDomain <- TwoSites
    MaxIndex = 0
    MaxGeneration = 1
    MAX_FRAME_DEPTH = 0
    MAX_CHILDREN_PER_FRAME = 1
    Ordinal <- OneOrdinal
    MAX_CONTENT_PROCESSES = 2
    AUDIT_CAPACITY = 1
    MaxPlans = 1
VIEW MCView
PROPERTIES TransfersFollowKeys
CHECK_DEADLOCK FALSE
