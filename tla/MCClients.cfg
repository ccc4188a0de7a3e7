SPECIFICATION ClientsSpec
CONSTANTS
    None = None
    MAX_RESTARTS = 1
    PipeDepth = 1
    MaxGen = 2
    MaxCalls = 2
    ka = ka
    kb = kb
    kc = kc
    kd = kd
    Key <- MCKey
    Chains <- MCChains
    Mirror = {1, 2}
    GoodMirror = 2
    MAX_FAILURES = 1
    MAX_KEYS = 2
    MAX_ROTATIONS_PER_CHECK = 1
    MaxSequence = 2
    MaxVersion = 1
INVARIANTS AnswersMatch HonestIsNotBlamed NothingOutlivesItsSession TrustIsPublished
PROPERTIES CallsReturn WorkersAreReleased NeverBackwards CatchesUp
CHECK_DEADLOCK FALSE
