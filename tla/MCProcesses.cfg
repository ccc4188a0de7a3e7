SPECIFICATION ProcessesSpec
CONSTANTS
    None = None
    TaskCap = 2
    MicrotaskCap = 1
    TimerCap = 3
    CheckpointBudget = 1
    NESTING_CLAMP_LEVEL = 1
    NESTED_MIN_DELAY = 1
    CompactSlack = 0
    Delays <- MCDelays
    MaxNow = 1
    MaxId = 3
    MaxSeq = 9
    Limits <- MCLimits
    MinTick = 1
    MaxTick = 2
    MaxPause = 1
    MaxClock = 11
    MaxBeats = 2
INVARIANTS EveryTimerReachable InFiringOrder StallIsReal StallIsCaught
PROPERTIES CheckpointsEnd DueTimersRun
CHECK_DEADLOCK FALSE
