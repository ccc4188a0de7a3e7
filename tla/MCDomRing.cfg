SPECIFICATION DomSpec
CONSTANTS
    None = None
    MAX_DEPTH = 2
    MAX_GENERATION = 2
    MaxNodes = 3
    MaxText = 2
    MaxHandles = 4
    Kind = {"Element", "Template"}
    SelfInsert = TRUE
    MoveContents = FALSE
INVARIANTS
    TreeIsATree
CHECK_DEADLOCK FALSE
