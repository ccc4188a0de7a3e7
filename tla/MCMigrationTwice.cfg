SPECIFICATION MigFairSpec
CONSTANTS
    None = None
    Name <- MCName
    File = {1, 2}
    StartVersion = {2}
    MaxVersion = 3
    MaxWrites = 1
PROPERTIES ProfileIsCarriedOver
CHECK_DEADLOCK FALSE
