SPECIFICATION FairSpec
CONSTANTS
    Procs = {c1, c2}
    Plans = {"a", "b"}
    Files = {1, 2}
    Contents = {"O", "A", "B", "X"}
    Original = "O"
    Alien = "X"
    Proposed <- TwoBatches
    Extra = {i3, i4, i5, i6}
    Inodes <- AllInodes
    Intents = {1, 2, 3, 4, 5, 6}
    Attempts = {1, 2, 3}
    MAX_RECORDS = 4
    MAX_SCRATCH = 4
    MaxCrashes = 1
    MaxForeign = 0
    None = None
PROPERTIES ImplementsBatch BatchCompletes
CHECK_DEADLOCK FALSE
