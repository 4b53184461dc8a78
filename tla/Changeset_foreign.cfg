SPECIFICATION Spec
CONSTANTS
    Procs = {c1}
    Plans = {"a"}
    Files = {1, 2}
    Contents = {"O", "A", "X"}
    Original = "O"
    Alien = "X"
    Proposed <- OneBatch
    Extra = {i3, i4, i5}
    Inodes <- AllInodes
    Intents = {1, 2, 3, 4, 5, 6}
    Attempts = {1, 2, 3}
    MAX_RECORDS = 3
    MAX_SCRATCH = 4
    MaxCrashes = 2
    MaxForeign = 2
    None = None
SYMMETRY Symmetry
INVARIANTS Resumable OverwritesOnlyInWindow
CHECK_DEADLOCK FALSE
