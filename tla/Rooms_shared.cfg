\* Two rooms that lend and hand back paths; reads admitted beside each other.
SPECIFICATION MCSpec
CONSTANTS
    r1 = r1  r2 = r2  r3 = r3  a1 = a1  a2 = a2  p1 = p1  p2 = p2
    Rooms = {r1, r2, r3}
    Assignments = {a1, a2}
    Paths = {p1, p2}
    MaxTurns = 3
    MaxCommits = 2
    MaxEffort = 7
    Args = {x1}
    READ_MAX_SELECTED_BYTES = 2
    READ_MAX_MESSAGE_BYTES = 3
    READ_STATE_MAX_ENTRIES = 4
    READ_CORRELATION_ATTEMPTS = 2
    WindowRows = 2
    AnchorRows = 1
    InitialRows = 2
    MaxRows = 2
    MaxTrouble = 1
    None = None
SYMMETRY Symmetry
INVARIANTS EngagedApart ImportHonest MessageBudget OneCallOneRead
CHECK_DEADLOCK FALSE
