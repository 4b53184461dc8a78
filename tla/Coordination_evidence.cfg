SPECIFICATION Spec
CONSTANTS
    r1 = r1  r2 = r2  a1 = a1  a2 = a2  p1 = p1  p2 = p2
    Rooms = {r1, r2}
    Assignments = {a1, a2}
    Paths = {p1, p2}
    MaxTurns = 3
    MaxCommits = 2
    MaxEffort = 7
    None = None
SYMMETRY Symmetry
CHECK_DEADLOCK FALSE
INVARIANTS EngineeredSinceAdmission
