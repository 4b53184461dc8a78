SPECIFICATION Spec
CONSTANTS
    Seen <- AllEvidence
    HumanTexts = {"other"}
    Requests = {q1, q2, q3}
    Turns = {t1, t2, t3}
    Roles = {"engineer"}
    None = None
    MaxCrashes = 0
    MaxForeign = 0
    MaxReroutes = 0
    MaxEvidence = 2
    MaxLate = 0
SYMMETRY Symmetry
INVARIANTS HeldHasOneSuccessor
PROPERTIES FailureSticks
