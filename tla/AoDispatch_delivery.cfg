SPECIFICATION FairSpec
CONSTANTS
    Seen <- FinalOnly
    HumanTexts = {"same", "other"}
    Requests = {q1, q2}
    Turns = {t1, t2, t3}
    Roles = {"engineer"}
    None = None
    MaxCrashes = 1
    MaxForeign = 1
    MaxReroutes = 1
    MaxEvidence = 0
    MaxLate = 1
INVARIANTS PostedOnce OwnTurn
PROPERTIES ImplementsLedger CompletionRecorded
