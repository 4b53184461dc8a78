SPECIFICATION MCSpec
CONSTANTS
    max_jobs = 3
    Rooms = {"r1", "r2"}
    Payloads = {"p1"}
    max_concurrent_per_room = 1
    max_concurrent_per_host = 2
    max_retained_bytes = 4
    None = None
    MaxDeaths = 1
    Profiles = {"v1", "v2"}
    MaxEdits = 1
INVARIANTS BillingTruthful PaidOnce AnswerServed WithinGrant
PROPERTIES JobsEnd
CHECK_DEADLOCK FALSE
