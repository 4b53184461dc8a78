\* Review extension, re-review and format re-ask; grants beyond three attempts
\* and the recovery of an unused reviewer; reviews of the legacy controller;
\* provider transition and routing adoption.
SPECIFICATION MCSpec
CONSTANTS
    Sessions = {s1, s2}
    Requests = {q1, q2}
    Reviews = {r1, r2}
    MaxTurns = 2
    MaxCand = 1
    MaxEdits = 1
    MaxCrashes = 1
    MaxRev = 3
    MaxReviewTurns = 8
    Payloads = {a, b}
    MAX_REVIEW_TURNS = 1
    MaxLegacyRev = 2
    MaxJobs = 2
    MaxFaults = 1
    MaxEffort = 3
    MaxAudits = 1
    MaxFails = 2
    None = None
SYMMETRY Symmetry
CHECK_DEADLOCK FALSE
INVARIANTS AttemptsAccounted AllowancesSpentOnce AllowanceNotLost AgreementGrounded ReviewsBounded IntentsReconcilable OneProviderAtATime
PROPERTIES HandoffFollowsReply
