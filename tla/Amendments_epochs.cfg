\* The attachment of a delegate; model transitions and the standing policy; executable
\* repair and routing refresh.
SPECIFICATION MCSpec
CONSTANTS
    MaxConns = 2
    Validators = {gate, status}
    MaxVer = 2
    MaxTurns = 2
    MaxAtts = 2
    MaxTrouble = 2
    Policies = {TRUE, FALSE}
    MaxExe = 2
    MaxGuard = 1
    MaxWork = 1
    MaxIntents = 2
    MaxSpec = 1
    MaxApps = 1
    None = None
SYMMETRY Symmetry
INVARIANTS SettingsFollowEpoch TransitionClosable RuntimeExplained
PROPERTIES CertifiesHeldLease RunsUnderOneRuntime
CHECK_DEADLOCK FALSE
