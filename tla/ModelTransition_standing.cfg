\* A pending transition beside the records of the standing policy.
SPECIFICATION Spec
CONSTANTS
    MaxVer = 2
    MaxTurns = 2
    MaxAtts = 2
    MaxApps = 1
    MaxTrouble = 2
    Policies = {TRUE, FALSE}
    None = None
CHECK_DEADLOCK FALSE
INVARIANTS PendingAlwaysClosable
