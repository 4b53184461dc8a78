SPECIFICATION FairSpec
CONSTANTS
    Procs = {p1, p2}
    Rooms = {r1, r2}
    Names = {n1, n2, n3}
    Bounded = {p1}
    MaxCrashes = 1
    None = None
INVARIANTS SnapshotFresh LiveHolderNamed
PROPERTIES WaiterAdmitted BoundedCallEnds
