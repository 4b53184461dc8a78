--------------------------- MODULE MCCoordination ---------------------------
EXTENDS Coordination, TLC

CONSTANTS r1, r2, a1, a2, p1, p2

Symmetry == Permutations(Rooms) \cup Permutations(Paths) \cup Permutations(Assignments)

=============================================================================
