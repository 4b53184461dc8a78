----------------------------- MODULE MCAoLocks -----------------------------
(* Instances of AoLocks for TLC: the symmetry each run may use.            *)
EXTENDS AoLocks, TLC

=============================================================================
