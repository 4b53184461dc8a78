---------------------------- MODULE MCAoDispatch ----------------------------
(* Instances of AoDispatch for TLC. *)
EXTENDS AoDispatch, TLC

Symmetry == Permutations(Requests) \cup Permutations(Turns)

Readable(kinds) == [kind : kinds, native : {FALSE}]
Unreadable(kinds) == [kind : kinds, native : {TRUE}]
FinalOnly == Readable({"final_available"})
AllEvidence == Readable({"final_available", "unknown", "quota_limit", "provider_error"})
               \cup Unreadable({"provider_error", "unknown"})
=============================================================================
