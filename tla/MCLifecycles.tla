---------------------------- MODULE MCLifecycles ----------------------------
(* Instances for TLC of the two lifecycles of an implementation: of a room   *)
(* and of the legacy controller's jobs.  They share no state, so a behaviour *)
(* explores one of them and leaves the other as it starts: the run covers    *)
(* both, without their product.                                              *)
EXTENDS AoLifecycle

CONSTANTS t0, t1, Contents, Start, MaxJobs, MaxEdits, MaxFaults

ASSUME JobBounds ==
    /\ Start \in Contents /\ {MaxJobs, MaxEdits, MaxFaults} \subseteq Nat
    /\ None \notin {"passed", "failed", "interrupted", "refused", "blocked", "verified", "awaiting", "scope",
                  "model", "gate"}

VARIABLES of,   \* the module this behaviour explores
          job, recs, vers, hand, agreed, worktree, sup, ex, live, result, booted, passed, edits,
          faults

Legacy == INSTANCE LegacyJobs WITH Trees <- Contents, tree <- worktree, ran <- passed

legacy == <<job, recs, vers, hand, agreed, worktree, sup, ex, live, result, booted, passed, edits,
            faults>>

MCInit ==
    /\ of \in {"room", "jobs"}
    /\ Init /\ Legacy!Init

MCNext ==
    \/ of = "room" /\ Next /\ UNCHANGED <<of, legacy>>
    \/ of = "jobs" /\ Legacy!Next /\ UNCHANGED <<of, vars>>

MCSpec == MCInit /\ [][MCNext]_<<of, vars, legacy>>

\* A legacy controller that reports itself idle has no process at work.
QuietWhenIdle == Legacy!QuietWhenIdle
\* What is on record about launches and gates happened.
LaunchTruthful == Legacy!LaunchTruthful /\ Legacy!AcceptedVerified
=============================================================================
