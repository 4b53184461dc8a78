----------------------------- MODULE MCReviews -----------------------------
(* Instances for TLC of the two modules of review allowances, of the legacy  *)
(* controller's reviews and of the change of the engineer's provider.  They  *)
(* share no state, so a behaviour explores one of them and leaves the others *)
(* as they start: the run covers them all, without their product.  For the   *)
(* same reason they can share the model values, and with them the symmetry.  *)
EXTENDS ReviewerAttempts, TLC

CONSTANTS MaxRev, MaxReviewTurns, Payloads,
          MAX_REVIEW_TURNS, MaxLegacyRev, MaxJobs, MaxFaults,
          MaxEffort, MaxAudits, MaxFails

\* A debate starts with four engineer requests.
ASSUME BudgetBounds ==
    {MaxRev, MaxReviewTurns, MaxCand} \subseteq Nat /\ MaxReviewTurns >= 4 /\ Payloads # {}
ASSUME LegacyBounds ==
    /\ {MAX_REVIEW_TURNS, MaxLegacyRev, MaxJobs, MaxFaults} \subseteq Nat
    /\ None \notin {"accept", "changes_required", "auth"}
\* None is no number and no answer.
ASSUME BudgetNone ==
    None \notin Nat \cup {"accept", "changes", "prose", "same", "differs", "done", "scope_change"}
\* None is no identity and no record of the provider's.
ASSUME ProviderNone ==
    None \notin Reviews \cup {"original", "epoch", "adopted", "pending", "configured"}
               \cup [prep : {"original", "epoch", "adopted"}, session : Requests]
               \cup [id : Reviews, phase : {"pending", "configured"}]

VARIABLES of,   \* the module this behaviour explores
          rev, handed, requests, tree, taken, ext, rr, chains, active, record, window, moved, deaths,
          lrev, approved, asked, watermark, started, job, issue, handoffs, sup, ex, claude,
          session, faults,
          state, registry, command, live, archive, server, controller, receipt, ptAudits,
          intent, raAudits, staged, runtime, config, rows, outside, damaged, effort, fails

Budget == INSTANCE SpecReviews WITH
    MaxTurns <- MaxReviewTurns, spec <- rev, handoff <- handed, turns <- requests, cand <- tree,
    accepted <- taken, audit <- record, win <- window, edits <- moved, crashes <- deaths
Legacy == INSTANCE LegacyReview WITH MaxRev <- MaxLegacyRev, rev <- lrev, turns <- asked
Provider == INSTANCE ProviderEpoch WITH
    Sessions <- Requests, Ids <- Reviews, MaxCrashes <- MaxFails, crashes <- fails

budget == <<rev, handed, requests, tree, taken, ext, rr, chains, active, record, window, moved, deaths>>
legacy == <<lrev, approved, asked, watermark, started, job, issue, handoffs, sup, ex, claude,
            session, faults>>
provider == <<state, registry, command, live, archive, server, controller, receipt, ptAudits,
              intent, raAudits, staged, runtime, config, rows, outside, damaged, effort, fails>>

MCInit ==
    /\ Init /\ Budget!Init /\ Legacy!Init /\ Provider!Init
    /\ of \in {"attempts", "reviews", "legacy", "provider"}
    /\ of # "reviews" => rev = 1 /\ taken = 0 /\ Len(requests) = 4 /\ requests[2].answer = "done"
    /\ of # "attempts" => Len(turns) = 1
    /\ of # "provider" => state.prep = None /\ registry = "absent"

MCNext ==
    \/ of = "attempts" /\ Next /\ UNCHANGED <<of, budget, legacy, provider>>
    \/ of = "reviews" /\ Budget!Next /\ UNCHANGED <<of, vars, legacy, provider>>
    \/ of = "legacy" /\ Legacy!Next /\ UNCHANGED <<of, vars, budget, provider>>
    \/ of = "provider" /\ Provider!Next /\ UNCHANGED <<of, vars, budget, legacy>>

MCSpec == MCInit /\ [][MCNext]_<<of, vars, budget, legacy, provider>>

Symmetry == Permutations(Requests) \cup Permutations(Reviews)

\* No allowance of a debate is spent twice, and without one the debate is bounded.
AllowancesSpentOnce == Budget!AllowancesSpentOnce /\ Budget!DebateBounded
\* No operation of a room takes an allowance from its holder: a grant of a debate or of an
\* attempt beyond three.
AllowanceNotLost == Budget!AllowanceNotLost /\ GrantNotLost
\* An engineering turn rests on a real acceptance of its specification.
AgreementGrounded == Budget!AgreementGrounded
\* The budget of the legacy reviews holds.
ReviewsBounded == Legacy!ReviewsBounded
\* A handoff rests on the last reply.
HandoffFollowsReply == Legacy!HandoffFollowsReply
\* What a crash cuts short can be reconciled, and the launch evidence it needs is kept.
IntentsReconcilable == Provider!IntentsReconcilable /\ Provider!LaunchEvidenceKept
\* One provider works for the room, and the delegate launched is the bound engineer's.
OneProviderAtATime == Provider!OneProviderAtATime /\ Provider!LaunchIsTheEngineers
=============================================================================
