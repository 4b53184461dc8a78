--------------------------- MODULE MCAmendments ---------------------------
(* Instances for TLC of what changes a prepared room: the delegate's         *)
(* attachment, the engineer's model and its runtime.  They share no state,   *)
(* so a behaviour explores one of them and leaves the others as they start:  *)
(* the run covers them all, without their product.                           *)
EXTENDS McpAttachment, TLC

CONSTANTS MaxVer, MaxTurns, MaxAtts, MaxTrouble, Policies,
          MaxExe, MaxGuard, MaxWork, MaxIntents, MaxSpec, MaxApps

\* The bounds count versions.
ASSUME AmendmentBounds == {MaxVer, MaxExe, MaxGuard, MaxWork} \subseteq Nat
\* No member of the family, no application and no observation is None.
ASSUME ModelNone ==
    /\ None \notin Nat
    /\ None \notin [stage : {"audit"}, pol : Nat, from : Nat, to : Nat] \cup [stage : {"write"}, pol : Nat] \cup [stage : {"send"}]

VARIABLES of,   \* the module this behaviour explores
          start, turns, spec, atts, ptr, res, pol, apps, app, win, ao, late, qual, cand, drift,
          trouble,
          prepared, policy, requests, rev, applications, repairs, refreshes, files, guards,
          package, intact, native, tree, sending, window, changes

Model == INSTANCE ModelTransition
Runtime == INSTANCE RuntimeAmendments WITH
    turns <- requests, spec <- rev, apps <- applications, cand <- tree, app <- sending,
    win <- window, trouble <- changes

model == <<start, turns, spec, atts, ptr, res, pol, apps, app, win, ao, late, qual, cand, drift,
           trouble>>
amended == <<prepared, policy, requests, rev, applications, repairs, refreshes, files, guards,
             package, intact, native, tree, sending, window, changes>>

MCInit ==
    /\ Init /\ Model!Init /\ Runtime!Init
    /\ of \in {"attachment", "model", "runtime"}
    /\ of # "model" => turns = <<>> /\ pol.files = 0
    /\ of # "runtime" => prepared.work = 0 /\ ~policy

MCNext ==
    \/ of = "attachment" /\ Next /\ UNCHANGED <<of, model, amended>>
    \/ of = "model" /\ Model!Next /\ UNCHANGED <<of, vars, amended>>
    \/ of = "runtime" /\ Runtime!Next /\ UNCHANGED <<of, vars, model>>

MCSpec == MCInit /\ [][MCNext]_<<of, vars, model, amended>>

Symmetry == Permutations(Validators)

\* The engineer runs under the model of its epoch: each request under its own, AO is changed
\* once per request, and outside a transition it is configured for the epoch in force.
SettingsFollowEpoch == Model!EpochsFrozen /\ Model!PatchedOnce /\ Model!SettingsFollowEpoch
\* No crash leaves a transition that neither its request nor an abandonment can close.
TransitionClosable == Model!TransitionClosable
\* The runtime in force is what the two journals explain, fit for the selected workers, and
\* neither journal blocks the other.
RuntimeExplained ==
    /\ Runtime!RuntimeExplained
    /\ Runtime!FloorsHold
    /\ Runtime!ExpectationsAuthentic
    /\ Runtime!OneIntentAtATime
\* A turn keeps the runtime it was sent under.
RunsUnderOneRuntime == Runtime!RunsUnderOneRuntime
=============================================================================
