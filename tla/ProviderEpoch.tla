--------------------------- MODULE ProviderEpoch ---------------------------
(***************************************************************************)
(* The delegate attachment of a room's engineer (ao_delegates.prepare, the *)
(* launcher of ao_delegate_launcher.py), the one provider transition that   *)
(* gives the room a second provider epoch (ao_provider_transition.py) and   *)
(* the routing adoption that makes this epoch dispatchable                 *)
(* (ao_routing_adoption.py).                                               *)
(*                                                                         *)
(* The launcher takes the adapter lock exclusively and room operations hold *)
(* it at least shared, so a launch falls between operations.  An operation  *)
(* that writes several files is one step that performs a prefix of its      *)
(* writes: all of them, or those before a crash.                           *)
(***************************************************************************)
EXTENDS Naturals, FiniteSets

CONSTANTS Sessions,   \* AO sessions that start the delegate in the worktree
          Ids,        \* identities of transition and adoption requests
          None,
          MaxEffort,  \* bound: moves of anything else than the operations modelled here
          MaxAudits,  \* bound: audits saved of each kind
          MaxCrashes  \* bound: operations cut short

Profile(prep) == IF prep = "original" THEN "source" ELSE "target"
Evidence == {"pinned", "key", "ledger", "probes"}
Files == 2    \* runtime files of the worktree that an adoption rewrites, one after the other

VARIABLES
    state,      \* state.json: prep, status, engineer, pt (committed transition), ra (adoption),
                \* requests of epoch 2, applied (the standing model policy's last word), other
    registry,   \* the deepseek entry of Claude's registry
    command,    \* a registering command that was given up and may still succeed
    live, archive,  \* the two places of delegate-launch.json
    server,     \* the delegate that runs under the engineer's session
    controller, \* AO's native controller of the session that is or becomes the engineer
    receipt, ptAudits,          \* transition: the receipt and the saved audits
    intent, raAudits, staged,   \* adoption: the intent, the saved audits, the staged files
    runtime,    \* how many runtime files are those of the adoption
    config,     \* AO's project configuration
    rows,       \* delegate jobs of each provider profile
    outside,    \* what changes by itself: native turns outside the room, candidate edits
    damaged,    \* the evidence that cannot be read or differs from what was recorded
    effort, crashes

disk == <<receipt, ptAudits, intent, raAudits, staged, runtime, live, archive>>
world == <<registry, command, server, controller, config, rows, outside, damaged>>
vars == <<state, disk, world, effort, crashes>>

Unprepared == [prep |-> None, status |-> None, engineer |-> None, pt |-> None, ra |-> None,
               requests |-> 0, applied |-> FALSE, other |-> 0]

\* A room just opened, or one with a bound engineer whose delegate was launched or not.
Init ==
    /\ \/ /\ state = Unprepared /\ live = None /\ registry \in {"absent", "ours", "foreign"}
          /\ controller = "ready"
       \/ \E e \in Sessions :
             /\ state = [Unprepared EXCEPT !.prep = "original", !.status = "configured", !.engineer = e]
             /\ live \in {None, [prep |-> "original", session |-> e]}
             /\ registry = "ours" /\ controller \in {"ready", "stopped"}
    /\ command = "none" /\ archive = None /\ server = None
    /\ receipt = None /\ ptAudits = {} /\ intent = None /\ raAudits = {} /\ staged = FALSE
    /\ runtime = 0 /\ config = "original" /\ outside = 0 /\ damaged = {}
    /\ rows = [p \in {"source", "target"} |-> 0]
    /\ effort = 0 /\ crashes = 0

Effort == effort < MaxEffort /\ effort' = effort + 1 /\ UNCHANGED crashes
\* How far an operation with n writes gets.
Prefix(n, k) ==
    \/ k = n /\ UNCHANGED crashes
    \/ k < n /\ crashes < MaxCrashes /\ crashes' = crashes + 1
By(k, at, new, old) == IF k >= at THEN new ELSE old

-----------------------------------------------------------------------------
(***************************************************************************)
(* What the operations of the room ask first.                              *)
(***************************************************************************)
\* The pinned provider files; the target's key file and profile, checked by the pinned code;
\* the ledger, which has lost no row; the receipts of paid probes.
validate_provider == "pinned" \notin damaged
_target == {"pinned", "key"} \cap damaged = {}
assert_settled == "ledger" \notin damaged
probe_evidence == "probes" \notin damaged

\* A receipt nobody committed stops the room unless its transition asks; a committed one
\* has its epoch, its original evidence and the archived launch.
validate(allow_pending) ==
    /\ state.pt = None => receipt = None \/ allow_pending
    /\ state.pt # None => validate_provider /\ (receipt.audit.launch # None => archive = receipt.audit.launch)
pending_gate == IF state.ra = None THEN intent = None ELSE state.ra.phase = "configured"
settled(pending_transition) == validate(pending_transition) /\ pending_gate

\* The preparation's own bytes, the registration, and a launch that is the engineer's own.
Launched(session) == [prep |-> state.prep, session |-> session]
validate_preparation(session) ==
    /\ state.status = "configured" /\ validate_provider /\ registry = "ours"
    /\ live \in {None, Launched(session)}
validate_local == runtime = IF state.prep = "adopted" THEN Files ELSE 0
RulesMatch == config = IF state.prep = "adopted" THEN "staged" ELSE "original"

-----------------------------------------------------------------------------
(***************************************************************************)
(* Attachment and launch.                                                  *)
(***************************************************************************)
\* The preparation is saved before the one command that registers it; when that command is
\* cut short the room stays pending and only an entry that is there completes it.
prepare ==
    /\ settled(FALSE) /\ validate_provider
    /\ \/ /\ state.status = None /\ state.engineer = None /\ registry # "foreign"
          /\ \E outcome \in {"done", "failed", "late", "crash"} :
                /\ registry' = IF outcome = "done" THEN "ours" ELSE registry
                /\ command' = IF outcome = "late" /\ registry = "absent" THEN "late" ELSE command
                /\ state' = [state EXCEPT !.prep = "original", !.status =
                      IF outcome = "done" \/ (outcome # "crash" /\ registry = "ours") THEN "configured" ELSE "pending"]
                /\ IF outcome = "crash" THEN Prefix(1, 0) ELSE UNCHANGED crashes
       \/ /\ state.status = "pending" /\ registry = "ours"
          /\ state' = [state EXCEPT !.status = "configured"]
          /\ UNCHANGED <<registry, command, crashes>>
    /\ UNCHANGED <<disk, server, controller, config, rows, outside, damaged, effort>>

\* The command that timed out succeeds after all, or the operator adds the entry.
Registered ==
    /\ \/ command = "late"
       \/ state.status = "pending"
    /\ registry = "absent" /\ registry' = "ours" /\ command' = "none"
    /\ UNCHANGED <<state, disk, server, controller, config, rows, outside, damaged, effort, crashes>>

\* Which room's delegate starts in this worktree for this session.
select(session) == state.status = "configured" /\ validate_provider /\ state.engineer \in {None, session}

\* AO starts the delegate: the launch is recorded once, an equal one again changes nothing.
record_launch(session) ==
    /\ select(session) /\ controller = "ready"
    /\ live \in {None, Launched(session)}
    /\ live' = Launched(session) /\ server' = Launched(session)
    /\ UNCHANGED <<state, receipt, ptAudits, intent, raAudits, staged, runtime, archive>>
    /\ UNCHANGED <<registry, command, controller, config, rows, outside, damaged, effort, crashes>>

bind(session) ==
    /\ settled(FALSE) /\ state.engineer = None
    /\ validate_preparation(session) /\ validate_local
    /\ state' = [state EXCEPT !.engineer = session]
    /\ UNCHANGED <<disk, world, effort, crashes>>

-----------------------------------------------------------------------------
(***************************************************************************)
(* The provider transition.                                                *)
(***************************************************************************)
\* The launch an audit finds; with a pending receipt, the one the receipt names, which must
\* still be in one of the two places.
_launch_evidence ==
    IF receipt = None THEN IF archive = None THEN {live} ELSE {}
    ELSE IF receipt.audit.launch = None THEN IF live = None /\ archive = None THEN {None} ELSE {}
    ELSE IF (live = receipt.audit.launch /\ archive \in {None, live}) \/ (live = None /\ archive = receipt.audit.launch)
         THEN {receipt.audit.launch} ELSE {}

\* Everything the transition rests on, compared as a whole.
_inspect ==
    {[state |-> state, launch |-> l, rows |-> rows, outside |-> outside] :
        l \in {x \in _launch_evidence : /\ settled(receipt # None) /\ state.pt = None
                                        /\ state.engineer # None /\ validate_preparation(state.engineer)
                                        /\ assert_settled /\ probe_evidence /\ _target}}

audit ==
    /\ receipt = None /\ Cardinality(ptAudits) < MaxAudits
    /\ \E evidence \in _inspect : ptAudits' = ptAudits \cup {evidence}
    /\ UNCHANGED <<state, receipt, intent, raAudits, staged, runtime, live, archive, world, effort, crashes>>

\* The launch is copied, then the live one is unlinked.
_archive_launch(k, launch) ==
    IF launch = None THEN UNCHANGED <<live, archive>>
    ELSE archive' = By(k, 3, launch, archive) /\ live' = By(k, 4, None, live)

\* Mutated form: the engineer's controller may still run.
_stopped_or_idle == TRUE
_stopped == controller = "stopped"

\* The receipt, the epoch's files, the archived launch, then state.json; a receipt that is
\* there is continued by the same request only.
transition(id, evidence) ==
    /\ evidence \in ptAudits /\ evidence \in _inspect /\ _stopped
    /\ LET record == [id |-> id, audit |-> evidence] IN
       /\ receipt \in {None, record}
       /\ \E k \in 0..5 :
             /\ Prefix(5, k)
             /\ receipt' = By(k, 1, record, receipt)
             /\ _archive_launch(k, evidence.launch)
             /\ state' = By(k, 5, [state EXCEPT !.prep = "epoch", !.pt = id], state)
    /\ UNCHANGED <<ptAudits, intent, raAudits, staged, runtime, world, effort>>

-----------------------------------------------------------------------------
(***************************************************************************)
(* The routing adoption.                                                   *)
(***************************************************************************)
WithoutAdoption == [state EXCEPT !.ra = None]
RaEvidence == [state |-> WithoutAdoption, rows |-> rows, outside |-> outside]

\* Before every launch, job and request of the new epoch, with the runtime files and the
\* project configuration still the original ones.
_inspect_adoption ==
    /\ settled(FALSE) /\ state.pt # None /\ state.ra = None /\ intent = None
    /\ state.requests = 0 /\ live = None /\ rows["target"] = 0 /\ _stopped
    /\ validate_preparation(state.engineer) /\ validate_local /\ RulesMatch
    /\ assert_settled /\ probe_evidence

audit_adoption ==
    /\ _inspect_adoption /\ Cardinality(raAudits) < MaxAudits
    /\ raAudits' = raAudits \cup {RaEvidence}
    /\ UNCHANGED <<state, receipt, ptAudits, intent, staged, runtime, live, archive, world, effort, crashes>>

\* What must still hold for a pending adoption: nothing it was audited on has moved.
_pending(record) ==
    /\ intent = record /\ RaEvidence = record.evidence
    /\ live = None /\ validate(TRUE) /\ registry = "ours" /\ _stopped /\ assert_settled /\ probe_evidence

\* The intent, state.json, the staged files, then the runtime files one by one.  The project
\* configuration is compared only after the first two.
stage(id, evidence) ==
    LET record == [id |-> id, evidence |-> evidence]
        ref == [id |-> id, phase |-> "pending"]
        n == IF config \in {"original", "staged"} THEN 3 + Files ELSE 2 IN
    /\ evidence \in raAudits
    /\ IF intent = None THEN _inspect_adoption /\ evidence = RaEvidence
                        ELSE state.ra \in {None, ref} /\ _pending(record)
    /\ \E k \in 0..n :
          /\ Prefix(n, k)
          /\ intent' = By(k, 1, record, intent)
          /\ state' = By(k, 2, [state EXCEPT !.ra = ref], state)
          /\ staged' = By(k, 3, TRUE, staged)
          /\ runtime' = IF k > 3 /\ k - 3 > runtime THEN k - 3 ELSE runtime
    /\ UNCHANGED <<receipt, ptAudits, raAudits, live, archive, world, effort>>

\* The operator applied the staged configuration: the adopted preparation becomes the room's.
activate(id) ==
    /\ state.ra = [id |-> id, phase |-> "pending"] /\ intent # None /\ _pending(intent)
    /\ config = "staged" /\ staged /\ runtime = Files
    /\ state' = [state EXCEPT !.ra.phase = "configured", !.prep = "adopted"]
    /\ UNCHANGED <<disk, world, effort, crashes>>

-----------------------------------------------------------------------------
(***************************************************************************)
(* The room's other operations, and everything else that moves.            *)
(***************************************************************************)
\* A request to the engineer in the second epoch: a ready controller, the launch of this
\* preparation, no turn the transition does not know, the certified attachment that only an
\* adopted preparation has, and the rules the preparation expects.
dispatch_gate ==
    /\ settled(FALSE) /\ state.pt # None /\ state.requests = 0
    /\ controller = "ready" /\ live = Launched(state.engineer) /\ validate_preparation(state.engineer)
    /\ \E evidence \in ptAudits : evidence.state = receipt.audit.state /\ evidence.outside = outside
    /\ state.prep = "adopted" /\ server = live /\ assert_settled
    /\ validate_local /\ RulesMatch
    /\ state' = [state EXCEPT !.requests = 1]
    /\ UNCHANGED <<disk, world, effort, crashes>>

\* Mutated form: an unclaimed receipt or intent does not stop the room.
RoomOperation_beside ==
    /\ Effort /\ validate(TRUE)
    /\ state' = [state EXCEPT !.other = @ + 1]
    /\ UNCHANGED <<disk, world>>

\* A new specification, a verification, a request of the first epoch.
RoomOperation ==
    /\ Effort /\ settled(FALSE)
    /\ state' = [state EXCEPT !.other = @ + 1]
    /\ UNCHANGED <<disk, world>>

\* A standing model policy is set, or says at an engineer send why it changed nothing: both
\* save state.json without asking what is pending, before the send itself is refused.
StandingPolicy ==
    /\ Effort /\ state.engineer # None /\ ~state.applied
    /\ state' = [state EXCEPT !.applied = TRUE]
    /\ UNCHANGED <<disk, world>>

\* AO stops the session, its delegate included, and starts it again.
Controller ==
    /\ \/ controller = "ready" /\ controller' = "stopped" /\ server' = None
       \/ controller = "stopped" /\ controller' = "ready" /\ UNCHANGED server
    /\ UNCHANGED <<state, disk, registry, command, config, rows, outside, damaged, effort, crashes>>

\* The running delegate does a job; jobs still active, which every operation refuses, are left out.
Job ==
    /\ Effort /\ server # None
    /\ rows' = [rows EXCEPT ![Profile(server.prep)] = @ + 1]
    /\ UNCHANGED <<state, disk, registry, command, server, controller, config, outside, damaged>>

\* The project configuration is set by hand, the staged one once it exists; turns are taken
\* outside the room; evidence is damaged and restored.
Outside ==
    /\ Effort
    /\ \/ config' \in {"original", "other"} \cup (IF staged THEN {"staged"} ELSE {})
          /\ UNCHANGED <<outside, damaged>>
       \/ outside' = outside + 1 /\ UNCHANGED <<config, damaged>>
       \/ damaged' \in {{}} \cup {{e} : e \in Evidence} /\ UNCHANGED <<config, outside>>
    /\ UNCHANGED <<state, disk, registry, command, server, controller, rows>>

Next ==
    \/ prepare \/ Registered \/ audit \/ audit_adoption \/ dispatch_gate
    \/ RoomOperation \/ StandingPolicy \/ Controller \/ Job \/ Outside
    \/ \E session \in Sessions : record_launch(session) \/ bind(session)
    \/ \E id \in Ids :
          \/ \E evidence \in ptAudits : transition(id, evidence)
          \/ \E evidence \in raAudits : stage(id, evidence)
          \/ activate(id)

Spec == Init /\ [][Next]_vars

-----------------------------------------------------------------------------
(***************************************************************************)
(* Properties.                                                             *)
(***************************************************************************)
\* A transition or an adoption that was cut short finds the room as it was when it started,
\* whatever else was asked of the room meanwhile; only a standing policy changes it.
SameRoom(before) == [WithoutAdoption EXCEPT !.applied = before.applied] = before
IntentsReconcilable ==
    /\ (receipt # None /\ state.pt = None) => SameRoom(receipt.audit.state)
    /\ (intent # None /\ (state.ra = None \/ state.ra.phase = "pending")) => SameRoom(intent.evidence.state)

\* No delegate of the source provider runs once the transition is committed, and an adopted
\* room has only ever launched the adopted delegate in its second epoch.
OneProviderAtATime ==
    /\ (state.pt # None /\ server # None) => server.prep # "original"
    /\ state.prep = "adopted" => /\ (server # None => server.prep = "adopted")
                                /\ (live # None => live.prep = "adopted")
                                /\ (rows["target"] > 0 => live # None)

\* The delegate that was launched is the bound engineer's: neither another session's launch
\* before the binding nor one after it ends beside an engineer it does not belong to.
LaunchIsTheEngineers ==
    live # None /\ state.engineer # None => live.session = state.engineer

\* From the moment a transition's receipt exists, the original launch it names is in one of
\* its two places, after every crash between the copy, the unlink and the commit.
LaunchEvidenceKept ==
    receipt # None /\ receipt.audit.launch # None => receipt.audit.launch \in {live, archive}

=============================================================================
