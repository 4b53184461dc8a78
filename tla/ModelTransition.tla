-------------------------- MODULE ModelTransition --------------------------
(***************************************************************************)
(* The model of the engineer of a normal AO room: the epochs its requests  *)
(* belong to, the audited transition that opens the next one, abandonment, *)
(* and the standing policy that starts a transition before a send.         *)
(*                                                                         *)
(* A transition stores an intent file, names it in state.json, stores a    *)
(* marker, sends one PATCH to AO, and commits only what it then observes:  *)
(* the record file first, the pointer in state.json last.  A crash may     *)
(* fall between any two of them; a PATCH that timed out may still arrive.  *)
(*                                                                         *)
(* Left to other modules: delivery of a request and its outcome            *)
(* (AoDispatch), specifications and captures (AoLifecycle).                *)
(***************************************************************************)
EXTENDS Naturals, Sequences, FiniteSets, FiniteSetsExt

CONSTANTS MaxVer,     \* bound: exact members of the one family
          MaxTurns,   \* bound: engineer requests
          MaxAtts,    \* bound: transition requests
          MaxApps,    \* bound: records of standing applications
          MaxTrouble, \* bound: crashes, late PATCHes, changes beside the transition
          Policies,   \* whether rooms may hold a standing policy: a set of BOOLEANs
          None

\* The configured value of the family alias; an exact member is its version.
Alias == 0

VARIABLES
    start,    \* the room's initial selection
    turns,    \* state.json: the engineer requests in creation order
    spec,     \* state.json: the specification revision
    atts,     \* engineering-model/: the intents in order, each with its marker and record
    ptr,      \* state.json: how many intents are claimed and the state of the last
    res,      \* the resolution of a historical family epoch: file and reference
    pol,      \* the standing policy: record files, the record state.json names
    apps,     \* state.json: the count of standing applications recorded
    app,      \* the send between the lock windows of its standing application
    win,      \* the operation between two of its writes
    ao,       \* the native side: settings, controller generation, up or stopped
    late,     \* values of PATCHes that timed out and may still be applied
    qual,     \* the member today's operator qualification pins for the family
    cand,     \* the candidate content of the worktree
    drift,    \* ghost: AO's settings changed with no transition pending
    trouble

room == <<turns, spec, res, pol, apps>>
vars == <<start, room, atts, ptr, app, win, ao, late, qual, cand, drift, trouble>>
beside == <<ao, late, qual, cand, drift>>

Idle == [op |-> "idle"]
Target(m, q) == [model |-> m, qual |-> q]

\* A room pinned to an exact member, with or without a policy, and a historical room
\* on an unqualified family whose one request is completed.
Init ==
    /\ \/ start = Target(1, None) /\ turns = <<>>
       \/ start = Target(Alias, None) /\ turns = <<[model |-> Alias, expected |-> None, state |-> "completed"]>>
    /\ pol \in {[files |-> 0, head |-> 0, active |-> FALSE]} \cup
              {[files |-> 1, head |-> 1, active |-> p] : p \in Policies \cap {start.model # Alias}}
    /\ spec = 1
    /\ atts = <<>>
    /\ ptr = [n |-> 0, state |-> "none"]
    /\ res = [file |-> FALSE, named |-> FALSE]
    /\ apps = 0
    /\ app = None
    /\ win = Idle
    /\ ao = [settings |-> start.model, gen |-> 0, up |-> TRUE]
    /\ late = {}
    /\ qual = 1
    /\ cand = 0
    /\ drift = FALSE
    /\ trouble = 0

\* Bounded: what comes beside the plain course of a transition.
Troubled == trouble < MaxTrouble /\ trouble' = trouble + 1

-----------------------------------------------------------------------------
(***************************************************************************)
(* Reading the journals.                                                   *)
(***************************************************************************)
Pending == ptr.state = "pending"
committed == {i \in 1..ptr.n : IF i = ptr.n THEN ptr.state = "committed" ELSE atts[i].record = "committed"}

\* The first epoch (0), and one of each committed record from the request after its
\* boundary on.
epochs == {0} \cup committed
epoch(k) ==
    IF k = 0 THEN [target |-> start, from |-> 1]
    ELSE [target |-> atts[k].target, from |-> atts[k].boundary + 1]
current == epoch(Max(epochs)).target
epoch_for_order(i) == epoch(Max({k \in epochs : k = 0 \/ epoch(k).from <= i})).target
pending_resolution == res.file /\ ~res.named

\* An unclaimed intent damages the journal for everyone but its own request; a
\* resolution of another epoch than the latest damages it for good.
_chain == Len(atts) = ptr.n
_resolutions == pending_resolution => committed = {}
journal(allow_pending) == _chain /\ _resolutions /\ (allow_pending \/ ~Pending)

finished == \A i \in DOMAIN turns : turns[i].state = "completed"
settled(allow_pending) == journal(allow_pending) /\ finished

\* What the next request under an epoch is expected to be served by.
_frozen(t) == IF t.model # Alias THEN t.model ELSE t.qual

-----------------------------------------------------------------------------
(***************************************************************************)
(* What the audit freezes and every later step compares.                   *)
(***************************************************************************)
\* The digest is of the whole of state.json but the transition head.
_state_digest == <<turns, spec, res.named, pol.head, pol.active, apps>>

evidence == [state |-> _state_digest, source |-> current, settings |-> ao.settings, gen |-> ao.gen, cand |-> cand]

\* The operator's current policy: every exact member, and the alias once a family
\* qualification pins a member for it.
_resolve_target(m) == IF m = Alias THEN Target(Alias, qual) ELSE Target(m, None)

\* Mutated form: the request goes on beside the resolution that a crash left.
_inspect_beside_resolution(m) ==
    /\ settled(FALSE)
    /\ ao.up
    /\ ao.settings = current.model
    /\ m = current.model => m = Alias

\* An audit needs the room settled, the resolution claimed, AO at the source, the
\* controller ready and the owner idle; a repeated value only re-pins the alias.
_inspect(m) ==
    /\ settled(FALSE)
    /\ ~pending_resolution
    /\ ao.up
    /\ ao.settings = current.model
    /\ m = current.model => m = Alias

frozen(a) == evidence.state = a.ev.state /\ evidence.cand = a.ev.cand

_require_unchanged(a) ==
    /\ settled(TRUE)
    /\ frozen(a)
    /\ ao = [settings |-> a.ev.settings, gen |-> a.ev.gen, up |-> TRUE]

-----------------------------------------------------------------------------
(***************************************************************************)
(* The transition.                                                         *)
(***************************************************************************)
Intent(id, m) ==
    [id |-> id, source |-> current, target |-> _resolve_target(m), reset |-> m = current.model,
     boundary |-> Len(turns), ev |-> evidence, marker |-> FALSE, patches |-> 0,
     record |-> "none", observed |-> None]

Ids == {atts[i].id : i \in DOMAIN atts}

_store_intent(id, m, own) ==
    /\ Len(atts) < MaxAtts
    /\ id \notin Ids
    /\ _inspect(m)
    /\ atts' = Append(atts, Intent(id, m))
    /\ win' = [op |-> "intent", own |-> own]

\* A manual request, with the values of its audit.
_apply(m) ==
    /\ win = Idle
    /\ _store_intent([by |-> "manual", n |-> Len(atts)], m, FALSE)
    /\ UNCHANGED <<start, room, ptr, app, beside, trouble>>

\* A request that meets a resolution left by a crash claims it and asks for a new
\* audit.
_claim_pending_resolution ==
    /\ win = Idle
    /\ pending_resolution
    /\ journal(TRUE) /\ ~Pending
    /\ res' = [res EXCEPT !.named = TRUE]
    /\ UNCHANGED <<start, turns, spec, pol, apps, atts, ptr, app, win, beside, trouble>>

_publish_intent ==
    /\ win.op = "intent"
    /\ ptr' = [n |-> Len(atts), state |-> "pending"]
    /\ win' = [win EXCEPT !.op = "advance"]
    /\ UNCHANGED <<start, room, atts, app, beside, trouble>>

\* The identical request claims the intent a crash left unnamed, if nothing in
\* state.json changed.
_claim ==
    /\ win = Idle
    /\ Len(atts) = ptr.n + 1
    /\ _state_digest = atts[Len(atts)].ev.state
    /\ ptr' = [n |-> Len(atts), state |-> "pending"]
    /\ win' = [op |-> "advance", own |-> FALSE]
    /\ UNCHANGED <<start, room, atts, app, beside, trouble>>

\* The identical request finds its attempt pending.
_reconcile ==
    /\ win = Idle
    /\ Pending
    /\ settled(TRUE)
    /\ atts[ptr.n].record # "abandoned"
    /\ win' = [op |-> "advance", own |-> FALSE]
    /\ UNCHANGED <<start, room, atts, ptr, app, beside, trouble>>

needs_patch(a) == ~a.reset /\ ~a.marker /\ a.record = "none"

\* The marker is stored against unchanged evidence before the one PATCH.
_advance ==
    /\ win.op = "advance"
    /\ LET a == atts[ptr.n] IN
       IF ~needs_patch(a) THEN win' = [win EXCEPT !.op = "settle"] /\ UNCHANGED atts
       ELSE IF _require_unchanged(a)
            THEN /\ atts' = [atts EXCEPT ![ptr.n].marker = TRUE]
                 /\ win' = [win EXCEPT !.op = "patch"]
            ELSE win' = Idle /\ UNCHANGED atts
    /\ UNCHANGED <<start, room, ptr, app, beside, trouble>>

\* AO applies it, loses it, or applies it after the client gave up.
PATCH ==
    /\ win.op = "patch"
    /\ LET m == atts[ptr.n].target.model IN
       \/ ao.up /\ ao' = [ao EXCEPT !.settings = m] /\ UNCHANGED <<late, trouble>>
       \/ UNCHANGED <<ao, late, trouble>>
       \/ Troubled /\ late' = late \cup {m} /\ UNCHANGED ao
    /\ atts' = [atts EXCEPT ![ptr.n].patches = @ + 1]
    /\ win' = [win EXCEPT !.op = "settle"]
    /\ UNCHANGED <<start, room, ptr, app, qual, cand, drift>>

\* The observation that may commit: the target's settings (the source's, for a
\* re-pinned alias), a ready controller of the same generation.
observed_after(a) ==
    ao = [settings |-> IF a.reset THEN a.ev.settings ELSE a.target.model, gen |-> a.ev.gen, up |-> TRUE]

\* A stored record only repeats the observation it holds, which is the same.
_settle ==
    /\ win.op = "settle"
    /\ LET a == atts[ptr.n] IN
       IF observed_after(a) /\ frozen(a)
       THEN /\ atts' = [atts EXCEPT ![ptr.n].record = "committed", ![ptr.n].observed = ao]
            /\ win' = [op |-> "record", own |-> win.own, state |-> "committed"]
       ELSE win' = Idle /\ UNCHANGED atts
    /\ UNCHANGED <<start, room, ptr, app, beside, trouble>>

_publish_record ==
    /\ win.op = "record"
    /\ ptr' = [ptr EXCEPT !.state = win.state]
    /\ win' = Idle
    /\ UNCHANGED <<start, room, atts, app, beside, trouble>>

\* Mutated form: the settings are not looked at again.
abandonable_unobserved(a) == frozen(a) /\ a.record # "committed"

\* Also the identical request's way to finish an abandonment.  AO is at the source again; the controller may have stopped or restarted.
abandonable(a) == frozen(a) /\ ao.settings = a.ev.settings /\ a.record # "committed"

_abandon_locked ==
    /\ win = Idle
    /\ Pending
    /\ settled(TRUE)
    /\ abandonable(atts[ptr.n])
    /\ atts' = IF atts[ptr.n].record = "abandoned" THEN atts
               ELSE [atts EXCEPT ![ptr.n].record = "abandoned", ![ptr.n].observed = ao]
    /\ win' = [op |-> "record", own |-> FALSE, state |-> "abandoned"]
    /\ UNCHANGED <<start, room, ptr, app, beside, trouble>>

-----------------------------------------------------------------------------
(***************************************************************************)
(* The standing policy: the lock windows of apply before a send.           *)
(***************************************************************************)
PolicyReadable == pol.files = pol.head

record(action) ==
    /\ win = Idle
    /\ TRUE \in Policies
    /\ Troubled
    /\ PolicyReadable
    /\ \/ action = "set" /\ journal(FALSE) /\ current.model # Alias
       \/ action = "revoke" /\ pol.active /\ journal(TRUE)
    /\ pol' = [pol EXCEPT !.files = @ + 1]
    /\ win' = [op |-> "policy", own |-> FALSE, active |-> action = "set"]
    /\ UNCHANGED <<start, turns, spec, res, apps, atts, ptr, app, beside>>

record_save ==
    /\ win.op = "policy"
    /\ pol' = [pol EXCEPT !.head = pol.files, !.active = win.active]
    /\ win' = Idle
    /\ UNCHANGED <<start, turns, spec, res, apps, atts, ptr, app, beside, trouble>>

\* Strictly newer than the exact member in force.
follows == current.model # Alias /\ qual > current.model

\* The first window either decides to move or records why not: an open request, a
\* pending transition, no newer member.
apply ==
    /\ win = Idle
    /\ app = None
    /\ pol.active /\ PolicyReadable
    /\ Len(turns) < MaxTurns
    /\ IF finished /\ journal(TRUE) /\ ~Pending /\ follows
       THEN app' = [stage |-> "audit", pol |-> pol.head, from |-> current.model, to |-> qual] /\ UNCHANGED apps
       ELSE /\ ~finished \/ journal(TRUE)
            /\ apps < MaxApps
            /\ apps' = apps + 1
            /\ app' = [stage |-> "send"]
    /\ UNCHANGED <<start, turns, spec, res, pol, atts, ptr, win, beside, trouble>>

\* The precondition under the transition's own lock.
_policy_unchanged == pol.head = app.pol /\ pol.active /\ current.model = app.from

\* The transition under the standing record's authority; its identity is the
\* policy record, the epoch and the qualification.
apply_transition ==
    /\ win = Idle
    /\ app # None /\ app.stage = "audit"
    /\ LET id == [by |-> "standing", pol |-> app.pol, epoch |-> Cardinality(epochs), to |-> app.to] IN
       IF journal(TRUE) /\ _policy_unchanged /\ _inspect(app.to) /\ id \notin Ids /\ Len(atts) < MaxAtts
       THEN _store_intent(id, app.to, TRUE)
       ELSE UNCHANGED <<atts, win>>
    /\ app' = [stage |-> "write", pol |-> app.pol]
    /\ UNCHANGED <<start, room, ptr, beside, trouble>>

\* The last window records the outcome, whatever it was; state.json takes it while
\* the policy it was under is the current one.
_write_application ==
    /\ win = Idle
    /\ app # None /\ app.stage = "write"
    /\ IF pol.head = app.pol THEN apps < MaxApps /\ apps' = apps + 1 ELSE UNCHANGED apps
    /\ app' = [stage |-> "send"]
    /\ UNCHANGED <<start, turns, spec, res, pol, atts, ptr, win, beside, trouble>>

-----------------------------------------------------------------------------
(***************************************************************************)
(* The send, and the rest of the room.                                     *)
(***************************************************************************)
\* A send is through its standing application, or there is no policy to apply.
boundary_passed ==
    IF app = None THEN pol.head = 0 \/ (PolicyReadable /\ ~pol.active) ELSE app.stage = "send"

admitted ==
    /\ win = Idle
    /\ boundary_passed
    /\ Len(turns) < MaxTurns
    /\ settled(FALSE)
    /\ ao.settings = current.model

unresolved == current.model = Alias /\ current.qual = None /\ ~res.named

\* The resolution of a historical family epoch is stored before state.json names it.
adopt_resolution ==
    /\ admitted
    /\ unresolved /\ turns # <<>>
    /\ res' = [res EXCEPT !.file = TRUE]
    /\ win' = [op |-> "resolution", own |-> TRUE]
    /\ UNCHANGED <<start, turns, spec, pol, apps, atts, ptr, app, beside, trouble>>

\* The send that adopted it is refused: an unqualified family freezes nothing.
adopt_resolution_save ==
    /\ win.op = "resolution"
    /\ res' = [res EXCEPT !.named = TRUE]
    /\ win' = Idle
    /\ app' = None
    /\ UNCHANGED <<start, turns, spec, pol, apps, atts, ptr, beside, trouble>>

\* The request carries the epoch in force.
freeze_request ==
    /\ admitted
    /\ current.model = Alias => current.qual # None
    /\ turns' = Append(turns, [model |-> current.model, expected |-> _frozen(current), state |-> "active"])
    /\ app' = None
    /\ UNCHANGED <<start, spec, res, pol, apps, atts, ptr, win, beside, trouble>>

\* Any gate refuses it; what its standing application recorded stays.
send_refused ==
    /\ win = Idle
    /\ app # None /\ app.stage = "send"
    /\ app' = None
    /\ UNCHANGED <<start, room, atts, ptr, win, beside, trouble>>

sync ==
    /\ win = Idle
    /\ \E i \in DOMAIN turns :
          /\ turns[i].state = "active"
          /\ turns' = [turns EXCEPT ![i].state = "completed"]
    /\ UNCHANGED <<start, spec, res, pol, apps, atts, ptr, app, win, beside, trouble>>

\* Stands for every operation behind settled() that writes state.json.
spec_put ==
    /\ win = Idle
    /\ settled(FALSE)
    /\ Troubled
    /\ spec' = spec + 1
    /\ UNCHANGED <<start, turns, res, pol, apps, atts, ptr, app, win, beside>>

Outside ==
    /\ Troubled
    /\ UNCHANGED <<start, room, atts, ptr, app, win>>

\* AO stops or restarts the controller; a restart is another generation.
Stop == Outside /\ ao.up /\ ao' = [ao EXCEPT !.up = FALSE] /\ UNCHANGED <<late, qual, cand, drift>>
Start ==
    /\ ~ao.up
    /\ ao' = [ao EXCEPT !.up = TRUE, !.gen = @ + 1]
    /\ UNCHANGED <<start, room, atts, ptr, app, win, late, qual, cand, drift, trouble>>

\* No observation of the settings is still to come.
Unwatched == ~Pending \/ atts[ptr.n].record # "none"

Changed(m) ==
    /\ m # ao.settings
    /\ ao' = [ao EXCEPT !.settings = m]
    /\ drift' = (drift \/ Unwatched)

\* Somebody changes the model in AO's own interface.
Hand(m) == Outside /\ Changed(m) /\ UNCHANGED <<late, qual, cand>>

\* A PATCH nobody waits for any more arrives.
Arrive(m) ==
    /\ ao.up
    /\ m \in late
    /\ late' = late \ {m}
    /\ ao' = [ao EXCEPT !.settings = m]
    /\ drift' = (drift \/ (m # ao.settings /\ Unwatched))
    /\ UNCHANGED <<start, room, atts, ptr, app, win, qual, cand, trouble>>

Edit == Outside /\ cand' = 1 - cand /\ UNCHANGED <<ao, late, qual, drift>>

\* The operator adopts a qualification that pins a newer member.
Qualify ==
    /\ qual < MaxVer
    /\ Troubled
    /\ qual' = qual + 1
    /\ UNCHANGED <<start, room, atts, ptr, app, win, ao, late, cand, drift>>

\* A controller dies.  The send and another operation may be two processes.
Crash ==
    /\ Troubled
    /\ win' = Idle
    /\ \/ win # Idle /\ (IF win.own THEN app' = None ELSE UNCHANGED app)
       \/ win = Idle /\ app # None /\ app' = None
    /\ UNCHANGED <<start, room, atts, ptr, beside>>

Models == {Alias} \cup 1..MaxVer

Next ==
    \/ \E m \in Models : _apply(m) \/ Hand(m) \/ Arrive(m)
    \/ _claim_pending_resolution \/ _publish_intent \/ _claim \/ _reconcile \/ _advance \/ PATCH \/ _settle \/ _publish_record
    \/ _abandon_locked
    \/ \E action \in {"set", "revoke"} : record(action)
    \/ record_save \/ apply \/ apply_transition \/ _write_application
    \/ adopt_resolution \/ adopt_resolution_save \/ freeze_request \/ send_refused
    \/ sync \/ spec_put
    \/ Stop \/ Start \/ Edit \/ Qualify \/ Crash

Spec == Init /\ [][Next]_vars

-----------------------------------------------------------------------------
(***************************************************************************)
(* Properties.                                                             *)
(***************************************************************************)
TypeOK ==
    /\ ptr \in [n : 0..MaxAtts, state : {"none", "pending", "committed", "abandoned"}]
    /\ Len(atts) \in {ptr.n, ptr.n + 1}
    /\ ao \in [settings : Models, gen : Nat, up : BOOLEAN]
    /\ late \subseteq Models

\* While no transition is open, AO is configured for the epoch in force, unless a
\* hand or a PATCH that was given up changed it since (_settle, _abandon_locked).
SettingsFollowEpoch == ~drift /\ ~Pending => ao.settings = current.model

\* A crash never leaves a journal that its own request cannot go on with, as long
\* as AO and the worktree are as that request saw them: an unclaimed intent can be
\* claimed, a pending one committed or abandoned, an unclaimed resolution adopted.
\* (Bookkeeping says whether the records of the standing policy may come between.)
Closable(Bookkeeping(_)) ==
    /\ _resolutions
    /\ win = Idle /\ Len(atts) = ptr.n + 1 /\ Bookkeeping(atts[Len(atts)]) => _state_digest = atts[Len(atts)].ev.state
    /\ win = Idle /\ Pending =>
          LET a == atts[ptr.n] IN
          /\ Bookkeeping(a)
          /\ cand = a.ev.cand
          /\ ao.up /\ ao.gen = a.ev.gen
          /\ IF a.record = "none" THEN ao.settings \in {a.ev.settings, a.target.model}
             ELSE ao.settings = a.observed.settings
          => settled(TRUE) /\ ((observed_after(a) /\ frozen(a)) \/ abandonable(a))

\* No record of the standing policy was written since the intent.
NoneSince(a) == <<pol.head, pol.active, apps>> = SubSeq(a.ev.state, 4, 6)

\* A transition stays closable through crashes, late PATCHes and refused operations
\* while the standing policy writes nothing (_claim, _settle, _abandon_locked).
TransitionClosable == Closable(NoneSince)

\* What the guide says: a pending attempt can be committed by the identical request
\* or abandoned, and ordinary writes are blocked until then.
Anything(a) == TRUE
PendingAlwaysClosable == Closable(Anything)

\* Every request keeps the model and the expectation of the epoch its order lies
\* in, however many epochs are opened, abandoned or re-pinned after it
\* (check_request, epoch_for_order).
EpochsFrozen ==
    \A i \in DOMAIN turns :
        /\ turns[i].model = epoch_for_order(i).model
        /\ turns[i].expected = _frozen(epoch_for_order(i))

\* One request changes AO at most once, whatever is lost, late or retried, and a
\* re-pinned alias not at all (_advance: "never repeated blindly").
PatchedOnce == \A i \in DOMAIN atts : atts[i].patches <= (IF atts[i].reset THEN 0 ELSE 1)

=============================================================================
