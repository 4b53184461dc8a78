------------------------- MODULE RuntimeAmendments -------------------------
(***************************************************************************)
(* What an engineer runs under in a normal AO room, and its two amendments *)
(* in place: executable-bindings/ replaces the Claude executable, and      *)
(* routing-refresh/ replaces the routing guard and the worker selectors.   *)
(*                                                                         *)
(* Both store an immutable intent first and name it in state.json last; a  *)
(* refresh places a guard and three runtime files in between.  A crash may *)
(* fall between any two writes; only the identical request may go on, and  *)
(* only on the state and the evidence the intent recorded.  Requests       *)
(* freeze the selectors they run under and carry a notice of them.         *)
(***************************************************************************)
EXTENDS Naturals, Sequences, FiniteSets, SequencesExt

CONSTANTS MaxTurns,   \* bound: engineer requests
          MaxExe,     \* bound: Claude executables, by version
          MaxGuard,   \* bound: routing guards of the installed package
          MaxWork,    \* bound: worker qualifications of the operator
          MaxIntents, \* bound: intents of each journal
          MaxSpec,    \* bound: specification revisions
          MaxApps,    \* bound: records of standing applications
          MaxTrouble, \* bound: crashes and changes beside the room
          None

Purposes == {"spec_review", "implementation"}

VARIABLES
    prepared,   \* the routing of the preparation
    policy,     \* whether the room holds a standing model policy
    turns,      \* state.json: the engineer requests in creation order
    spec,       \* state.json: the specification revision
    apps,       \* state.json: standing applications recorded
    repairs,    \* executable-bindings/: the intents and how many are claimed
    refreshes,  \* routing-refresh/: the intents and how many are claimed
    files,      \* the settings and the two agent definitions in the worktree
    guards,     \* the guards retained in launchers/
    package,    \* the guard of the installed package, the qualification selected
    intact,     \* executables whose bytes are as recorded
    native,     \* the engineer's controller and whether a turn runs
    cand,       \* the candidate content of the worktree
    app,        \* a send between the windows of its standing application
    win,        \* an amendment between two of its writes
    trouble

room == <<turns, spec, apps>>
journals == <<repairs, refreshes>>
beside == <<package, intact, native, cand>>
vars == <<prepared, policy, room, journals, files, guards, beside, app, win, trouble>>

Idle == [op |-> "idle"]
Route(g, w) == [guard |-> g, work |-> w]

\* ao_routing.FILES in order: the settings name the guard, the agents the workers.
Image(r) == <<r.guard, r.work, r.work>>

\* A qualification maps both worker families to exact models and the oldest Claude Code
\* they run on; 0 stands for the historical selectors without one.
Floor(w) == w
check_qualified_floors(r, exe) == Floor(r.work) <= exe

\* A prepared room, qualified or historical, before its first request.
Init ==
    /\ prepared \in {Route(0, w) : w \in 0..1}
    /\ policy \in BOOLEAN
    /\ turns = <<>> /\ spec = 1 /\ apps = 0
    /\ repairs = [files |-> <<>>, n |-> 0]
    /\ refreshes = [files |-> <<>>, n |-> 0]
    /\ files = Image(prepared)
    /\ guards = {prepared.guard}
    /\ package = Route(0, 1)
    /\ intact = 1..MaxExe
    /\ native = [controller |-> "stopped", running |-> FALSE]
    /\ cand = 0
    /\ app = FALSE
    /\ win = Idle
    /\ trouble = 0

Troubled == trouble < MaxTrouble /\ trouble' = trouble + 1

-----------------------------------------------------------------------------
(***************************************************************************)
(* Reading the journals.                                                   *)
(***************************************************************************)
Unclaimed(j) == Len(j.files) > j.n
_chain(j) == ~Unclaimed(j)
\* An intent appears whole, under its final name, or not at all.
_publish_intent(j, record) == [j EXCEPT !.files = Append(@, record)]
Claim(j) == [j EXCEPT !.n = Len(j.files)]

\* A record is read by the pointer that state.json or a later record names.
executable == IF repairs.n = 0 THEN 1 ELSE repairs.files[repairs.n].target
routing == IF refreshes.n = 0 THEN prepared ELSE refreshes.files[refreshes.n].target

\* The digest of the whole of state.json.
_state_digest == <<room, repairs.n, refreshes.n>>

\* Mutated form: a request counts as settled once no turn runs.
finished_when_idle == ~native.running

finished == \A i \in DOMAIN turns : turns[i].state = "completed"

\* The bytes at the path are still the recorded ones.
_fingerprint(exe) == exe \in intact

executable_effective == _chain(repairs) /\ _fingerprint(executable)
refreshed_effective == _chain(refreshes) /\ files = Image(routing)

validate_local ==
    /\ refreshed_effective
    /\ routing.guard \in guards
    /\ executable_effective
    /\ check_qualified_floors(routing, executable)

-----------------------------------------------------------------------------
(***************************************************************************)
(* The frozen expectation of a request and the notice that discloses it.   *)
(* An authority is 0 for the preparation, or the number of a refresh.      *)
(***************************************************************************)
authority_in_force == refreshes.n

\* The committed record the exact authority names, when its routing is the reference.
historical_routing(reference, authority) ==
    IF authority = 0 THEN IF reference = prepared THEN 0 ELSE None
    ELSE IF authority \in 1..refreshes.n /\ refreshes.files[authority].target = reference THEN authority ELSE None

authentic(notice) == historical_routing(notice.routing, notice.authority) = notice.authority

current_worker_boundary ==
    IF routing.work = 0 THEN {} ELSE {[authority |-> authority_in_force, routing |-> routing]}

\* The notices of completed requests; each must still be the record it names.
delivered == UNION {turns[i].notices : i \in {k \in DOMAIN turns : turns[k].state = "completed"}}
delivered_notice == \A notice \in delivered : authentic(notice)
pending_notices(purpose) == IF purpose = "implementation" THEN current_worker_boundary \ delivered ELSE {}

\* Only work that may delegate freezes the workers it runs with, and needs them qualified.
freeze(purpose) ==
    IF purpose = "implementation"
    THEN [authority |-> authority_in_force, routing |-> routing]
    ELSE None
freezable(purpose) == purpose = "implementation" => validate_local /\ routing.work # 0

-----------------------------------------------------------------------------
(***************************************************************************)
(* The operations of the room beside the amendments.                       *)
(***************************************************************************)
\* Every room mutation asks the refresh journal; none asks the executable journal.
_routing_refresh_gate == _chain(refreshes)
settled == _routing_refresh_gate /\ finished
quiet == settled /\ ~native.running

\* The first lock window of a send to the engineer: the standing policy finds nothing newer
\* to move to, or defers, and records that before any gate of the send is asked.
StandingApply ==
    /\ policy /\ win = Idle /\ ~app
    /\ Len(turns) < MaxTurns /\ apps < MaxApps
    /\ app' = TRUE /\ apps' = apps + 1
    /\ UNCHANGED <<prepared, policy, turns, spec, journals, files, guards, beside, win, trouble>>

\* Its second window: the gates, the readiness of the executable, the frozen expectation,
\* the authentication of every notice delivered before, and the request.
Send(purpose) ==
    /\ win = Idle /\ app = policy /\ Len(turns) < MaxTurns
    /\ quiet
    /\ executable_effective
    /\ freezable(purpose)
    /\ delivered_notice
    /\ turns' = Append(turns, [purpose |-> purpose, state |-> "open",
                               frozen |-> freeze(purpose), notices |-> pending_notices(purpose)])
    /\ native' = [controller |-> "ready", running |-> TRUE]
    /\ app' = FALSE
    /\ UNCHANGED <<prepared, policy, spec, apps, journals, files, guards, package, intact, cand, win, trouble>>

SendRefused ==
    /\ app /\ app' = FALSE
    /\ UNCHANGED <<prepared, policy, room, journals, files, guards, beside, win, trouble>>

sync ==
    /\ win = Idle /\ _routing_refresh_gate
    /\ ~native.running /\ ~finished
    /\ turns' = [turns EXCEPT ![Len(turns)].state = "completed"]
    /\ UNCHANGED <<prepared, policy, spec, apps, journals, files, guards, beside, app, win, trouble>>

spec_put ==
    /\ win = Idle /\ quiet
    /\ spec < MaxSpec /\ spec' = spec + 1
    /\ UNCHANGED <<prepared, policy, turns, apps, journals, files, guards, beside, app, win, trouble>>

-----------------------------------------------------------------------------
(***************************************************************************)
(* The executable: diagnosed repair and authorized upgrade.                *)
(***************************************************************************)
\* Repair needs the recorded executable changed or missing, upgrade needs it unchanged
\* and a strictly newer one.
_source_failure(source, target, lane) ==
    IF lane = "repair" THEN ~_fingerprint(source) ELSE _fingerprint(source) /\ source < target

\* Requests settled, controller stopped, the target intact and new enough for the routing
\* in force, whose own journal and files must be settled too.
bind_inspect(source, target, lane) ==
    /\ finished /\ native = [controller |-> "stopped", running |-> FALSE]
    /\ _source_failure(source, target, lane) /\ _fingerprint(target)
    /\ refreshed_effective /\ routing.guard \in guards
    /\ check_qualified_floors(routing, target)

BindNew(target, lane) ==
    /\ win = Idle
    /\ _chain(repairs) /\ Len(repairs.files) < MaxIntents
    /\ bind_inspect(executable, target, lane)
    /\ repairs' = _publish_intent(repairs,
           [source |-> executable, target |-> target, lane |-> lane, before |-> _state_digest])
    /\ win' = [op |-> "bind"]
    /\ UNCHANGED <<prepared, policy, room, refreshes, files, guards, beside, app, trouble>>

\* The identical request beside its unclaimed intent.
BindReconcile ==
    /\ win = Idle /\ Unclaimed(repairs)
    /\ LET record == Last(repairs.files) IN
       /\ record.before = _state_digest
       /\ bind_inspect(record.source, record.target, record.lane)
    /\ win' = [op |-> "bind"]
    /\ UNCHANGED <<prepared, policy, room, journals, files, guards, beside, app, trouble>>

\* The replacement is validated once more and named in state.json, or the intent stays.
BindCommit ==
    /\ win.op = "bind" /\ win' = Idle
    /\ repairs' = IF _fingerprint(Last(repairs.files).target) THEN Claim(repairs) ELSE repairs
    /\ UNCHANGED <<prepared, policy, room, refreshes, files, guards, beside, app, trouble>>

-----------------------------------------------------------------------------
(***************************************************************************)
(* The routing: guard, settings and worker selectors.                      *)
(***************************************************************************)
\* The guard of the installed package; the workers move only by the explicit selection.
_build(selection, source) ==
    Route(package.guard, IF selection = "qualified" THEN package.work ELSE source.work)

\* The workers a target selects are admitted on the executable in force.
_target_admission(target) == executable_effective /\ check_qualified_floors(target, executable)

\* Requests settled, controller stopped, the target admitted.
refresh_inspect(target) ==
    /\ finished /\ native = [controller |-> "stopped", running |-> FALSE]
    /\ _target_admission(target)

\* Mutated form: a new request is planned beside the unclaimed intent of another.
RefreshNew_beside_intent(selection) ==
    /\ win = Idle
    /\ Len(refreshes.files) < MaxIntents
    /\ finished
    /\ LET target == _build(selection, routing) IN
       /\ target # routing
       /\ refresh_inspect(target)
       /\ refreshes' = _publish_intent(refreshes,
              [source |-> routing, target |-> target, cand |-> cand, before |-> _state_digest])
    /\ win' = [op |-> "refresh", step |-> 0]
    /\ UNCHANGED <<prepared, policy, room, repairs, files, guards, beside, app, trouble>>

\* The plan and the evidence are published as an intent before any file changes.
RefreshNew(selection) ==
    /\ win = Idle
    /\ _chain(refreshes) /\ Len(refreshes.files) < MaxIntents
    /\ settled /\ validate_local
    /\ LET target == _build(selection, routing) IN
       /\ target # routing
       /\ refresh_inspect(target)
       /\ refreshes' = _publish_intent(refreshes,
              [source |-> routing, target |-> target, cand |-> cand, before |-> _state_digest])
    /\ win' = [op |-> "refresh", step |-> 0]
    /\ UNCHANGED <<prepared, policy, room, repairs, files, guards, beside, app, trouble>>

\* Only the identical request, on the state and the evidence of its intent.
RefreshReconcile ==
    /\ win = Idle /\ Unclaimed(refreshes)
    /\ LET record == Last(refreshes.files) IN
       /\ record.before = _state_digest
       /\ record.source = routing /\ record.cand = cand
       /\ refresh_inspect(record.target)
    /\ win' = [op |-> "refresh", step |-> 0]
    /\ UNCHANGED <<prepared, policy, room, journals, files, guards, beside, app, trouble>>

_place_guard ==
    /\ win.op = "refresh" /\ win.step = 0
    /\ guards' = guards \cup {Last(refreshes.files).target.guard}
    /\ win' = [win EXCEPT !.step = 1]
    /\ UNCHANGED <<prepared, policy, room, journals, files, beside, app, trouble>>

\* Each file must still be the source's or already the target's.
_replace_runtime ==
    /\ win.op = "refresh" /\ win.step \in DOMAIN files
    /\ LET record == Last(refreshes.files) k == win.step IN
       /\ files[k] \in {Image(record.source)[k], Image(record.target)[k]}
       /\ files' = [files EXCEPT ![k] = Image(record.target)[k]]
    /\ win' = [win EXCEPT !.step = @ + 1]
    /\ UNCHANGED <<prepared, policy, room, journals, guards, beside, app, trouble>>

\* The evidence is gathered again; when it moved, the intent stays for reconciliation.
RefreshCommit ==
    /\ win.op = "refresh" /\ win.step = Len(files) + 1
    /\ LET record == Last(refreshes.files) IN
       refreshes' = IF refresh_inspect(record.target) /\ record.cand = cand /\ files = Image(record.target)
                    THEN Claim(refreshes) ELSE refreshes
    /\ win' = Idle
    /\ UNCHANGED <<prepared, policy, room, repairs, files, guards, beside, app, trouble>>

-----------------------------------------------------------------------------
(***************************************************************************)
(* What comes beside the operations.                                       *)
(***************************************************************************)
Crash ==
    /\ win # Idle /\ Troubled
    /\ win' = Idle
    /\ UNCHANGED <<prepared, policy, room, journals, files, guards, beside, app>>

\* The package is upgraded or rolled back, the operator selects another qualification.
Install(g, w) ==
    /\ package # Route(g, w) /\ Troubled
    /\ package' = Route(g, w)
    /\ UNCHANGED <<prepared, policy, room, journals, files, guards, intact, native, cand, app, win>>

ExecutableLost(e) ==
    /\ e \in intact /\ Troubled
    /\ intact' = intact \ {e}
    /\ UNCHANGED <<prepared, policy, room, journals, files, guards, package, native, cand, app, win>>

CandidateMoves ==
    /\ Troubled
    /\ cand' = 1 - cand
    /\ UNCHANGED <<prepared, policy, room, journals, files, guards, package, intact, native, app, win>>

\* AO finishes the turn; the operator stops the idle controller, or someone starts it.
TurnEnds ==
    /\ native.running /\ native' = [native EXCEPT !.running = FALSE]
    /\ UNCHANGED <<prepared, policy, room, journals, files, guards, package, intact, cand, app, win, trouble>>
Stop ==
    /\ native = [controller |-> "ready", running |-> FALSE]
    /\ native' = [native EXCEPT !.controller = "stopped"]
    /\ UNCHANGED <<prepared, policy, room, journals, files, guards, package, intact, cand, app, win, trouble>>
Start ==
    /\ native.controller = "stopped" /\ Troubled
    /\ native' = [native EXCEPT !.controller = "ready"]
    /\ UNCHANGED <<prepared, policy, room, journals, files, guards, package, intact, cand, app, win>>

Next ==
    \/ StandingApply \/ SendRefused \/ sync \/ spec_put
    \/ \E purpose \in Purposes : Send(purpose)
    \/ \E target \in 1..MaxExe, lane \in {"repair", "upgrade"} : BindNew(target, lane)
    \/ BindReconcile \/ BindCommit
    \/ \E selection \in {"kept", "qualified"} : RefreshNew(selection)
    \/ RefreshReconcile \/ _place_guard \/ _replace_runtime \/ RefreshCommit
    \/ Crash \/ CandidateMoves \/ TurnEnds \/ Stop \/ Start
    \/ \E g \in 0..MaxGuard, w \in 1..MaxWork : Install(g, w)
    \/ \E e \in 1..MaxExe : ExecutableLost(e)

Spec == Init /\ [][Next]_vars

-----------------------------------------------------------------------------
(***************************************************************************)
(* Properties.                                                             *)
(***************************************************************************)
\* Whatever crash, package or retry, every runtime file is the one of the committed
\* routing, or the one the single unclaimed intent plans.
RuntimeExplained ==
    \A k \in DOMAIN files :
        \/ files[k] = Image(routing)[k]
        \/ Len(refreshes.files) = refreshes.n + 1 /\ files[k] = Image(Last(refreshes.files).target)[k]

\* What a request runs under does not move while it is not settled.
RunsUnderOneRuntime ==
    [][(\E i \in DOMAIN turns : turns[i].state # "completed") => UNCHANGED <<files, repairs, refreshes>>]_vars

\* Each amendment needs the other's journal settled to be reconciled, so two unclaimed
\* intents would block each other for good: there is never more than one.
OneIntentAtATime == ~(Unclaimed(repairs) /\ Unclaimed(refreshes))

\* The executable in force is never older than the selected workers need, though the
\* two are amended by journals of their own.
FloorsHold == check_qualified_floors(routing, executable)

\* A frozen expectation and a notice keep naming the record they were taken from, also
\* when a later refresh, back to earlier bytes, makes two records alike.
ExpectationsAuthentic ==
    \A i \in DOMAIN turns :
        /\ turns[i].frozen # None => authentic(turns[i].frozen)
        /\ \A notice \in turns[i].notices : authentic(notice)

=============================================================================
