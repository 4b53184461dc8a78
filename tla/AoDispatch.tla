---------------------------- MODULE AoDispatch ----------------------------
(***************************************************************************)
(* How one AO room dispatches a request and what it makes of the result:   *)
(* ao_room_send, ao_room_sync, ao_room_outcome_audit and                   *)
(* ao_room_outcome_resume, with the request records of state.json, the AO  *)
(* backend that holds the native turns, a POST that is lost, delayed or    *)
(* not acknowledged, and a controller that dies at any point.              *)
(*                                                                         *)
(* Every operation holds the room lock (AoLocks), so only a send is more   *)
(* than one step: its intent is saved, the POST leaves, the answer (or its *)
(* absence) is saved.  All requests carry the same text, which the code    *)
(* allows ("identical caller bytes legitimately recur across turns"), and  *)
(* a human may type that very text into the bound conversation.            *)
(***************************************************************************)
EXTENDS Naturals, FiniteSets

CONSTANTS Requests,     \* request ids
          Turns,        \* native turn ids
          Roles,        \* "engineer", "reviewer"
          Seen,         \* evidence the native side produces
          HumanTexts,   \* what a human types: the requests' bytes ("same"), "other" text
          None,
          MaxCrashes,   \* bound: controller crashes
          MaxForeign,   \* bound: turns a human starts in a bound conversation
          MaxReroutes,  \* bound: native model substitutions
          MaxEvidence,  \* bound: changes of the evidence about a finished turn
          MaxLate       \* bound: failed turns that complete late

Texts == {"same", "other"}

ASSUME TextsAssumption == HumanTexts \subseteq Texts
ASSUME NoneAssumption == None \notin Requests /\ None \notin Turns /\ None \notin Roles
ASSUME FiniteAssumption == IsFiniteSet(Requests)
ASSUME BoundsAssumption ==
    {MaxCrashes, MaxForeign, MaxReroutes, MaxEvidence, MaxLate} \subseteq Nat

VARIABLES
    req,      \* state.json: the record of each request, or None
    win,      \* the send in progress: its request and its step
    flight,   \* POSTs of each request that AO has not handled yet
    posts,    \* how often each request was POSTed (history)
    turn,     \* AO: each native turn
    reroute,  \* AO: the turn the conversation's modelReroute names, Unattributed, or None
    used      \* how much of each bound is spent

vars == <<req, win, flight, posts, turn, reroute, used>>
aoVars == <<turn, reroute>>

-----------------------------------------------------------------------------
(***************************************************************************)
(* Evidence about a finished turn, as classify() sees it: the kind of the  *)
(* result and whether the native source is unreadable (native.unknown).    *)
(***************************************************************************)
RESUMABLE == {"quota_limit", "provider_error"}
Kinds == RESUMABLE \cup {"final_available", "unknown"}
Evidence == {e \in [kind : Kinds, native : BOOLEAN] :
                e.native => e.kind \in {"provider_error", "unknown"}}
ASSUME SeenAssumption == Seen \subseteq Evidence

Hold(kind) == kind # "final_available"

\* Turn states of AO; only the last three are terminal.
Live == {"running"}
Ended == {"completed", "failed", "interrupted"}
Unborn == [role |-> None, req |-> None, text |-> "other", st |-> "unborn", provider |-> FALSE,
           ev |-> [kind |-> "unknown", native |-> FALSE]]

\* An outcome record; res counts the resolved_observation_sha256 chain.
Outcome == [kind : Kinds, native : BOOLEAN, noted : BOOLEAN, res : Nat, receipt : Ended]
inconclusive(o) == o.native \/ o.noted

Idle == [step |-> "idle", req |-> None]

Init ==
    /\ req = [r \in Requests |-> None]
    /\ win = Idle
    /\ flight = [r \in Requests |-> 0]
    /\ posts = [r \in Requests |-> 0]
    /\ turn = [t \in Turns |-> Unborn]
    /\ reroute = [o \in Roles |-> None]
    /\ used = [crash |-> 0, foreign |-> 0, reroute |-> 0, evidence |-> 0, late |-> 0]

-----------------------------------------------------------------------------
(***************************************************************************)
(* Reading the room and the conversation.                                  *)
(***************************************************************************)
Sent == {r \in Requests : req[r] # None}

turn_ids(role) == {t \in Turns : turn[t].role = role}

busy(role) == \E t \in turn_ids(role) : turn[t].st \in Live

\* Mutated forms: turns that existed before the send count; only an
\* acknowledged turn counts.
sent_message_any_turn(r) ==
    {t \in turn_ids(req[r].role) : turn[t].text = "same" /\ (req[r].turn # None => t = req[r].turn)}
sent_message_acknowledged(r) ==
    {t \in turn_ids(req[r].role) \ req[r].baseline : turn[t].text = "same" /\ t = req[r].turn}

\* The user messages with this request's text, whoever typed them, on turns that
\* did not exist before the send and, once acknowledged, on the acknowledged turn.
sent_message(r) ==
    {t \in turn_ids(req[r].role) \ req[r].baseline :
        /\ turn[t].text = "same"
        /\ req[r].turn # None => t = req[r].turn}

latest_for_role(role) ==
    {r \in Sent : /\ req[r].role = role
                  /\ \A q \in Sent : req[q].role = role => req[q].order <= req[r].order}

\* A substitution reported without a turn, or for the turn this request is known to own.
Unattributed == "unattributed"
conflicting_reroute(r) ==
    \/ reroute[req[r].role] = Unattributed
    \/ \E t \in Turns : /\ reroute[req[r].role] = t
                        /\ turn[t].provider
                        /\ sent_message(r) = {t}

Conflicts == {r \in Sent : req[r].model_reroute \/ conflicting_reroute(r)}

\* Service.settled, with the request an outcome audit may except.
settled(except) ==
    \A r \in Sent : /\ ~req[r].model_reroute
                    /\ r \notin except => /\ req[r].state \in {"completed", "settled_failure"}
                                          /\ req[r].provider

quiet(except) ==
    /\ win.step = "idle"
    /\ settled(except)
    /\ Conflicts = {}
    /\ \A o \in Roles : ~busy(o)

(***************************************************************************)
(* ao_outcomes._observe: what the fresh evidence makes of the saved        *)
(* outcome.  A later quiet snapshot cannot clear an observed failure.      *)
(***************************************************************************)
Attributable(r) ==
    /\ req[r].receipt # None
    /\ sent_message(r) = {req[r].turn}
    /\ turn_ids(req[r].role) \ req[r].baseline = {req[r].turn}
    /\ turn[req[r].turn].st = req[r].receipt
    /\ req[r].receipt \in {"completed", "failed"}
    /\ req[r].outcome # None => req[r].outcome.receipt = req[r].receipt

Fresh(r, res) ==
    [kind |-> turn[req[r].turn].ev.kind, native |-> turn[req[r].turn].ev.native,
     noted |-> FALSE, res |-> res, receipt |-> req[r].receipt]

\* An explicit audit resolves an inconclusive failure into a new digest.
Resolution(old, value, explicit) ==
    IF old.kind \in RESUMABLE /\ inconclusive(old) /\ explicit
       /\ value.kind # "unknown" /\ ~inconclusive(value)
    THEN old.res + 1 ELSE old.res

Noted(value, old) == [value EXCEPT !.kind = old.kind, !.noted = TRUE]

\* Mutated form: the latest evidence replaces the outcome.
Observed_latest(r, explicit) == Fresh(r, 0)

Observed(r, explicit) ==
    LET old == req[r].outcome
        value == Fresh(r, Resolution(old, Fresh(r, 0), explicit))
        sticky == old.kind \in RESUMABLE
    IN  CASE old = None -> Fresh(r, 0)
          [] old # None /\ sticky /\ value.kind = "unknown" -> Noted(value, old)
          [] old # None /\ sticky /\ value.kind # "unknown" /\ inconclusive(old) /\ ~explicit ->
                Noted(value, old)
          [] old # None /\ ~Hold(value.kind) /\ ~(inconclusive(old) /\ ~explicit /\ sticky)
             /\ (sticky \/ (old.kind = "unknown" /\ ~explicit)) ->
                IF explicit /\ inconclusive(old) THEN [value EXCEPT !.kind = old.kind] ELSE old
          [] OTHER -> value

SaveOutcome(r, explicit) == [req EXCEPT ![r].outcome = Observed(r, explicit)]

\* Mutated form: the continuation admits any new request.
Released_to_any(o, r, n) ==
    /\ req[r].release # None
    /\ req[r].release.outcome = o
    /\ ~inconclusive(o)

\* gate: a held outcome needs the continuation that names this new request.
Released(o, r, n) ==
    /\ req[r].release # None
    /\ req[r].release.resume = n
    /\ req[r].release.outcome = o
    /\ ~inconclusive(o)

-----------------------------------------------------------------------------
(***************************************************************************)
(* ao_room_send                                                            *)
(***************************************************************************)
Intent(role) ==
    [role |-> role, state |-> "uncertain", turn |-> None, provider |-> FALSE,
     baseline |-> turn_ids(role), order |-> Cardinality(Sent) + 1, observed |-> None,
     receipt |-> None, outcome |-> None, release |-> None, model_reroute |-> FALSE]

\* Admission, the gate's observation and the intent saved before any POST.
SendIntent(role, n) ==
    /\ req[n] = None
    /\ quiet({})
    /\ \A r \in latest_for_role(role) :
          /\ Attributable(r)
          /\ Hold(Observed(r, FALSE).kind) => Released(Observed(r, FALSE), r, n)
    /\ req' = [q \in Requests |->
                 IF q = n THEN Intent(role)
                 ELSE IF q \in latest_for_role(role)
                      THEN [req[q] EXCEPT !.outcome = Observed(q, FALSE)]
                      ELSE req[q]]
    /\ win' = [step |-> "post", req |-> n]
    /\ UNCHANGED <<flight, posts, aoVars, used>>

\* The gate refuses, after its observation was saved.
SendRefused(role) ==
    /\ quiet({})
    /\ \E r \in latest_for_role(role) :
          /\ Attributable(r)
          /\ Hold(Observed(r, FALSE).kind)
          /\ req' = SaveOutcome(r, FALSE)
    /\ UNCHANGED <<win, flight, posts, aoVars, used>>

Post ==
    /\ win.step = "post"
    /\ win' = [win EXCEPT !.step = "await"]
    /\ flight' = [flight EXCEPT ![win.req] = @ + 1]
    /\ posts' = [posts EXCEPT ![win.req] = @ + 1]
    /\ UNCHANGED <<req, aoVars, used>>

\* AO answers with the turn it started for the message.
Acknowledge ==
    /\ win.step = "await"
    /\ \E t \in Turns :
          /\ turn[t].req = win.req
          /\ req' = [req EXCEPT ![win.req].turn = t, ![win.req].state = "submitted"]
    /\ win' = Idle
    /\ UNCHANGED <<flight, posts, aoVars, used>>

\* Mutated form: a POST that raised is sent again.
DeliveryError_retries ==
    /\ win.step = "await"
    /\ posts[win.req] < 3
    /\ win' = [win EXCEPT !.step = "post"]
    /\ UNCHANGED <<req, flight, posts, aoVars, used>>

\* The POST raised: delivery_error is saved, the request stays uncertain.
DeliveryError ==
    /\ win.step = "await"
    /\ win' = Idle
    /\ UNCHANGED <<req, flight, posts, aoVars, used>>

(***************************************************************************)
(* ao_room_sync, one iteration                                             *)
(***************************************************************************)
\* Service.observation keeps the original receipt of a failed turn.
Receipt(r, st) == IF st \in Ended THEN st ELSE req[r].receipt

\* The completion is weighed in the sync that records it, if nothing else ran since
\* the send; an outcome saved earlier is of another receipt and stays.
FirstOutcome(r, t) ==
    IF /\ turn[t].provider /\ turn[t].st = "completed"
       /\ req[r].outcome = None
       /\ turn_ids(req[r].role) \ req[r].baseline = {t}
    THEN [kind |-> turn[t].ev.kind, native |-> turn[t].ev.native,
          noted |-> FALSE, res |-> 0, receipt |-> "completed"]
    ELSE req[r].outcome

Reconciled(r, t) ==
    LET st == turn[t].st
        delivered == req[r].provider \/ turn[t].provider
    IN  [req[r] EXCEPT !.turn = t, !.observed = st, !.provider = delivered,
                       !.receipt = Receipt(r, st), !.outcome = FirstOutcome(r, t),
                       !.state = IF turn[t].provider /\ st = "completed" THEN "completed"
                                 ELSE IF st \in Ended THEN "uncertain" ELSE "running"]

Synced(r) ==
    IF req[r].state \in {"completed", "settled_failure"}
    THEN IF r \in latest_for_role(req[r].role) /\ Attributable(r)
         THEN [req[r] EXCEPT !.outcome = Observed(r, FALSE)] ELSE req[r]
    ELSE IF \E t \in Turns : sent_message(r) = {t}
         THEN Reconciled(r, CHOOSE t \in Turns : sent_message(r) = {t})
         ELSE req[r]

Sync ==
    /\ win.step = "idle"
    /\ Conflicts = {}
    /\ req' = [r \in Requests |-> IF r \in Sent THEN Synced(r) ELSE None]
    /\ UNCHANGED <<win, flight, posts, aoVars, used>>

\* identity() saves the contradiction and refuses: nothing else is synced.
SyncConflict ==
    /\ win.step = "idle"
    /\ \E r \in Conflicts :
          /\ \A q \in Conflicts : req[r].order <= req[q].order
          /\ req' = [req EXCEPT ![r].model_reroute = TRUE]
    /\ UNCHANGED <<win, flight, posts, aoVars, used>>

(***************************************************************************)
(* ao_room_outcome_audit and ao_room_outcome_resume                        *)
(***************************************************************************)
FailedUncertain(r) == req[r].state = "uncertain" /\ req[r].observed = "failed"

Auditable(r) ==
    /\ r \in latest_for_role(req[r].role)
    /\ quiet(IF FailedUncertain(r) THEN {r} ELSE {})
    /\ FailedUncertain(r) => req[r].provider
    /\ Attributable(r)

Audit(r) ==
    /\ r \in Sent
    /\ Auditable(r)
    /\ req' = SaveOutcome(r, TRUE)
    /\ UNCHANGED <<win, flight, posts, aoVars, used>>

\* One immutable, unused successor, however often the outcome changes.
Continuable(r, n) ==
    /\ r \in Sent
    /\ req[n] = None
    /\ Auditable(r)
    /\ req[r].release # None => req[r].release.resume = n

\* The evidence changed or is not eligible: refused, but its observation was saved.
ResumeRefused(r, n) ==
    /\ Continuable(r, n)
    /\ req' = SaveOutcome(r, FALSE)
    /\ UNCHANGED <<win, flight, posts, aoVars, used>>

\* A failed turn is settled only by a quota failure.
Resume(r, n) ==
    LET o == Observed(r, FALSE) IN
    /\ Continuable(r, n)
    /\ o.kind \in RESUMABLE
    /\ ~inconclusive(o)
    /\ req[r].state # "completed" => o.kind = "quota_limit"
    /\ req' = [req EXCEPT ![r].outcome = o,
                          ![r].release = [resume |-> n, outcome |-> o],
                          ![r].state = IF @ = "completed" THEN @ ELSE "settled_failure"]
    /\ UNCHANGED <<win, flight, posts, aoVars, used>>

(***************************************************************************)
(* The controller dies: the send in progress is gone, state.json stays.    *)
(***************************************************************************)
\* Mutated form: after a restart the saved intent is sent again.
Crash_replays ==
    /\ win.step # "idle"
    /\ used.crash < MaxCrashes
    /\ used' = [used EXCEPT !.crash = @ + 1]
    /\ win' = [win EXCEPT !.step = "post"]
    /\ UNCHANGED <<req, flight, posts, aoVars>>

Crash ==
    /\ win.step # "idle"
    /\ used.crash < MaxCrashes
    /\ used' = [used EXCEPT !.crash = @ + 1]
    /\ win' = Idle
    /\ UNCHANGED <<req, flight, posts, aoVars>>

-----------------------------------------------------------------------------
(***************************************************************************)
(* AO and the native sessions (external)                                   *)
(***************************************************************************)
\* AO handles a POST, at once or long after its caller gave up.
Deliver(r, t) ==
    /\ flight[r] > 0
    /\ turn[t] = Unborn
    /\ flight' = [flight EXCEPT ![r] = @ - 1]
    /\ turn' = [turn EXCEPT ![t] = [Unborn EXCEPT !.role = req[r].role, !.req = r, !.text = "same",
                                                 !.st = "running"]]
    /\ UNCHANGED <<req, win, posts, reroute, used>>

Lose(r) ==
    /\ flight[r] > 0
    /\ flight' = [flight EXCEPT ![r] = @ - 1]
    /\ UNCHANGED <<req, win, posts, aoVars, used>>

\* A human types into the bound conversation, perhaps the bytes of a request.
Foreign(role, text, t) ==
    /\ used.foreign < MaxForeign
    /\ turn[t] = Unborn
    /\ ~busy(role)
    /\ used' = [used EXCEPT !.foreign = @ + 1]
    /\ turn' = [turn EXCEPT ![t] = [Unborn EXCEPT !.role = role, !.text = text, !.st = "running"]]
    /\ UNCHANGED <<req, win, flight, posts, reroute>>

\* The provider takes the turn: providerTurnId appears.
Accept(t) ==
    /\ turn[t].st = "running"
    /\ ~turn[t].provider
    /\ turn' = [turn EXCEPT ![t].provider = TRUE]
    /\ UNCHANGED <<req, win, flight, posts, reroute, used>>

End(t, st, ev) ==
    /\ turn[t].st = "running"
    /\ turn' = [turn EXCEPT ![t].st = st, ![t].ev = ev]
    /\ UNCHANGED <<req, win, flight, posts, reroute, used>>

\* A turn AO gave up on completes after all.
CompleteLate(t) ==
    /\ used.late < MaxLate
    /\ turn[t].st \in {"failed", "interrupted"}
    /\ used' = [used EXCEPT !.late = @ + 1]
    /\ turn' = [turn EXCEPT ![t].st = "completed", ![t].provider = TRUE]
    /\ UNCHANGED <<req, win, flight, posts, reroute>>

\* Typed failures arrive late; a transcript becomes unreadable or readable.
ChangeEvidence(t, ev) ==
    /\ used.evidence < MaxEvidence
    /\ turn[t].st \in {"completed", "failed"}
    /\ turn[t].ev # ev
    /\ used' = [used EXCEPT !.evidence = @ + 1]
    /\ turn' = [turn EXCEPT ![t].ev = ev]
    /\ UNCHANGED <<req, win, flight, posts, reroute>>

\* modelReroute is latest-wins: it names one turn, perhaps long after it
\* completed, no turn at all, or is gone again.
Reroute(role, t) ==
    /\ used.reroute < MaxReroutes
    /\ t \in turn_ids(role) \cup {Unattributed, None}
    /\ reroute[role] # t
    /\ used' = [used EXCEPT !.reroute = @ + 1]
    /\ reroute' = [reroute EXCEPT ![role] = t]
    /\ UNCHANGED <<req, win, flight, posts, turn>>

Native ==
    \/ \E r \in Requests : Lose(r) \/ \E t \in Turns : Deliver(r, t)
    \/ \E t \in Turns :
          \/ Accept(t)
          \/ \E st \in Ended, ev \in Seen : End(t, st, ev)
          \/ CompleteLate(t)
          \/ \E ev \in Seen : ChangeEvidence(t, ev)
    \/ \E o \in Roles : \/ \E t \in Turns \cup {Unattributed, None} : Reroute(o, t)
                       \/ \E t \in Turns, text \in HumanTexts : Foreign(o, text, t)

Controller ==
    \/ \E o \in Roles : SendRefused(o) \/ \E n \in Requests : SendIntent(o, n)
    \/ Post \/ Acknowledge \/ DeliveryError
    \/ Sync \/ SyncConflict
    \/ \E r \in Requests : Audit(r) \/ \E n \in Requests : Resume(r, n) \/ ResumeRefused(r, n)
    \/ Crash

Next == Controller \/ Native

Spec == Init /\ [][Next]_vars

\* Astra keeps calling ao_room_sync; nothing else is promised.
FairSpec == Spec /\ WF_vars(Sync) /\ WF_vars(Post) /\ WF_vars(Acknowledge \/ DeliveryError)

-----------------------------------------------------------------------------
Record == [role : Roles, state : {"uncertain", "submitted", "running", "completed", "settled_failure"},
           turn : Turns \cup {None}, provider : BOOLEAN, baseline : SUBSET Turns, order : Nat,
           observed : Ended \cup {"running", None}, receipt : Ended \cup {None},
           outcome : Outcome \cup {None},
           release : [resume : Requests, outcome : Outcome] \cup {None},
           model_reroute : BOOLEAN]
Turn == [role : Roles \cup {None}, req : Requests \cup {None}, text : Texts,
         st : Ended \cup {"unborn", "running"}, provider : BOOLEAN, ev : Evidence]

ASSUME RecordAssumption == None \notin Record
ASSUME OutcomeAssumption == None \notin Outcome

TypeOK ==
    /\ req \in [Requests -> Record \cup {None}]
    /\ win \in [step : {"idle", "post", "await"}, req : Requests \cup {None}]
    /\ flight \in [Requests -> Nat]
    /\ posts \in [Requests -> Nat]
    /\ turn \in [Turns -> Turn]
    /\ reroute \in [Roles -> Turns \cup {Unattributed, None}]
    /\ used \in [crash : Nat, foreign : Nat, reroute : Nat, evidence : Nat, late : Nat]

\* No request is ever POSTed twice, whatever was lost and whoever crashed:
\* "Persist intent BEFORE any request may reach AO", never a blind resend.
PostedOnce == \A r \in Requests : posts[r] <= 1

\* A human has typed the bytes of the requests into a bound conversation.  AO starts no
\* such turn for a request, and the text is all that sync has to tell them apart.
Copied == \E t \in Turns : turn[t].req = None /\ turn[t].text = "same"

\* As long as no human has typed the bytes of a request, at most one request of
\* the room is on its way to AO or being worked on.
Outstanding == {r \in Requests : flight[r] > 0 \/ \E t \in Turns : turn[t].req = r /\ turn[t].st \in Live}
SingleFlight == Copied \/ \A r, q \in Outstanding : r = q

\* The dispatch implements the abstract ledger until a human types the bytes of a
\* request: a request is claimed alone, reaches AO at most once and is settled only
\* when no native work of it is left, although sends, syncs, audits, other human turns,
\* late deliveries and crashes interleave.
ledgerPhase ==
    [r \in Requests |->
        IF req[r] = None THEN "new"
        ELSE IF req[r].state \in {"completed", "settled_failure"} THEN "done"
        ELSE IF posts[r] = 0 THEN "claimed" ELSE "posted"]
Ledger == INSTANCE RequestLedger WITH phase <- ledgerPhase, working <- Outstanding
ImplementsLedger == Ledger!Init /\ [][Copied' \/ Ledger!Next]_(Ledger!vars)

\* The docstring of sent_message (ao_project_room.py:244): what is found is "the one user
\* message this request delivered".  Not so when a human typed the same bytes.
DeliveredMessage == \A r \in Sent : req[r].turn # None => turn[req[r].turn].req = r

\* No two requests are given the same turn, although every request carries the same
\* bytes.  A request gets a turn AO did not start for it only after a human typed those
\* bytes, and another request's turn only if that one was given a wrong turn before.
Displaced(r) == req[r].turn # None /\ turn[req[r].turn].req # r
OwnTurn ==
    /\ \A r, q \in Sent : req[r].turn # None /\ req[r].turn = req[q].turn => r = q
    /\ \A r \in Sent : Displaced(r) =>
          LET owner == turn[req[r].turn].req IN
          /\ Copied
          /\ owner # None => owner \in Sent /\ Displaced(owner)

\* A request is recorded as completed only after a native completion, and a
\* recorded completion or settlement is never taken back.
CompletionIsFinal ==
    [][\A r \in Sent :
          /\ req'[r].state = "completed" /\ req[r].state # "completed" =>
                turn[req'[r].turn].st = "completed" /\ turn[req'[r].turn].provider
          /\ req[r].state \in {"completed", "settled_failure"} =>
                req'[r].state = req[r].state /\ req'[r].turn = req[r].turn]_vars

\* An observed provider failure is sticky: no sync, send, audit or resume
\* turns it into a usable result, however the evidence moves.
FailureSticks ==
    [][\A r \in Sent : (req[r].outcome # None /\ req[r].outcome.kind \in RESUMABLE) =>
          req'[r].outcome # None /\ req'[r].outcome.kind \in RESUMABLE]_vars

\* When a failure that became inconclusive is resolved, a continuation
\* authorised before is not valid again.
NoReactivation ==
    [][\A r \in Sent :
          (/\ req[r].outcome # None /\ inconclusive(req[r].outcome)
           /\ req'[r].outcome # req[r].outcome /\ ~inconclusive(req'[r].outcome)
           /\ req[r].release # None)
          => req[r].release.outcome # req'[r].outcome]_vars

\* The request a role sent next after a held result is the one successor
\* that was authorised for exactly that result.
Successor(r, n) == /\ req[n].role = req[r].role
               /\ req[r].order < req[n].order
               /\ \A q \in Sent : req[q].role = req[r].role =>
                     ~(req[r].order < req[q].order /\ req[q].order < req[n].order)
HeldHasOneSuccessor ==
    \A r, n \in Sent : Successor(r, n) =>
        /\ req[r].outcome # None
        /\ Hold(req[r].outcome.kind) =>
              /\ ~inconclusive(req[r].outcome)
              /\ req[r].release = [resume |-> n, outcome |-> req[r].outcome]

\* A natively completed turn of a request is eventually recorded, unless the
\* model was substituted or a human typed the same bytes (two matching messages are
\* none): a lost acknowledgement or a crash does not strand it.
CompletionRecorded ==
    \A r \in Requests :
        (\E t \in Turns : turn[t].req = r /\ turn[t].st = "completed" /\ turn[t].provider)
        ~> (req[r] # None /\ req[r].state \in {"completed", "settled_failure"}) \/ Conflicts # {} \/ Copied
=============================================================================
