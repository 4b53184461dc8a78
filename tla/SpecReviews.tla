---------------------------- MODULE SpecReviews ----------------------------
(***************************************************************************)
(* The budget of specification reviews of a normal AO room and the three   *)
(* allowances beside it: the one review extension, the one re-review after *)
(* it, and the format re-ask of a verdict that came back as prose.         *)
(*                                                                         *)
(* Every allowance goes the same way.  An audit fixes the evidence; a      *)
(* grant inspects it again and stores a receipt before state.json names    *)
(* it; the send stores the consumption before state.json names the request *)
(* and before the POST.  An operation holds the room lock, so between the  *)
(* two writes only the worktree can move -- or the controller dies.        *)
(*                                                                         *)
(* Left to other modules: delivery and failed turns (AoDispatch), captures *)
(* and verification (AoLifecycle).                                         *)
(***************************************************************************)
EXTENDS Naturals, Sequences, FiniteSets, FiniteSetsExt

CONSTANTS MaxRev,      \* bound: specification revisions
          MaxTurns,    \* bound: engineer requests
          MaxCand,     \* bound: distinct worktree contents, less one
          MaxEdits,    \* bound: edits of the worktree beside the room
          MaxCrashes,  \* bound: controller crashes
          Payloads,    \* authorization and diagnosis texts of a grant
          None

DEBATE_LIMIT == 3
DISPATCH_CEILING == 5

VARIABLES
    spec,      \* state.json: the current revision
    handoff,   \* state.json: the revision handed off last
    turns,     \* state.json: the engineer requests in creation order
    cand,      \* the content of the engineer worktree
    accepted,  \* the candidate of the latest acceptance, or None
    ext,       \* the review extension: its files and its reference
    rr,        \* the re-review: its files and its reference
    chains,    \* per source review: the files of its re-ask and what state.json names
    active,    \* state.json: the source of the active chain, 0 if none
    audit,     \* the latest saved audit of an allowance
    win,       \* the operation between its two writes
    edits,
    crashes

vars == <<spec, handoff, turns, cand, accepted, ext, rr, chains, active, audit, win, edits, crashes>>
grants == <<ext, rr, chains, active, audit>>

Idle == [op |-> "idle"]
NoGrant == [receipt |-> None, ref |-> FALSE, used |-> 0]
NoChain == [files |-> {}, named |-> {}, audit |-> None]

Turn(purpose, claim, source) ==
    [purpose |-> purpose, spec |-> spec, state |-> "active", answer |-> None,
     claim |-> claim, source |-> source, cand |-> None]
Done(purpose, rev, answer) ==
    [purpose |-> purpose, spec |-> rev, state |-> "completed", answer |-> answer,
     claim |-> "none", source |-> 0, cand |-> 0]

\* Rooms with one agreed specification, one engineering turn and two refusals of
\* what was proposed since (on the same revision, to keep MaxRev low).  One kind carries an extension granted under the retired accounting, which counted every
\* review: validate still admits it (LIMIT <= granted_at).
Init ==
    /\ handoff = 1
    /\ cand = 0
    /\ chains = [i \in 1..MaxTurns |-> NoChain]
    /\ active = 0
    /\ rr = NoGrant
    /\ audit = None
    /\ win = Idle
    /\ edits = 0
    /\ crashes = 0
    /\ \E a \in {"done", "scope_change"} :
          /\ turns = <<Done("spec_review", 1, "accept"), Done("engineering", 1, a),
                       Done("spec_review", 1, "changes"), Done("spec_review", 1, "changes")>>
          /\ accepted = IF a = "done" THEN 0 ELSE None
    /\ \/ spec = 1 /\ ext = NoGrant
       \/ /\ spec = 2
          /\ accepted = 0
          /\ ext = [receipt |-> [who |-> CHOOSE p \in Payloads : TRUE,
                                 audit |-> [lane |-> "accepted", spec |-> 2, turns |-> turns, cand |-> 0,
                                            accepted |-> 0, chains |-> chains]],
                    ref |-> TRUE, used |-> 0]

-----------------------------------------------------------------------------
(***************************************************************************)
(* Reading the room.                                                       *)
(***************************************************************************)
Named(purpose) == {i \in DOMAIN turns : turns[i].purpose = purpose}
reviews == Named("spec_review")
latest(S) == {i \in S : \A j \in S : j <= i}
Claimed(grant) == {i \in DOMAIN turns : turns[i].claim = grant}

\* The files of a re-ask and the state that names them must agree; any other
\* file is damage.
_claimed == \A i \in DOMAIN chains : chains[i].files = chains[i].named

\* What the records of one chain say of it.
RepairOf(s) == {i \in Named("spec_verdict_repair") : turns[i].source = s}
_chain(s) ==
    LET c == chains[s].named IN
    IF c = {} THEN "none"
    ELSE IF "agreement" \in c THEN "agreed"
    ELSE IF "closure" \in c THEN "closed"
    ELSE IF \E i \in RepairOf(s) : turns[i].state = "settled_failure" THEN "settled_failure"
    ELSE IF "intent" \in c THEN "dispatched"
    ELSE "granted"
Pending == \E s \in DOMAIN chains : _chain(s) \in {"granted", "dispatched"}

journal(allow_pending) == _claimed /\ (allow_pending \/ ~Pending)

agreed_sources == IF _claimed THEN {s \in DOMAIN chains : _chain(s) = "agreed"} ELSE {}

accepting(i) ==
    /\ turns[i].state = "completed"
    /\ turns[i].answer = "accept" \/ i \in agreed_sources

\* Completed reviews that did not accept.
debate_attempts ==
    Cardinality({i \in reviews : turns[i].state = "completed" /\ ~accepting(i)})
dispatches == Cardinality(reviews)

\* ao_workflow.agreement: the latest review is of the current specification and
\* accepted it, itself or through the active finished re-ask.
agreement ==
    \E i \in latest(reviews) :
        /\ turns[i].spec = spec
        /\ turns[i].state = "completed"
        /\ turns[i].answer = "accept" \/ (active = i /\ _chain(i) = "agreed")

\* A consumption file whose request state.json does not know is an orphan.
_consumption(grant, name) ==
    grant.used # 0 => grant.used \in DOMAIN turns /\ turns[grant.used].claim = name

\* The requests of the audited baseline are still those of the room, and its
\* acceptances were only added to.
_retained(grant) ==
    LET baseline == grant.receipt.audit IN
    /\ Len(baseline.turns) <= Len(turns)
    /\ SubSeq(turns, 1, Len(baseline.turns)) = baseline.turns
    /\ baseline.accepted # None => accepted # None

\* Offline integrity: a receipt without its reference stops the room until the
\* identical request commits it; an orphaned consumption stops it for good.
validate(grant, name, allow_pending) ==
    IF grant.ref THEN _retained(grant) /\ _consumption(grant, name)
    ELSE grant.used = 0 /\ (allow_pending \/ grant.receipt = None)

finished == \A i \in DOMAIN turns : turns[i].state # "active"

settled(pending) ==
    /\ journal(pending = "ask")
    /\ validate(ext, "ext", pending = "ext")
    /\ validate(rr, "rr", pending = "rr")
    /\ finished
quiet == settled("none")

unused(grant) == grant.ref /\ grant.used = 0

-----------------------------------------------------------------------------
(***************************************************************************)
(* What each audit inspects.                                               *)
(***************************************************************************)
_manifest(lane) ==
    [lane |-> lane, spec |-> spec, turns |-> turns, cand |-> cand, accepted |-> accepted, chains |-> chains]

\* Every native turn belongs to a finished request; settled failures are admitted
\* into the history by the pre-acceptance lane only.
_native_evidence(lane) ==
    \A i \in DOMAIN turns :
        turns[i].state = "completed" \/ (turns[i].state = "settled_failure" /\ lane = "pre_acceptance")

\* The candidate that was accepted is still the one in the worktree.
_acceptance == accepted # None /\ cand = accepted

\* Nothing was accepted, and the latest engineering turn asked for another scope
\* and left the candidate it completed with.
_scope_proposal ==
    /\ accepted = None
    /\ \E i \in latest(Named("engineering")) :
          turns[i].state = "completed" /\ turns[i].answer = "scope_change" /\ turns[i].cand = cand

prior_revision == Max({turns[i].spec : i \in reviews})

ext_inspect(lane, reconcile) ==
    /\ settled(IF reconcile THEN "ext" ELSE "none")
    /\ ~ext.ref
    /\ debate_attempts = DEBATE_LIMIT
    /\ dispatches < DISPATCH_CEILING
    /\ spec = prior_revision + 1
    /\ _native_evidence(lane)
    /\ IF lane = "pre_acceptance" THEN _scope_proposal ELSE _acceptance

GrantedReviews(saved) ==
    Cardinality({i \in DOMAIN saved.turns : saved.turns[i].purpose = "spec_review"})

\* The extension review finished with a refusal, it is the latest engineer result,
\* and the corrected specification is the next revision.
rr_inspect(reconcile) ==
    /\ settled(IF reconcile THEN "rr" ELSE "none")
    /\ ~rr.ref
    /\ ext.ref /\ ext.used # 0
    /\ dispatches = GrantedReviews(ext.receipt.audit) + 1
    /\ dispatches + 1 <= DISPATCH_CEILING
    /\ ext.used = Len(turns)
    /\ turns[ext.used].state = "completed"
    /\ turns[ext.used].answer = "changes"
    /\ ~agreement
    /\ spec = turns[ext.used].spec + 1
    /\ _native_evidence(ext.receipt.audit.lane)

\* The re-ask needs the latest engineer result to be a prose-only verdict on the
\* current specification that was never asked again.
ask_inspect(s, pending) ==
    /\ settled(IF pending THEN "ask" ELSE "none")
    /\ s = Len(turns) /\ s \in reviews
    /\ turns[s].state = "completed" /\ turns[s].answer = "prose"
    /\ turns[s].spec = spec
    /\ chains[s].audit = None \/ pending

ask_evidence(s) == [lane |-> "reask", source |-> s, spec |-> spec, turns |-> turns, cand |-> cand, accepted |-> accepted]

-----------------------------------------------------------------------------
(***************************************************************************)
(* The review extension.                                                   *)
(***************************************************************************)
audit_extension(lane) ==
    /\ win = Idle
    /\ ext_inspect(lane, FALSE)
    /\ audit' = _manifest(lane)
    /\ UNCHANGED <<spec, handoff, turns, cand, accepted, ext, rr, chains, active, win, edits, crashes>>

_audit(lane, saved) == _manifest(lane) = saved

IsAudit(lanes) == audit # None /\ audit.lane \in lanes

\* _extend up to the receipt.  A receipt left by a crash is only taken over by
\* the identical request; the evidence must be that of the audit.
_extend(who) ==
    /\ win = Idle
    /\ IsAudit({"accepted", "pre_acceptance"}) \/ ext.receipt # None
    /\ LET prior == ext.receipt
           saved == IF prior = None THEN audit ELSE prior.audit
       IN  /\ prior # None => prior.who = who
           /\ ext_inspect(saved.lane, prior # None)
           /\ _audit(saved.lane, saved)
           /\ ext' = [ext EXCEPT !.receipt = [who |-> who, audit |-> saved]]
           /\ win' = [op |-> "extend"]
    /\ UNCHANGED <<spec, handoff, turns, cand, accepted, rr, chains, active, audit, edits, crashes>>

_extend_save ==
    /\ win.op = "extend"
    /\ ext' = [ext EXCEPT !.ref = TRUE]
    /\ win' = Idle
    /\ UNCHANGED <<spec, handoff, turns, cand, accepted, rr, chains, active, audit, edits, crashes>>

\* What the send checks again before it consumes the extension.
ext_admission ==
    LET granted == ext.receipt.audit IN
    /\ dispatches < DISPATCH_CEILING
    /\ ext.ref
    /\ dispatches < GrantedReviews(granted) + 1
    /\ spec = granted.spec
    /\ IF granted.lane = "pre_acceptance" THEN _scope_proposal ELSE _acceptance
    /\ turns = granted.turns

-----------------------------------------------------------------------------
(***************************************************************************)
(* The re-review.                                                          *)
(***************************************************************************)
audit_rereview ==
    /\ win = Idle
    /\ rr_inspect(FALSE)
    /\ audit' = _manifest("rereview")
    /\ UNCHANGED <<spec, handoff, turns, cand, accepted, ext, rr, chains, active, win, edits, crashes>>

grant_rereview(who) ==
    /\ win = Idle
    /\ IsAudit({"rereview"}) \/ rr.receipt # None
    /\ LET prior == rr.receipt
           saved == IF prior = None THEN audit ELSE prior.audit
       IN  /\ prior # None => prior.who = who
           /\ rr_inspect(prior # None)
           /\ _audit("rereview", saved)
           /\ rr' = [rr EXCEPT !.receipt = [who |-> who, audit |-> saved]]
           /\ win' = [op |-> "rereview"]
    /\ UNCHANGED <<spec, handoff, turns, cand, accepted, ext, chains, active, audit, edits, crashes>>

grant_rereview_save ==
    /\ win.op = "rereview"
    /\ rr' = [rr EXCEPT !.ref = TRUE]
    /\ win' = Idle
    /\ UNCHANGED <<spec, handoff, turns, cand, accepted, ext, chains, active, audit, edits, crashes>>

\* Every audited fact is checked again: specification, candidate, acceptances,
\* native history.
rr_admission ==
    LET granted == rr.receipt.audit IN
    /\ rr.ref
    /\ dispatches + 1 <= DISPATCH_CEILING
    /\ dispatches = GrantedReviews(granted)
    /\ spec = granted.spec
    /\ cand = granted.cand
    /\ accepted = granted.accepted
    /\ turns = granted.turns

-----------------------------------------------------------------------------
(***************************************************************************)
(* Sending a review.                                                       *)
(***************************************************************************)
\* A review inside the ordinary budget.
ordinary == ~ext.ref /\ debate_attempts < DEBATE_LIMIT /\ dispatches < DISPATCH_CEILING

\* The allowance a spec_review send goes under, if any admits it.
admission(claim) ==
    CASE claim = "rr" -> rr_admission
      [] claim = "ext" -> ~rr.ref /\ ext_admission
      [] claim = "none" -> ~rr.ref /\ ordinary

\* Mutated form: the claim of the saved request is the only consumption.
consume_unrecorded(claim) ==
    /\ win' = [op |-> "send", turn |-> Turn("spec_review", claim, 0)]
    /\ UNCHANGED <<ext, rr>>

\* The durable consumption, before the request is in state.json.
consume(claim) ==
    /\ win' = [op |-> "send", turn |-> Turn("spec_review", claim, 0)]
    /\ ext' = IF claim = "ext" THEN [ext EXCEPT !.used = Len(turns) + 1] ELSE ext
    /\ rr' = IF claim = "rr" THEN [rr EXCEPT !.used = Len(turns) + 1] ELSE rr

send_review(claim) ==
    /\ win = Idle
    /\ Len(turns) < MaxTurns
    /\ quiet
    /\ admission(claim)
    /\ consume(claim)
    /\ UNCHANGED <<spec, handoff, turns, cand, accepted, chains, active, audit, edits, crashes>>

\* state.json names the request; the POST follows.
send_save ==
    /\ win.op = "send"
    /\ turns' = Append(turns, win.turn)
    /\ win' = Idle
    /\ chains' = IF win.turn.purpose = "spec_verdict_repair"
                 THEN [chains EXCEPT ![win.turn.source].named = @ \cup {"intent"}] ELSE chains
    /\ UNCHANGED <<spec, handoff, cand, accepted, ext, rr, active, audit, edits, crashes>>

\* Until the first handoff under a re-asked acceptance its audited candidate is frozen.
check_handoff ==
    active # 0 /\ _chain(active) = "agreed" /\ chains[active].audit.spec = spec => cand = chains[active].audit.cand

hand_off ==
    /\ win = Idle
    /\ quiet
    /\ agreement
    /\ handoff # spec
    /\ check_handoff
    /\ handoff' = spec
    /\ UNCHANGED <<spec, turns, cand, accepted, grants, win, edits, crashes>>

send_engineering ==
    /\ win = Idle
    /\ Len(turns) < MaxTurns
    /\ quiet
    /\ handoff = spec
    /\ agreement
    /\ win' = [op |-> "send", turn |-> Turn("engineering", "none", 0)]
    /\ UNCHANGED <<spec, handoff, turns, cand, accepted, grants, edits, crashes>>

-----------------------------------------------------------------------------
(***************************************************************************)
(* The format re-ask.                                                      *)
(***************************************************************************)
audit_reask(s) ==
    /\ win = Idle
    /\ ask_inspect(s, FALSE)
    /\ audit' = ask_evidence(s)
    /\ UNCHANGED <<spec, handoff, turns, cand, accepted, ext, rr, chains, active, win, edits, crashes>>

\* A finished chain of another source stays where it is; the new one becomes the
\* active one.  There is no taking over of a grant that a crash left unnamed.
grant_reask ==
    /\ win = Idle
    /\ IsAudit({"reask"})
    /\ LET s == audit.source IN
       /\ ask_inspect(s, FALSE)
       /\ ask_evidence(s) = audit
       /\ chains' = [chains EXCEPT ![s] =
              [files |-> {"grant"}, named |-> {}, audit |-> audit]]
       /\ win' = [op |-> "reask", source |-> s]
    /\ UNCHANGED <<spec, handoff, turns, cand, accepted, ext, rr, active, audit, edits, crashes>>

grant_reask_save ==
    /\ win.op = "reask"
    /\ chains' = [chains EXCEPT ![win.source].named = {"grant"}]
    /\ active' = win.source
    /\ win' = Idle
    /\ UNCHANGED <<spec, handoff, turns, cand, accepted, ext, rr, audit, edits, crashes>>

\* The identity and candidate of the grant are those of the moment of the send.
packet(s) == ask_evidence(s) = chains[s].audit

send_reask ==
    /\ win = Idle
    /\ Len(turns) < MaxTurns
    /\ active # 0
    /\ _chain(active) = "granted"
    /\ ask_inspect(active, TRUE)
    /\ packet(active)
    /\ chains' = [chains EXCEPT ![active].files = @ \cup {"intent"}]
    /\ win' = [op |-> "send", turn |-> Turn("spec_verdict_repair", "none", active)]
    /\ UNCHANGED <<spec, handoff, turns, cand, accepted, ext, rr, active, audit, edits, crashes>>

\* The sync that finds the re-ask completed records the candidate beside it.
capture ==
    /\ win = Idle
    /\ active # 0
    /\ validate(ext, "ext", FALSE) /\ validate(rr, "rr", FALSE)
    /\ _claimed
    /\ "completion" \notin chains[active].named
    /\ {"agreement", "closure"} \cap chains[active].named = {}
    /\ \E i \in RepairOf(active) :
          /\ turns[i].state = "completed"
          /\ chains' = [chains EXCEPT ![active].files = @ \cup {"completion"}]
          /\ win' = [op |-> "capture", turn |-> i, cand |-> cand]
    /\ UNCHANGED <<spec, handoff, turns, cand, accepted, ext, rr, active, audit, edits, crashes>>

capture_save ==
    /\ win.op = "capture"
    /\ chains' = [chains EXCEPT ![active].named = @ \cup {"completion"}]
    /\ turns' = [turns EXCEPT ![win.turn].cand = win.cand]
    /\ win' = Idle
    /\ UNCHANGED <<spec, handoff, cand, accepted, ext, rr, active, audit, edits, crashes>>

\* Mutated form: the answer is taken for the verdict without reading it.
_verdict_of_any_answer(i) == TRUE

\* The strict answer: accept, no findings, meaning unchanged.
_verdict(i) == turns[i].answer = "same"

\* The operator's comparison: specification, candidate before and after, the
\* latest engineer result and the strict answer itself.
commit ==
    /\ win = Idle
    /\ active # 0
    /\ _chain(active) = "dispatched"
    /\ "completion" \in chains[active].named
    /\ settled("ask")
    /\ \E i \in RepairOf(active) :
          /\ i = Len(turns)
          /\ spec = chains[active].audit.spec
          /\ cand = chains[active].audit.cand
          /\ turns[i].cand = chains[active].audit.cand
          /\ _verdict(i)
    /\ chains' = [chains EXCEPT ![active].files = @ \cup {"agreement"}]
    /\ win' = [op |-> "finish", name |-> "agreement"]
    /\ UNCHANGED <<spec, handoff, turns, cand, accepted, ext, rr, active, audit, edits, crashes>>

\* The negative comparison needs only the completed result.
close ==
    /\ win = Idle
    /\ active # 0
    /\ _chain(active) = "dispatched"
    /\ settled("ask")
    /\ \E i \in RepairOf(active) : turns[i].state = "completed"
    /\ chains' = [chains EXCEPT ![active].files = @ \cup {"closure"}]
    /\ win' = [op |-> "finish", name |-> "closure"]
    /\ UNCHANGED <<spec, handoff, turns, cand, accepted, ext, rr, active, audit, edits, crashes>>

finish_save ==
    /\ win.op = "finish"
    /\ chains' = [chains EXCEPT ![active].named = @ \cup {win.name}]
    /\ win' = Idle
    /\ UNCHANGED <<spec, handoff, turns, cand, accepted, ext, rr, active, audit, edits, crashes>>

-----------------------------------------------------------------------------
(***************************************************************************)
(* The room around them.                                                   *)
(***************************************************************************)
\* Mutated form: a new specification does not look at the unused extension.
spec_put_beside_a_grant(n) ==
    /\ win = Idle
    /\ quiet
    /\ n > spec
    /\ ~unused(rr)
    /\ spec' = n
    /\ UNCHANGED <<handoff, turns, cand, accepted, grants, win, edits, crashes>>

\* A grant that nobody used pins the current specification.  The crash between
\* the file and the save is in AoLifecycle.
spec_put(n) ==
    /\ win = Idle
    /\ quiet
    /\ n > spec
    /\ ~unused(ext)
    /\ ~unused(rr)
    /\ spec' = n
    /\ UNCHANGED <<handoff, turns, cand, accepted, grants, win, edits, crashes>>

Answers(purpose) ==
    CASE purpose = "spec_review" -> {"accept", "changes", "prose"}
      [] purpose = "spec_verdict_repair" -> {"same", "differs"}
      [] purpose = "engineering" -> {"done", "scope_change"}

\* The sync that finds the turn completed.  An engineering turn leaves its own
\* worktree.
sync(i, answer, c) ==
    /\ win = Idle
    /\ turns[i].state = "active"
    /\ validate(ext, "ext", FALSE) /\ validate(rr, "rr", FALSE)
    /\ answer \in Answers(turns[i].purpose)
    /\ IF turns[i].purpose = "engineering" THEN c # cand ELSE c = cand
    /\ turns' = [turns EXCEPT ![i].state = "completed", ![i].answer = answer,
                              ![i].cand = IF turns[i].purpose = "engineering" THEN c ELSE None]
    /\ cand' = c
    /\ UNCHANGED <<spec, handoff, accepted, grants, win, edits, crashes>>

\* The audited continuation that settles a native failure; the room goes on.
settle(i) ==
    /\ win = Idle
    /\ turns[i].state = "active"
    /\ journal(TRUE) /\ validate(ext, "ext", FALSE) /\ validate(rr, "rr", FALSE)
    /\ turns' = [turns EXCEPT ![i].state = "settled_failure"]
    /\ UNCHANGED <<spec, handoff, cand, accepted, grants, win, edits, crashes>>

\* An acceptance of the finished candidate of the agreed specification.
accept ==
    /\ win = Idle
    /\ quiet
    /\ agreement
    /\ \E i \in latest(Named("engineering")) :
          turns[i].spec = spec /\ turns[i].answer = "done" /\ turns[i].cand = cand
    /\ accepted' = cand
    /\ UNCHANGED <<spec, handoff, turns, cand, grants, win, edits, crashes>>

\* Somebody edits the worktree.
Edit(c) ==
    /\ c # cand
    /\ edits < MaxEdits
    /\ edits' = edits + 1
    /\ cand' = c
    /\ UNCHANGED <<spec, handoff, turns, accepted, grants, win, crashes>>

Crash ==
    /\ win # Idle
    /\ crashes < MaxCrashes
    /\ crashes' = crashes + 1
    /\ win' = Idle
    /\ UNCHANGED <<spec, handoff, turns, cand, accepted, grants, edits>>

Next ==
    \/ \E lane \in {"accepted", "pre_acceptance"} : audit_extension(lane)
    \/ \E who \in Payloads : _extend(who) \/ grant_rereview(who)
    \/ grant_reask \/ _extend_save \/ grant_rereview_save \/ grant_reask_save
    \/ audit_rereview
    \/ \E claim \in {"none", "ext", "rr"} : send_review(claim)
    \/ hand_off \/ send_engineering \/ send_reask \/ send_save
    \/ \E s \in DOMAIN turns : audit_reask(s)
    \/ capture \/ capture_save \/ commit \/ close \/ finish_save
    \/ \E n \in 1..MaxRev : spec_put(n)
    \/ \E i \in DOMAIN turns : settle(i) \/ \E c \in 0..MaxCand : \E a \in Answers(turns[i].purpose) : sync(i, a, c)
    \/ accept
    \/ \E c \in 0..MaxCand : Edit(c)
    \/ Crash

Spec == Init /\ [][Next]_vars

-----------------------------------------------------------------------------
(***************************************************************************)
(* Properties.                                                             *)
(***************************************************************************)
\* Every variable keeps its shape.
TypeOK ==
    /\ spec \in 1..MaxRev /\ handoff \in 1..spec
    /\ cand \in 0..MaxCand
    /\ accepted \in 0..MaxCand \cup {None}
    /\ Len(turns) <= MaxTurns
    /\ \A i \in DOMAIN turns :
          /\ turns[i].state \in {"active", "completed", "settled_failure"}
          /\ turns[i].claim \in {"none", "ext", "rr"}
    /\ active \in 0..MaxTurns
    /\ edits \in 0..MaxEdits
    /\ crashes \in 0..MaxCrashes

\* An allowance is spent at most once, on the specification it was audited for,
\* whatever crashes between its writes: no second review under a grant, no second
\* re-ask of one source, and never a sixth review (ao_review_extension.consume,
\* ao_spec_rereview.consume, ao_spec_verdict_recovery.consume).
AllowancesSpentOnce ==
    /\ dispatches <= DISPATCH_CEILING
    /\ \A g \in {"ext", "rr"} :
          LET grant == IF g = "ext" THEN ext ELSE rr IN
          \A i \in Claimed(g) :
             /\ grant.used = i
             /\ turns[i].spec = grant.receipt.audit.spec
    /\ \A i, j \in Named("spec_verdict_repair") :
          turns[i].source = turns[j].source => i = j

\* No operation of the room itself takes a grant away from its holder.  While the
\* worktree is what was audited, a receipt that a crash left unnamed can still be
\* committed by the identical request, and a committed unused grant still admits
\* its one review (ao_review_extension.admission, guard in ao_room_spec_put).
AllowanceNotLost ==
    win = Idle /\ _claimed =>
        /\ ext.receipt # None /\ ~ext.ref /\ cand = ext.receipt.audit.cand =>
              ext_inspect(ext.receipt.audit.lane, TRUE) /\ _audit(ext.receipt.audit.lane, ext.receipt.audit)
        /\ rr.receipt # None /\ ~rr.ref /\ cand = rr.receipt.audit.cand =>
              rr_inspect(TRUE) /\ _audit("rereview", rr.receipt.audit)
        /\ unused(ext) /\ cand = ext.receipt.audit.cand => quiet /\ admission("ext")
        /\ unused(rr) /\ cand = rr.receipt.audit.cand => quiet /\ admission("rr")

\* An engineering turn under a specification rests on a strict acceptance of it,
\* or on a prose verdict whose single re-ask repeated it without a change of the
\* candidate (ao_workflow.agreement, ao_spec_verdict_recovery.commit).
AgreementGrounded ==
    \A e \in Named("engineering") : \E i \in reviews :
        /\ i < e
        /\ turns[i].spec = turns[e].spec
        /\ \/ turns[i].answer = "accept"
           \/ \E k \in RepairOf(i) :
                 /\ k < e
                 /\ turns[k].answer = "same"
                 /\ turns[k].cand = chains[i].audit.cand

\* The budget of the debate: a review under no allowance was sent while fewer than
\* three earlier reviews had come back without acceptance, also when a re-ask
\* turned one of them into an acceptance later (ao_spec_review_budget).
DebateBounded ==
    \A i \in reviews : turns[i].claim = "none" =>
        Cardinality({j \in reviews : /\ j < i
                                     /\ turns[j].state = "completed"
                                     /\ turns[j].answer # "accept" /\ _chain(j) # "agreed"}) < DEBATE_LIMIT

=============================================================================
