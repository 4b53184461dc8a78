-------------------------- MODULE ReviewerAttempts --------------------------
(***************************************************************************)
(* The reviewer of a normal AO room: which native session it is, the one   *)
(* recovery of a reviewer that was never used, and the attempts beyond the *)
(* ordinary three, each under its own audited grant.                       *)
(*                                                                         *)
(* Grants and consumptions alternate in an append-only journal of files;   *)
(* state.json projects a prefix of it.  A file one ahead of the projection *)
(* is either a grant that its identical request may still commit, or a     *)
(* consumption, which nothing repairs.                                     *)
(*                                                                         *)
(* Another room of the same adapter binds reviewers beside this one.       *)
(* Identities of grants and of reviews are apart by the set they are taken *)
(* from; the checks that neither is reused as the other are left out.      *)
(* Delivery is in AoDispatch, verification and handoff in AoLifecycle.     *)
(***************************************************************************)
EXTENDS Naturals, Sequences, FiniteSets, FiniteSetsExt

CONSTANTS Sessions,    \* native Codex sessions
          Requests,    \* identities of grant requests
          Reviews,     \* identities of granted reviews
          MaxTurns,    \* bound: requests beyond those of Init
          MaxCand,     \* bound: worktree contents, less one
          MaxEdits,    \* bound: edits beside the room
          MaxCrashes,  \* bound: controller crashes
          None

ASSUME BoundsAssumption == {MaxTurns, MaxCand, MaxEdits, MaxCrashes} \subseteq Nat
\* There is a session for the reviewer of each of the two rooms.
ASSUME SessionsAssumption == \A s \in Sessions \cup {None} : \E t \in Sessions : t # s

LIMIT == 3

VARIABLES
    spec,        \* state.json: the current revision
    turns,       \* state.json: requests of both roles in creation order
    checkpoint,  \* state.json: the candidate of the passed checkpoint, or None
    acceptances, \* state.json: the reviews that were accepted
    files,       \* the journal of grants and consumptions
    named,       \* state.json: how many of them it projects
    reviewer,    \* state.json: the bound reviewer session
    recovery,    \* the recovery receipt and its reference
    other,       \* the reviewer session of the other room, or None
    owner,       \* the native owner rows of both bound sessions
    typed,       \* sessions somebody used
    cand,        \* the content of the engineer worktree
    audit,       \* the latest saved audit, until an operation went through with it
    win,         \* the operation between its two writes
    edits,
    crashes

room == <<spec, turns, checkpoint, acceptances>>
journal == <<files, named>>
sessions == <<reviewer, recovery, other>>
native == <<owner, typed, cand>>
vars == <<room, journal, sessions, native, audit, win, edits, crashes>>

Idle == [op |-> "idle"]

Turn(role, id, session) ==
    [role |-> role, id |-> id, session |-> session, spec |-> spec, state |-> "active",
     answer |-> None, cand |-> IF role = "reviewer" THEN checkpoint ELSE None, entry |-> 0]
Past(role, session, answer, c) ==
    [role |-> role, id |-> "past", session |-> session, spec |-> 1, state |-> "completed",
     answer |-> answer, cand |-> c, entry |-> 0]

\* A room whose reviewer was never used, or one whose three attempts ended in
\* rejections, corrected and verified since (and the other room is bound too).
Init ==
    /\ spec = 1 /\ cand = 0 /\ checkpoint = 0
    /\ acceptances = {} /\ files = <<>> /\ named = 0
    /\ recovery = [receipt |-> None, ref |-> FALSE]
    /\ owner = 0
    /\ audit = None /\ win = Idle /\ edits = 0 /\ crashes = 0
    /\ reviewer = CHOOSE s \in Sessions : TRUE
    /\ \/ turns = <<Past("engineer", None, "done", 0)>> /\ typed = {} /\ other = None
       \/ /\ turns = [i \in 1..3 |-> Past("reviewer", reviewer, "rejected", 0)]
                     \o <<Past("engineer", None, "done", 0)>>
          /\ typed = {reviewer} /\ other = CHOOSE s \in Sessions : s # reviewer

-----------------------------------------------------------------------------
(***************************************************************************)
(* The journal.                                                            *)
(***************************************************************************)
_reviewer_requests == {i \in DOMAIN turns : turns[i].role = "reviewer"}
\* The identities that matter: those of granted reviews.
UsedIds == {turns[i].id : i \in DOMAIN turns} \ {None, "past"}

Of(kind, n) == {i \in 1..n : files[i].kind = kind}
Grant(id, saved) ==
    [kind |-> "grant", id |-> id, review |-> saved.target, audit |-> saved,
     attempts |-> Cardinality(_reviewer_requests)]
Consumption(request) == [kind |-> "consumption", request |-> request]

\* Mutated form: what is behind the projection is overlooked.
_journal_projected_only(allow_pending) ==
    \A i \in 1..named : (files[i].kind = "grant") = (i % 2 = 1)

\* Entries alternate; one file may be ahead of the projection, and only a grant,
\* and only for the request that reconciles it.
_journal(allow_pending) ==
    /\ \A i \in 1..named : (files[i].kind = "grant") = (i % 2 = 1)
    /\ \/ Len(files) = named
       \/ /\ Len(files) = named + 1
          /\ files[named + 1].kind = "grant"
          /\ allow_pending

Unconsumed == IF named % 2 = 1 THEN files[named] ELSE None
PendingGrant == IF Len(files) = named + 1 /\ files[named + 1].kind = "grant" THEN files[named + 1] ELSE None
consumptions == Cardinality(Of("consumption", named))

\* The requests of the audited room are untouched and the histories only grew;
\* under an unused grant nothing of them moved at all.
_retained(saved, unused) ==
    /\ Len(saved.turns) <= Len(turns)
    /\ SubSeq(turns, 1, Len(saved.turns)) = saved.turns
    /\ saved.acceptances \subseteq acceptances
    /\ saved.entries <= named
    /\ unused => /\ turns = saved.turns
                 /\ acceptances = saved.acceptances
                 /\ <<spec, checkpoint, reviewer, recovery>> =
                        <<saved.spec, saved.checkpoint, saved.reviewer, saved.recovery>>

\* The k-th consumption accounts for the attempt LIMIT + k, which names it.
_verified(allow_pending) ==
    /\ _journal(allow_pending)
    /\ LET grants == Of("grant", Len(files))
       IN  /\ \A i, j \in grants : files[i].id = files[j].id \/ files[i].review = files[j].review => i = j
           /\ \A i \in Of("grant", named) : files[i].attempts = LIMIT + (i - 1) \div 2
           /\ Cardinality(_reviewer_requests) = LIMIT + consumptions
           /\ \A i \in Of("consumption", named) :
                 \E j \in _reviewer_requests :
                    /\ turns[j].entry = i
                    /\ turns[j].id = files[i - 1].review
                    /\ Cardinality({k \in _reviewer_requests : k <= j}) = LIMIT + i \div 2
           /\ \A i \in DOMAIN turns : turns[i].entry # 0 => turns[i].entry \in Of("consumption", named)
           /\ Unconsumed # None => Unconsumed.review \notin UsedIds
           /\ PendingGrant # None => PendingGrant.review \notin UsedIds
           /\ grants # {} =>
                 LET i == Max(grants) IN _retained(files[i].audit, i = Len(files))

\* A room without a journal has at most three attempts.
validate(allow_pending) ==
    IF files = <<>> /\ named = 0 THEN Cardinality(_reviewer_requests) <= LIMIT
    ELSE _verified(allow_pending)

guard_unused == validate(FALSE) /\ Unconsumed = None

-----------------------------------------------------------------------------
(***************************************************************************)
(* The room's own conditions.                                              *)
(***************************************************************************)
\* A recovery receipt that no state names refuses everything from then on.
recovery_validate == recovery.receipt # None => recovery.ref

finished == \A i \in DOMAIN turns : turns[i].state # "active"

settled(pending) == recovery_validate /\ finished /\ validate(pending)

Engineering == {i \in DOMAIN turns : turns[i].role = "engineer"}
engineering_ready ==
    \E i \in Engineering :
        /\ \A j \in Engineering : j <= i
        /\ turns[i].state = "completed" /\ turns[i].answer = "done"
        /\ turns[i].spec = spec
        /\ turns[i].cand = cand

\* The passed checkpoint, if the candidate is still the one it is about.
Checkpointed == checkpoint # None /\ checkpoint = cand

\* Every native turn of both conversations belongs to a completed request, and
\* nobody typed into the reviewer's.
_native_evidence == \A i \in DOMAIN turns : turns[i].state = "completed"

\* The owners frozen by the first grant are those of every later one.
_retained_owners == \A i \in Of("grant", named) : files[i].audit.owner = owner

-----------------------------------------------------------------------------
(***************************************************************************)
(* Attempts beyond three.                                                  *)
(***************************************************************************)
Phase(target, phase) ==
    CASE phase \in {"audit", "extend"} ->
             /\ Unconsumed = None /\ PendingGrant = None
             /\ target \notin UsedIds
             /\ \A i \in Of("grant", named) : files[i].review # target
      [] phase = "reconcile" -> PendingGrant # None /\ PendingGrant.review = target /\ Unconsumed = None
      [] phase = "admission" ->
             /\ Unconsumed # None /\ Unconsumed.review = target
             /\ target \notin UsedIds

_inspect(target, phase) ==
    /\ IF phase = "admission" THEN validate(FALSE) ELSE settled(phase = "reconcile")
    /\ \A i \in _reviewer_requests : turns[i].session = reviewer
    /\ Cardinality(_reviewer_requests) >= LIMIT
    /\ Cardinality(_reviewer_requests) = LIMIT + consumptions
    /\ Phase(target, phase)
    /\ Checkpointed
    /\ finished
    /\ _retained_owners
    /\ engineering_ready
    /\ _native_evidence

evidence(target) ==
    [lane |-> "acceptance", target |-> target, spec |-> spec, turns |-> turns, checkpoint |-> checkpoint,
     acceptances |-> acceptances, reviewer |-> reviewer, recovery |-> recovery, owner |-> owner,
     entries |-> named]

audit_grant(target) ==
    /\ win = Idle
    /\ _inspect(target, "audit")
    /\ audit' = evidence(target)
    /\ UNCHANGED <<room, journal, sessions, native, win, edits, crashes>>

\* The receipt, or a takeover of the one a crash left by the same request.
extend(id) ==
    /\ win = Idle
    /\ validate(TRUE)
    /\ IF PendingGrant # None THEN PendingGrant.id = id ELSE audit # None /\ audit.lane = "acceptance"
    /\ LET saved == IF PendingGrant # None THEN PendingGrant.audit ELSE audit IN
       /\ \A i \in Of("grant", named) : files[i].id # id
       /\ _inspect(saved.target, IF PendingGrant # None THEN "reconcile" ELSE "extend")
       /\ evidence(saved.target) = saved
       /\ files' = IF PendingGrant # None THEN files ELSE Append(files, Grant(id, saved))
    /\ win' = [op |-> "extend"]
    /\ UNCHANGED <<room, named, sessions, native, audit, edits, crashes>>

extend_save ==
    /\ win.op = "extend"
    /\ named' = named + 1
    /\ audit' = None
    /\ win' = Idle
    /\ UNCHANGED <<room, files, sessions, native, edits, crashes>>

\* The exact request of the unused grant, on the evidence that was audited.
admission(id) ==
    /\ validate(FALSE)
    /\ Unconsumed # None
    /\ Unconsumed.review = id
    /\ _inspect(id, "admission")
    /\ [evidence(id) EXCEPT !.entries = 0, !.recovery = None] =
           [Unconsumed.audit EXCEPT !.entries = 0, !.recovery = None]

\* An unused grant leaves the engineer no turn.
before_send(role) ==
    /\ validate(FALSE)
    /\ Unconsumed # None => role = "reviewer"

Sendable(role) ==
    /\ win = Idle
    /\ Cardinality({i \in DOMAIN turns : turns[i].id # "past"}) < MaxTurns
    /\ settled(FALSE)
    /\ before_send(role)

\* One of the first three attempts.
send_review ==
    /\ Sendable("reviewer")
    /\ Cardinality(_reviewer_requests) < LIMIT
    /\ Checkpointed
    /\ engineering_ready
    /\ turns' = Append(turns, Turn("reviewer", None, reviewer))
    /\ typed' = typed \cup {reviewer}
    /\ UNCHANGED <<spec, checkpoint, acceptances, journal, sessions, owner, cand, audit, win, edits, crashes>>

\* The consumption is durable before state.json and the POST.
consume(id) ==
    LET request == [Turn("reviewer", id, reviewer) EXCEPT !.entry = Len(files) + 1] IN
    /\ files' = Append(files, Consumption(request))
    /\ win' = [op |-> "consume", turn |-> request]

send_granted(id) ==
    /\ Sendable("reviewer")
    /\ Cardinality(_reviewer_requests) >= LIMIT
    /\ admission(id)
    /\ consume(id)
    /\ UNCHANGED <<room, named, sessions, native, audit, edits, crashes>>

send_granted_save ==
    /\ win.op = "consume"
    /\ turns' = Append(turns, win.turn)
    /\ named' = named + 1
    /\ typed' = typed \cup {reviewer}
    /\ win' = Idle
    /\ UNCHANGED <<spec, checkpoint, acceptances, files, sessions, owner, cand, audit, edits, crashes>>

-----------------------------------------------------------------------------
(***************************************************************************)
(* The room around the grants.                                             *)
(***************************************************************************)
\* A correction (or, after spec_put, an implementation) of agreed work.
send_engineering ==
    /\ Sendable("engineer")
    /\ turns' = Append(turns, Turn("engineer", None, None))
    /\ UNCHANGED <<spec, checkpoint, acceptances, journal, sessions, native, audit, win, edits, crashes>>

Answers(role) == IF role = "engineer" THEN {"done", "unusable"} ELSE {"approved", "rejected"}

\* An engineering turn leaves its worktree; a review leaves it alone.
sync(i, answer, c) ==
    /\ win = Idle
    /\ validate(FALSE)
    /\ turns[i].state = "active"
    /\ answer \in Answers(turns[i].role)
    /\ turns[i].role = "reviewer" => c = cand
    /\ turns' = [turns EXCEPT ![i].state = "completed", ![i].answer = answer,
                              ![i].cand = IF turns[i].role = "engineer" THEN c ELSE @]
    /\ cand' = c
    /\ UNCHANGED <<spec, checkpoint, acceptances, journal, sessions, owner, typed, audit, win, edits, crashes>>

\* The audited continuation of a failed turn settles it as failed.
settle(i) ==
    /\ win = Idle
    /\ validate(FALSE)
    /\ Unconsumed # None => turns[i].role = "reviewer"
    /\ turns[i].state = "active"
    /\ turns' = [turns EXCEPT ![i].state = "settled_failure"]
    /\ UNCHANGED <<spec, checkpoint, acceptances, journal, sessions, native, audit, win, edits, crashes>>

verify(passed) ==
    /\ win = Idle
    /\ settled(FALSE)
    /\ guard_unused
    /\ engineering_ready
    /\ checkpoint' = IF passed THEN cand ELSE None
    /\ UNCHANGED <<spec, turns, acceptances, journal, sessions, native, audit, win, edits, crashes>>

spec_put ==
    /\ win = Idle
    /\ settled(FALSE)
    /\ guard_unused
    /\ spec = 1
    /\ spec' = 2
    /\ checkpoint' = None
    /\ UNCHANGED <<turns, acceptances, journal, sessions, native, audit, win, edits, crashes>>

\* An approval of exactly the current specification and checkpoint.
accept(i) ==
    /\ win = Idle
    /\ settled(FALSE)
    /\ i \in _reviewer_requests \ acceptances
    /\ turns[i].answer = "approved"
    /\ engineering_ready
    /\ Checkpointed
    /\ turns[i].spec = spec /\ turns[i].cand = checkpoint
    /\ guard_unused
    /\ acceptances' = acceptances \cup {i}
    /\ UNCHANGED <<spec, turns, checkpoint, journal, sessions, native, audit, win, edits, crashes>>

-----------------------------------------------------------------------------
(***************************************************************************)
(* Which session the reviewer is.                                          *)
(***************************************************************************)
\* Bound and retired sessions of every room.
claims == {reviewer, other} \cup (IF recovery.ref THEN {recovery.receipt.original} ELSE {})

\* Somebody used the session, or a request did.
_empty(s) == s \notin typed

\* Nothing of the room ever used the reviewer, and its history is empty.
recovery_inspect ==
    /\ settled(FALSE)
    /\ ~recovery.ref /\ recovery.receipt = None
    /\ acceptances = {} /\ _reviewer_requests = {}
    /\ engineering_ready
    /\ Checkpointed
    /\ _empty(reviewer)

recovery_evidence ==
    [lane |-> "recovery", spec |-> spec, turns |-> turns, checkpoint |-> checkpoint, reviewer |-> reviewer]

audit_recovery ==
    /\ win = Idle
    /\ recovery_inspect
    /\ audit' = recovery_evidence
    /\ UNCHANGED <<room, journal, sessions, native, win, edits, crashes>>

_target(s) == s \notin claims /\ _empty(s)

recover(s) ==
    /\ win = Idle
    /\ audit # None /\ audit.lane = "recovery"
    /\ recovery_inspect
    /\ recovery_evidence = audit
    /\ _target(s)
    /\ recovery' = [receipt |-> [original |-> reviewer, replacement |-> s], ref |-> FALSE]
    /\ win' = [op |-> "recover"]
    /\ UNCHANGED <<room, journal, reviewer, other, native, audit, edits, crashes>>

\* Binding and reference are one save.
recover_save ==
    /\ win.op = "recover"
    /\ recovery' = [recovery EXCEPT !.ref = TRUE]
    /\ reviewer' = recovery.receipt.replacement
    /\ audit' = None
    /\ win' = Idle
    /\ UNCHANGED <<room, journal, other, native, edits, crashes>>

\* The other room binds its reviewer.  The claim excludes every operation of every
\* room, and an unresolved recovery of any room refuses it.
bind(s) ==
    /\ win = Idle
    /\ other = None
    /\ recovery_validate
    /\ s \notin claims
    /\ other' = s
    /\ UNCHANGED <<room, journal, reviewer, recovery, native, audit, win, edits, crashes>>

-----------------------------------------------------------------------------
\* Somebody edits the worktree, types into a session, or AO moves a session to
\* another native owner.
Edit ==
    /\ edits < MaxEdits
    /\ edits' = edits + 1
    /\ \/ \E c \in 0..MaxCand \ {cand} : cand' = c /\ UNCHANGED <<owner, typed>>
       \/ \E s \in Sessions \ typed : typed' = typed \cup {s} /\ UNCHANGED <<owner, cand>>
       \/ owner' = owner + 1 /\ UNCHANGED <<typed, cand>>
    /\ UNCHANGED <<room, journal, sessions, audit, win, crashes>>

Crash ==
    /\ win # Idle
    /\ crashes < MaxCrashes
    /\ crashes' = crashes + 1
    /\ audit' = None
    /\ win' = Idle
    /\ UNCHANGED <<room, journal, sessions, native, edits>>

Next ==
    \/ \E id \in Requests : extend(id)
    \/ \E id \in Reviews : audit_grant(id) \/ send_granted(id)
    \/ send_review \/ send_engineering
    \/ extend_save \/ send_granted_save \/ recover_save
    \/ \E i \in DOMAIN turns :
          \/ settle(i) \/ accept(i)
          \/ \E c \in 0..MaxCand : \E a \in Answers(turns[i].role) : sync(i, a, c)
    \/ \E passed \in BOOLEAN : verify(passed)
    \/ spec_put
    \/ audit_recovery
    \/ \E s \in Sessions : recover(s) \/ bind(s)
    \/ Edit
    \/ Crash

Spec == Init /\ [][Next]_vars

-----------------------------------------------------------------------------
(***************************************************************************)
(* Properties.                                                             *)
(***************************************************************************)
Candidates == 0..MaxCand
TurnRecord ==
    [role : {"engineer", "reviewer"}, id : Reviews \cup {"past", None}, session : Sessions \cup {None},
     spec : {1, 2}, state : {"active", "completed", "settled_failure"},
     answer : {"done", "unusable", "approved", "rejected", None}, cand : Candidates \cup {None}, entry : Nat]
Recoveries ==
    [receipt : [original : Sessions, replacement : Sessions] \cup {None}, ref : BOOLEAN]
ExtensionAudit ==
    [lane : {"acceptance"}, target : Reviews, spec : {1, 2}, turns : Seq(TurnRecord),
     checkpoint : Candidates \cup {None}, acceptances : SUBSET Nat, reviewer : Sessions,
     recovery : Recoveries, owner : Nat, entries : Nat]
RecoveryAudit ==
    [lane : {"recovery"}, spec : {1, 2}, turns : Seq(TurnRecord), checkpoint : Candidates \cup {None},
     reviewer : Sessions]
GrantRecord == [kind : {"grant"}, id : Requests, review : Reviews, audit : ExtensionAudit, attempts : Nat]
ConsumptionRecord == [kind : {"consumption"}, request : TurnRecord]
ASSUME NoneAssumption == None \notin Sessions \cup GrantRecord \cup [original : Sessions, replacement : Sessions]
TypeOK ==
    /\ spec \in {1, 2} /\ turns \in Seq(TurnRecord) /\ checkpoint \in Candidates \cup {None}
    /\ acceptances \subseteq DOMAIN turns
    /\ files \in Seq(GrantRecord \cup ConsumptionRecord) /\ named \in Nat
    /\ reviewer \in Sessions /\ recovery \in Recoveries /\ other \in Sessions \cup {None}
    /\ owner \in Nat /\ typed \subseteq Sessions /\ cand \in Candidates
    /\ audit \in ExtensionAudit \cup RecoveryAudit \cup {None}
    /\ win \in {Idle} \cup [op : {"extend", "recover"}] \cup [op : {"consume"}, turn : TurnRecord]
    /\ edits \in Nat /\ crashes \in Nat

\* Whatever crashes between a grant's file, a consumption's file and their
\* projection: the attempts are three and one per grant, and the attempt of a
\* grant is the request it names, of the candidate, specification and reviewer
\* that were audited (ao_acceptance_extension.admission, consume).
AttemptsAccounted ==
    LET beyond == {i \in _reviewer_requests :
                       Cardinality({j \in _reviewer_requests : j <= i}) > LIMIT}
    IN  /\ \A i \in beyond :
              LET e == turns[i].entry IN
              /\ e \in 2..Len(files)
              /\ files[e].kind = "consumption" /\ files[e - 1].kind = "grant"
              /\ files[e - 1].review = turns[i].id
              /\ <<turns[i].cand, turns[i].spec, turns[i].session>> =
                     <<files[e - 1].audit.checkpoint, files[e - 1].audit.spec, files[e - 1].audit.reviewer>>
        /\ \A i, j \in beyond : turns[i].entry = turns[j].entry => i = j

\* A reviewer that was used is never replaced, so attempts cannot be renewed with
\* a fresh session: every attempt was made by the bound reviewer, and no session,
\* bound or retired, serves two rooms or twice in one (ao_reviewer_recovery.recover,
\* ao_room_bind).
ReviewerNotRenewed ==
    /\ \A i \in _reviewer_requests : turns[i].session = reviewer
    /\ other # reviewer
    /\ recovery.ref => recovery.receipt.original \notin {reviewer, other}

\* No operation of the room takes a grant away: while worktree and native owners
\* are what was audited, a receipt that a crash left can be committed by its
\* identical request and a committed unused grant admits its one review
\* (ao_acceptance_extension.guard_unused, before_send, guard_outcome_resume).
GrantNotLost ==
    win = Idle /\ recovery_validate =>
        /\ PendingGrant # None /\ <<cand, owner>> = <<PendingGrant.audit.checkpoint, PendingGrant.audit.owner>> =>
              /\ _inspect(PendingGrant.review, "reconcile")
              /\ evidence(PendingGrant.review) = PendingGrant.audit
        /\ /\ Unconsumed # None /\ Len(files) = named
           /\ <<cand, owner>> = <<Unconsumed.audit.checkpoint, Unconsumed.audit.owner>>
           => settled(FALSE) /\ before_send("reviewer") /\ admission(Unconsumed.review)

=============================================================================
