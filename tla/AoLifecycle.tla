---------------------------- MODULE AoLifecycle ----------------------------
(***************************************************************************)
(* The lifecycle of a normal AO room, from a registered specification to   *)
(* an accepted candidate: ao_room_spec_put, ao_room_handoff, the           *)
(* admission rules of ao_room_send for each purpose, the engineering       *)
(* capture of ao_room_sync, ao_room_verify and ao_room_accept.  How a      *)
(* message reaches the native session is AoDispatch; here a request is     *)
(* open until its native turn has answered and a sync has observed it.     *)
(*                                                                         *)
(* Each operation holds the room lock, but a file it writes is on disk     *)
(* before the save of state.json that names it, the worktree is edited     *)
(* while it runs, and the controller can die at any point in between.      *)
(***************************************************************************)
EXTENDS Naturals, Sequences, FiniteSets

CONSTANTS MaxRev,       \* bound: specification revisions
          MaxTree,      \* bound: distinct contents of the engineer worktree
          MaxReq,       \* bound: requests of the room
          MaxCheck,     \* bound: verification attempts
          MaxCrashes,   \* bound: controller crashes
          MaxBlinks,    \* bound: times the native history stops or starts being attributable
          Gates,        \* number of verification gates of a specification
          Restore,      \* whether an edit may bring back an earlier content
          None

ASSUME BoundsAssumption ==
    /\ {MaxRev, MaxTree, MaxReq, MaxCheck, MaxCrashes, MaxBlinks} \subseteq Nat
    /\ Gates \in Nat \ {0}
    /\ Restore \in BOOLEAN

MAX_REVIEW_ATTEMPTS == 3

Revs == 1..MaxRev
Trees == 0..MaxTree
Roles == {"engineer", "reviewer"}

VARIABLES
    spec,         \* state.json: the current revision, 0 before the first
    specFiles,    \* specs/<n>.json on disk
    handoff,      \* state.json: [spec, base] or None
    handoffFiles, \* handoffs/<spec>.json on disk
    reqs,         \* state.json: the requests in creation order
    candFiles,    \* completion-candidates/<request>.json on disk
    checks,       \* state.json: the verification attempts in order
    checkpoint,   \* state.json: the attempt that is the checkpoint, 0 if none
    accepted,     \* state.json: the acceptances
    win,          \* the multi-step operation in progress
    tree,         \* the content of the engineer worktree
    head,         \* its HEAD commit
    readable,     \* the roles whose native history can be attributed right now
    blinks,
    crashes

roomVars == <<spec, specFiles, handoff, handoffFiles>>
worldVars == <<tree, head, readable, blinks>>
vars == <<spec, specFiles, handoff, handoffFiles, reqs, candFiles, checks, checkpoint,
          accepted, win, tree, head, readable, blinks, crashes>>

Idle == [op |-> "idle"]

Init ==
    /\ spec = 0
    /\ specFiles = {}
    /\ handoff = None
    /\ handoffFiles = {}
    /\ reqs = <<>>
    /\ candFiles = {}
    /\ checks = <<>>
    /\ checkpoint = 0
    /\ accepted = {}
    /\ win = Idle
    /\ tree = 0
    /\ head = 0
    /\ readable = Roles
    /\ blinks = 0
    /\ crashes = 0

-----------------------------------------------------------------------------
(***************************************************************************)
(* Reading the room.                                                       *)
(***************************************************************************)
Engineering == {"implementation", "correction"}
Purposes == Engineering \cup {"spec_review", "acceptance_review"}

\* What the native session may answer.  "unusable" stands for every result the
\* readers refuse: held, malformed, or naming other identities than requested.
Answers(purpose) ==
    CASE purpose = "spec_review" -> {"accept", "changes_required", "unusable"}
      [] purpose \in Engineering -> {"completed", "gaps", "scope_change", "unusable"}
      [] purpose = "acceptance_review" -> {"approved", "unusable"}

role(purpose) == IF purpose = "acceptance_review" THEN "reviewer" ELSE "engineer"

Named(purposes) == {i \in DOMAIN reqs : reqs[i].purpose \in purposes}
latest(purposes) ==
    {i \in Named(purposes) : \A j \in Named(purposes) : j <= i}

\* Service.quiet: every request completed, no running verification, nobody
\* working in a bound conversation.
quiet ==
    /\ win = Idle
    /\ \A i \in DOMAIN reqs : reqs[i].state = "completed"
    /\ \A k \in DOMAIN checks : checks[k].state # "running"

\* The latest spec_review request accepts the exact current specification.
agreement ==
    \E i \in latest({"spec_review"}) :
        reqs[i].spec = spec /\ reqs[i].answer = "accept"

handoff_record == handoff # None /\ handoff.spec = spec

\* Mutated form: the worktree is not compared with the captured candidate.
engineering_ready_any_candidate ==
    /\ agreement
    /\ handoff_record
    /\ "engineer" \in readable
    /\ \E i \in latest(Engineering) :
          reqs[i].record # None /\ reqs[i].handoff = handoff.spec /\ reqs[i].answer = "completed"

engineering_ready ==
    /\ agreement
    /\ handoff_record
    /\ "engineer" \in readable
    /\ \E i \in latest(Engineering) :
          /\ reqs[i].record # None
          /\ reqs[i].handoff = handoff.spec
          /\ reqs[i].answer = "completed"
          /\ tree = reqs[i].record

\* Service.checkpoint: passed, for this specification, candidate unchanged.
checkpointed ==
    /\ checkpoint # 0
    /\ checks[checkpoint].spec = spec
    /\ checks[checkpoint].tree = tree

\* The identities a review is asked about and must name.
expected == [spec |-> spec, tree |-> checks[checkpoint].tree, evidence |-> checkpoint]

-----------------------------------------------------------------------------
(***************************************************************************)
(* ao_room_spec_put and ao_room_handoff: the immutable file, then the save *)
(***************************************************************************)
SpecPut(r) ==
    /\ quiet
    /\ r \notin specFiles
    /\ r > spec
    /\ specFiles' = specFiles \cup {r}
    /\ win' = [op |-> "spec", rev |-> r]
    /\ UNCHANGED <<spec, handoff, handoffFiles, reqs, candFiles, checks, checkpoint, accepted,
                   worldVars, crashes>>

SpecSave ==
    /\ win.op = "spec"
    /\ spec' = win.rev
    /\ checkpoint' = 0
    /\ win' = Idle
    /\ UNCHANGED <<specFiles, handoff, handoffFiles, reqs, candFiles, checks, accepted,
                   worldVars, crashes>>

Handoff ==
    /\ quiet
    /\ spec # 0
    /\ agreement
    /\ spec \notin handoffFiles
    /\ handoffFiles' = handoffFiles \cup {spec}
    /\ win' = [op |-> "handoff", base |-> head]
    /\ UNCHANGED <<spec, specFiles, handoff, reqs, candFiles, checks, checkpoint, accepted,
                   worldVars, crashes>>

HandoffSave ==
    /\ win.op = "handoff"
    /\ handoff' = [spec |-> spec, base |-> win.base]
    /\ checkpoint' = 0
    /\ win' = Idle
    /\ UNCHANGED <<spec, specFiles, handoffFiles, reqs, candFiles, checks, accepted,
                   worldVars, crashes>>

(***************************************************************************)
(* ao_room_send: the admission of each purpose.                            *)
(***************************************************************************)
Previous == {i \in Named(Engineering) : handoff # None /\ reqs[i].handoff = handoff.spec}

Admitted(purpose) ==
    CASE purpose = "spec_review" -> TRUE
      [] purpose = "implementation" ->
            agreement /\ handoff_record /\ head = handoff.base /\ Previous = {}
      [] purpose = "correction" ->
            /\ agreement /\ handoff_record /\ Previous # {}
            /\ \A i \in Previous :
                  (\A j \in Previous : j <= i) => reqs[i].answer # "scope_change"
      [] purpose = "acceptance_review" -> engineering_ready

Request(purpose) ==
    [purpose |-> purpose, spec |-> spec, state |-> "open", answer |-> None,
     handoff |-> IF purpose \in Engineering THEN handoff.spec ELSE 0,
     review |-> IF purpose = "acceptance_review" THEN expected ELSE None,
     candidate |-> None, record |-> None, error |-> FALSE]

\* The conversation of a role that had a request can be attributed.
Attributed(r) == (\E i \in DOMAIN reqs : role(reqs[i].purpose) = r) => r \in readable

\* A review is first looked up: its checkpoint is that of the candidate.  The
\* packet looks at the engineering result, and so at the candidate, after it.
SendReview ==
    /\ quiet
    /\ spec # 0
    /\ Attributed("reviewer")
    /\ Len(reqs) < MaxReq
    /\ Cardinality(Named({"acceptance_review"})) < MAX_REVIEW_ATTEMPTS
    /\ checkpointed
    /\ win' = [op |-> "review"]
    /\ UNCHANGED <<roomVars, reqs, candFiles, checks, checkpoint, accepted, worldVars, crashes>>

Send(purpose) ==
    /\ IF purpose = "acceptance_review" THEN win.op = "review" ELSE quiet /\ Attributed(role(purpose))
    /\ spec # 0
    /\ Len(reqs) < MaxReq
    /\ Admitted(purpose)
    /\ reqs' = Append(reqs, Request(purpose))
    /\ win' = Idle
    /\ UNCHANGED <<roomVars, candFiles, checks, checkpoint, accepted, worldVars, crashes>>

(***************************************************************************)
(* ao_room_sync.  The observation of the outcome saves the completed       *)
(* state; the candidate and the engineering record are captured after it,  *)
(* and only by the sync that sees the turn complete.                       *)
(***************************************************************************)
Open == {i \in DOMAIN reqs : reqs[i].state = "open" /\ reqs[i].answer # None}

\* The outcome cannot be attributed: completed with a semantic_observation_error.
\* A later sync observes it again and clears that error, but captures nothing.
SyncUnobserved(i) ==
    /\ win = Idle
    /\ i \in Open
    /\ role(reqs[i].purpose) \notin readable
    /\ reqs' = [reqs EXCEPT ![i].state = "completed"]
    /\ UNCHANGED <<roomVars, candFiles, checks, checkpoint, accepted, win, worldVars, crashes>>

SyncObserve(i) ==
    /\ win = Idle
    /\ i \in Open
    /\ role(reqs[i].purpose) \in readable
    /\ reqs' = [reqs EXCEPT ![i].state = "completed"]
    /\ win' = IF reqs[i].purpose \in Engineering
              THEN [op |-> "candidate", req |-> i] ELSE Idle
    /\ UNCHANGED <<roomVars, candFiles, checks, checkpoint, accepted, worldVars, crashes>>

\* completion_candidate: the snapshot bound to the first completed observation.
CaptureCandidate ==
    /\ win.op = "candidate"
    /\ candFiles' = candFiles \cup {win.req}
    /\ win' = [op |-> "record", req |-> win.req, candidate |-> tree]
    /\ UNCHANGED <<roomVars, reqs, checks, checkpoint, accepted, worldVars, crashes>>

\* capture_engineering: the record, or an engineering_error, and the save.
Reportable(i) ==
    /\ reqs[i].answer # "unusable"
    /\ handoff_record
    /\ reqs[i].handoff = handoff.spec

CaptureRecord ==
    /\ win.op = "record"
    /\ LET good == Reportable(win.req) /\ tree = win.candidate
       IN  reqs' = [reqs EXCEPT ![win.req].candidate = win.candidate,
                                ![win.req].record = IF good THEN tree ELSE None,
                                ![win.req].error = ~good]
    /\ win' = Idle
    /\ UNCHANGED <<roomVars, candFiles, checks, checkpoint, accepted, worldVars, crashes>>

(***************************************************************************)
(* ao_room_verify: the engineering result is compared with the candidate,  *)
(* the candidate is looked at anew and names the attempt, which is saved   *)
(* as running without a checkpoint; the gates run one after another, the   *)
(* checkpoint is saved.                                                    *)
(***************************************************************************)
VerifyStart ==
    /\ quiet
    /\ engineering_ready
    /\ Len(checks) < MaxCheck
    /\ win' = [op |-> "verify"]
    /\ UNCHANGED <<roomVars, reqs, candFiles, checks, checkpoint, accepted, worldVars, crashes>>

VerifyBegin ==
    /\ win.op = "verify"
    /\ checkpoint' = 0
    /\ checks' = Append(checks, [spec |-> spec, tree |-> tree, state |-> "running", ran |-> TRUE])
    /\ win' = [op |-> "gate", done |-> 0, ok |-> TRUE]
    /\ UNCHANGED <<roomVars, reqs, candFiles, accepted, worldVars, crashes>>

\* A gate runs on the worktree as it is and passes or fails.
VerifyGate(ok) ==
    /\ win.op = "gate"
    /\ checks' = [checks EXCEPT ![Len(checks)].ran = @ /\ tree = checks[Len(checks)].tree]
    /\ win' = [op |-> "snapshot", done |-> win.done + 1, ok |-> ok]
    /\ UNCHANGED <<roomVars, reqs, candFiles, checkpoint, accepted, worldVars, crashes>>

\* Mutated form: the candidate is not compared after a gate.
VerifySnapshot_by_code_only ==
    /\ win.op = "snapshot"
    /\ win' = IF win.ok /\ win.done < Gates THEN [op |-> "gate", done |-> win.done, ok |-> TRUE]
              ELSE [op |-> "checkpoint", done |-> win.done, ok |-> win.ok]
    /\ UNCHANGED <<roomVars, reqs, candFiles, checks, checkpoint, accepted, worldVars, crashes>>

\* The snapshot after a gate: a failure or a changed candidate ends the run.
VerifySnapshot ==
    /\ win.op = "snapshot"
    /\ LET same == win.ok /\ tree = checks[Len(checks)].tree
       IN  win' = IF same /\ win.done < Gates
                  THEN [op |-> "gate", done |-> win.done, ok |-> TRUE]
                  ELSE [op |-> "checkpoint", done |-> win.done, ok |-> same]
    /\ UNCHANGED <<roomVars, reqs, candFiles, checks, checkpoint, accepted, worldVars, crashes>>

VerifySave ==
    /\ win.op = "checkpoint"
    /\ checks' = [checks EXCEPT ![Len(checks)].state = IF win.ok THEN "passed" ELSE "failed"]
    /\ checkpoint' = IF win.ok THEN Len(checks) ELSE checkpoint
    /\ win' = Idle
    /\ UNCHANGED <<roomVars, reqs, candFiles, accepted, worldVars, crashes>>

(***************************************************************************)
(* ao_room_accept: the engineering result is compared with the candidate,  *)
(* then the checkpoint is, then the review is read.                        *)
(***************************************************************************)
AcceptStart ==
    /\ quiet
    /\ engineering_ready
    /\ win' = [op |-> "accept"]
    /\ UNCHANGED <<roomVars, reqs, candFiles, checks, checkpoint, accepted, worldVars, crashes>>

Accept(i) ==
    /\ win.op = "accept"
    /\ checkpointed
    /\ "reviewer" \in readable
    /\ i \in Named({"acceptance_review"})
    /\ reqs[i].review = expected
    /\ reqs[i].spec = spec
    /\ reqs[i].answer = "approved"
    /\ accepted' = accepted \cup {[identities |-> expected, req |-> i]}
    /\ win' = Idle
    /\ UNCHANGED <<roomVars, reqs, candFiles, checks, checkpoint, worldVars, crashes>>

\* A send, a verification or an acceptance is refused at a later look, before
\* it has saved anything.
Refused ==
    /\ win.op \in {"review", "verify", "accept"}
    /\ win' = Idle
    /\ UNCHANGED <<roomVars, reqs, candFiles, checks, checkpoint, accepted, worldVars, crashes>>

\* The controller dies; the operation in progress is not resumed.
Crash ==
    /\ win # Idle
    /\ crashes < MaxCrashes
    /\ crashes' = crashes + 1
    /\ win' = Idle
    /\ UNCHANGED <<roomVars, reqs, candFiles, checks, checkpoint, accepted, worldVars>>

-----------------------------------------------------------------------------
(***************************************************************************)
(* The native sessions and whoever edits the worktree (external)           *)
(***************************************************************************)
Answer(i, a) ==
    /\ reqs[i].state = "open"
    /\ reqs[i].answer = None
    /\ reqs' = [reqs EXCEPT ![i].answer = a]
    /\ UNCHANGED <<roomVars, candFiles, checks, checkpoint, accepted, win, worldVars, crashes>>

\* The engineer, a late worker or a human edits, and perhaps commits.
Edit(t) ==
    /\ t # tree
    /\ Restore \/ t = tree + 1
    /\ tree' = t
    /\ head' \in {head, t}
    /\ UNCHANGED <<roomVars, reqs, candFiles, checks, checkpoint, accepted, win, readable, blinks, crashes>>

\* A foreign turn or an unreadable source, and its end.
Blink(o) ==
    /\ blinks < MaxBlinks
    /\ blinks' = blinks + 1
    /\ readable' = IF o \in readable THEN readable \ {o} ELSE readable \cup {o}
    /\ UNCHANGED <<roomVars, reqs, candFiles, checks, checkpoint, accepted, win, tree, head, crashes>>

Next ==
    \/ \E r \in Revs : SpecPut(r)
    \/ SpecSave \/ Handoff \/ HandoffSave
    \/ SendReview \/ (\E purpose \in Purposes : Send(purpose))
    \/ \E i \in DOMAIN reqs : SyncUnobserved(i) \/ SyncObserve(i) \/ Accept(i)
    \/ CaptureCandidate \/ CaptureRecord
    \/ VerifyStart \/ VerifyBegin \/ (\E ok \in BOOLEAN : VerifyGate(ok)) \/ VerifySnapshot \/ VerifySave
    \/ AcceptStart \/ Refused \/ Crash
    \/ \E i \in DOMAIN reqs : \E a \in Answers(reqs[i].purpose) : Answer(i, a)
    \/ \E t \in Trees : Edit(t)
    \/ \E o \in Roles : Blink(o)

Spec == Init /\ [][Next]_vars

-----------------------------------------------------------------------------
Identities == [spec : Revs, tree : Trees, evidence : 1..MaxCheck]
Windows == [op : {"idle", "review", "verify", "accept"}]
           \cup [op : {"spec"}, rev : Revs]
           \cup [op : {"handoff"}, base : Trees]
           \cup [op : {"candidate"}, req : 1..MaxReq]
           \cup [op : {"record"}, req : 1..MaxReq, candidate : Trees]
           \cup [op : {"gate", "snapshot", "checkpoint"}, done : 0..Gates, ok : BOOLEAN]
RequestRecord ==
    [purpose : Purposes, spec : Revs, state : {"open", "completed"},
     answer : {None} \cup UNION {Answers(p) : p \in Purposes},
     handoff : 0..MaxRev, review : Identities \cup {None},
     candidate : Trees \cup {None}, record : Trees \cup {None},
     error : BOOLEAN]
Check == [spec : Revs, tree : Trees, state : {"running", "passed", "failed"}, ran : BOOLEAN]

\* None is no answer, no content and no record.
ASSUME NoneAssumption ==
    /\ None \notin UNION {Answers(p) : p \in Purposes}
    /\ None \notin Trees /\ None \notin Identities /\ None \notin [spec : Revs, base : Trees]

TypeOK ==
    /\ spec \in 0..MaxRev
    /\ specFiles \subseteq Revs
    /\ handoff \in [spec : Revs, base : Trees] \cup {None}
    /\ handoffFiles \subseteq Revs
    /\ reqs \in Seq(RequestRecord) /\ Len(reqs) <= MaxReq
    /\ candFiles \subseteq 1..MaxReq
    /\ checks \in Seq(Check) /\ Len(checks) <= MaxCheck
    /\ checkpoint \in 0..Len(checks)
    /\ accepted \subseteq [identities : Identities, req : 1..MaxReq]
    /\ win \in Windows
    /\ tree \in Trees /\ head \in Trees
    /\ readable \subseteq Roles
    /\ blinks \in Nat
    /\ crashes \in Nat

Approves(s, r) == /\ reqs[s].purpose = "spec_review" /\ reqs[s].spec = r
                  /\ reqs[s].answer = "accept"

\* Every acceptance rests on a complete chain for one specification and one
\* candidate: an agreed specification, an engineering result captured under
\* that agreement's handoff, a passed verification of exactly the captured
\* candidate, and an independent approval that names all of them.  The looks
\* of an acceptance at the candidate show that while no edit restores an
\* earlier content of the worktree between them.
AcceptanceChain ==
    \A a \in accepted :
        LET c == checks[a.identities.evidence]  v == reqs[a.req] IN
        /\ c.state = "passed" /\ c.spec = a.identities.spec /\ c.tree = a.identities.tree
        /\ v.purpose = "acceptance_review" /\ v.answer = "approved"
        /\ v.review = a.identities
        /\ \E e \in Named(Engineering), s \in DOMAIN reqs :
              /\ s < e /\ Approves(s, a.identities.spec)
              /\ reqs[e].handoff = a.identities.spec
              /\ reqs[e].record = a.identities.tree /\ reqs[e].answer = "completed"

\* The gates of a passed attempt ran on the candidate the attempt names.
\* Snapshots before and after a gate show it only while no edit restores an
\* earlier content of the worktree.
GatesRanOnCandidate ==
    \A k \in DOMAIN checks : checks[k].state = "passed" => checks[k].ran

\* The checkpoint is the outcome of the last attempt on the current
\* specification: no older pass survives a later failed, interrupted or
\* superseding step, across every crash.
CheckpointIsLast ==
    checkpoint # 0 => /\ checkpoint = Len(checks)
                      /\ checks[checkpoint].state = "passed"
                      /\ checks[checkpoint].spec = spec

\* A verification left running by a crash stops the room: nothing is sent,
\* verified, accepted or respecified beside its processes.
UnfinishedVerificationHolds ==
    [][(win = Idle /\ \E k \in DOMAIN checks : checks[k].state = "running") =>
          /\ UNCHANGED <<spec, handoff, checks, checkpoint, accepted>>
          /\ Len(reqs') = Len(reqs)]_vars

\* What was captured for a result is captured once: neither a later sync nor
\* a crash and a second sync rebinds a result to another candidate, and the
\* record is the candidate of the first completed observation.
CaptureOnce ==
    [][\A i \in DOMAIN reqs :
          /\ reqs[i].candidate # None =>
                /\ reqs'[i].candidate = reqs[i].candidate
                /\ reqs'[i].record = reqs[i].record
                /\ reqs'[i].error = reqs[i].error
          /\ reqs'[i].record # None => reqs'[i].record = reqs'[i].candidate]_vars

\* Engineering is only dispatched under an agreement on its specification,
\* and the first turn of a handoff is its one implementation turn.
EngineeringAgreed ==
    \A i \in Named(Engineering) :
        /\ reqs[i].handoff = reqs[i].spec
        /\ \E s \in 1..(i - 1) :
              /\ Approves(s, reqs[i].spec)
              /\ \A n \in (s + 1)..(i - 1) : reqs[n].purpose # "spec_review"
        /\ reqs[i].purpose = "implementation" <=>
              \A j \in 1..(i - 1) : reqs[j].purpose \in Engineering => reqs[j].handoff # reqs[i].handoff

=============================================================================
