----------------------------- MODULE LegacyJobs -----------------------------
(***************************************************************************)
(* The implementation jobs of the legacy controller (project_room.py) and  *)
(* of one handoff (implementation.py), with the recovery of an interrupted *)
(* model turn (recovery.py) and the retry of timed-out gates on a copy     *)
(* (verification.py).                                                      *)
(*                                                                         *)
(* Four kinds of processes touch one job: the service that submits it, the *)
(* supervisor that holds its lease, the executor that holds the handoff    *)
(* lock, and the model or gate the executor starts.  Each may die alone;   *)
(* what they leave behind is read from the job registry and from the       *)
(* handoff's state.json, which are written at different moments.           *)
(*                                                                         *)
(* The service's operations hold the room lock, so each is one step with   *)
(* the crashes that matter inside.  All gates of a run are one child.      *)
(* Left out: review jobs, tampered records, the evidence files and the     *)
(* transcript prefix a blocked attempt is diagnosed by (diag stands for    *)
(* the diagnosis), duplicate requests (answered from the row they name),   *)
(* the startup grace, within which a job whose worker is gone still counts *)
(* as active: it blocks the room either way.                               *)
(***************************************************************************)
EXTENDS Naturals, Sequences, FiniteSets, SequencesExt

CONSTANTS Trees,      \* contents of the worktree
          Start,      \* the content the handoff was prepared with
          MaxJobs,    \* bound: jobs submitted
          MaxEdits,   \* bound: worktree edits by others
          MaxFaults,  \* bound: deaths of a process, failed spawns, reboots
          None

Jobs == 1 .. MaxJobs

VARIABLES
    job,     \* registry: jobs in submission order
    recs,    \* registry: implementation_recoveries, unregistered ones included
    vers,    \* registry: implementation_verifications, unregistered ones included
    hand,    \* the handoff's state.json
    agreed,  \* the handed-off revision is the agreed one and no finding is open
    tree,    \* the worktree
    sup,     \* supervisors: "none", "spawned", "running", "gone"
    ex,      \* executors: "none", a stage, "exit" or "dead"
    live,    \* a model or gate process of this job is alive
    result,  \* what an executor printed
    booted,  \* the machine was restarted since the last model turn ended
    ran,     \* contents on which every gate of one run has passed
    edits, faults

processes == <<sup, ex, live, result>>
vars == <<job, recs, vers, hand, agreed, tree, processes, booted, ran, edits, faults>>

ACTIVE == {"queued", "running"}
Locked == {"launch", "child", "gates", "verify", "publish"}
Alive == Locked \cup {"start"}
LockFree == \A j \in Jobs : ex[j] \notin Locked
Leased(j) == sup[j] \in {"spawned", "running"}
NoResult == [kind |-> None, attempt |-> 0, launched |-> FALSE]
Result(kind, h) == [kind |-> kind, attempt |-> h.attempt, launched |-> h.recovery # 0 /\ h.launched]

Init ==
    /\ job = <<>> /\ recs = <<>> /\ vers = <<>>
    /\ hand = [phase |-> "prepared", attempt |-> 0, candidate |-> Start, passed |-> FALSE,
               diag |-> None, recovery |-> 0, launched |-> FALSE, verification |-> 0]
    /\ agreed = TRUE /\ tree = Start
    /\ sup = [j \in Jobs |-> "none"] /\ ex = [j \in Jobs |-> "none"]
    /\ live = [j \in Jobs |-> FALSE] /\ result = [j \in Jobs |-> NoResult]
    /\ booted = FALSE /\ ran = {} /\ edits = 0 /\ faults = 0

-----------------------------------------------------------------------------
(***************************************************************************)
(* Which jobs block the room.                                              *)
(***************************************************************************)
\* Mutated form: a vanished worker is recorded as a failure.
_refresh_failed ==
    [j \in DOMAIN job |-> IF job[j].status \in ACTIVE /\ ~Leased(j)
                          THEN [job[j] EXCEPT !.status = "failed"] ELSE job[j]]

\* A free lease proves that the supervisor is gone; what it ran may not be.
_refresh ==
    [j \in DOMAIN job |-> IF job[j].status \in ACTIVE /\ ~Leased(j)
                          THEN [job[j] EXCEPT !.status = "uncertain"] ELSE job[j]]

Active(jobs, j) == j # 0 /\ jobs[j].status \in ACTIVE

\* Predecessors covered by a recovery: carried by this submission, in the
\* hands of an active successor, or consumed.
_superseded(jobs, recovery) ==
    {recs[i].pred : i \in {i \in DOMAIN recs :
        \/ recs[i].status = "dispatched" /\ Active(jobs, recs[i].succ)
        \/ recs[i].status = "consumed"
        \/ recs[i].status = "prepared" /\ i = recovery}}

\* The same for verifications; with the edge go the uncertain successors of
\* earlier attempts at it, and a reconciled successor itself.
_verification_edges(jobs, pred) ==
    LET edges == {i \in DOMAIN vers :
            \/ vers[i].status = "consumed" /\ ~Active(jobs, vers[i].succ)
            \/ vers[i].status = "dispatched" /\ Active(jobs, vers[i].succ)}
        covered == {vers[i].pred : i \in edges} \cup ({pred} \ {0})
    IN covered
       \cup {vers[i].succ : i \in {i \in edges : vers[i].reconciled}}
       \cup {vers[i].succ : i \in {i \in DOMAIN vers :
                vers[i].status \in {"interrupted", "invalidated"} /\ vers[i].pred \in covered
                    /\ ~Active(jobs, vers[i].succ)}}

_blocking_jobs(jobs, recovery, pred) ==
    {j \in DOMAIN jobs : jobs[j].status \in ACTIVE \cup {"uncertain"}}
        \ (_superseded(jobs, recovery) \cup _verification_edges(jobs, pred))

-----------------------------------------------------------------------------
(***************************************************************************)
(* The audits of an interrupted attempt.                                   *)
(***************************************************************************)
\* The registered job's own account of the attempt the handoff stopped at.
Interrupted(jobs, j, diag) ==
    /\ jobs[j].kind = "implementation" /\ jobs[j].status = "uncertain"
    /\ result[j].kind = "blocked" /\ result[j].attempt = hand.attempt
    /\ hand.diag = diag

\* The processes of the session or of the worktree the host shows.
process_table == {k \in Jobs : live[k]}

\* Nobody works on it: no owner of its locks, and no such process.
Stopped(j) == ~Leased(j) /\ process_table = {}

\* A gate of an earlier verification is known by the marker it carries, also
\* when it has left the directory of its run.
marker_processes == {k \in DOMAIN job : live[k] /\ job[k].kind = "verification"}
observe_gate(j) == Stopped(j) /\ marker_processes = {}

\* The worktree is what the handoff, or the record of the verification, says.
AsAuthorized(h) == tree = h.candidate
AsBound(i) == tree = vers[i].candidate

audit_recovery(jobs, h, j, expect) ==
    /\ Interrupted(jobs, j, "model")
    /\ IF expect = 0 THEN h.phase = "blocked"
       ELSE h.phase = "recovery_prepared" /\ h.recovery = expect /\ recs[expect].pred = j
    /\ agreed /\ (expect # 0 => tree = recs[expect].candidate)
    /\ Stopped(j) /\ booted

\* What the gates ran on is current and has not moved since.
Current(h, expect) == agreed /\ AsAuthorized(h) /\ (expect # 0 => AsBound(expect))

audit_verification(jobs, h, j, expect) ==
    /\ Interrupted(jobs, j, "gate")
    /\ h.phase = "blocked" /\ h.verification = expect
    /\ IF expect = 0 THEN h.recovery = 0 ELSE vers[expect].pred = j
    /\ Current(h, expect)
    /\ observe_gate(j)

\* The durable record, and the projection that names it.
prepare_recovery(h, i) == [h EXCEPT !.phase = "recovery_prepared", !.recovery = i, !.launched = FALSE]
prepare_verification(h, i) == [h EXCEPT !.verification = i]

\* recovery.invalidate: back to blocked if the handoff still names it.
WithoutRecovery(h, i) ==
    IF h.phase = "recovery_prepared" /\ h.recovery = i
    THEN [h EXCEPT !.phase = "blocked", !.recovery = 0] ELSE h

\* verification.invalidate.
WithoutVerification(h, i) ==
    IF i # 0 /\ h.verification = i /\ h.phase \in {"blocked", "verifying"}
    THEN [h EXCEPT !.phase = "blocked", !.verification = 0] ELSE h

\* The registry row first, the projection when nobody holds the handoff.
_invalidate_recovery(i) ==
    /\ recs' = [recs EXCEPT ![i].status = "invalidated"]
    /\ hand' = IF LockFree THEN WithoutRecovery(hand, i) ELSE hand

project_completion(h, i) ==
    [h EXCEPT !.phase = "awaiting_astra_review", !.passed = vers[i].outcome = "passed", !.verification = 0]

-----------------------------------------------------------------------------
(***************************************************************************)
(* Submission.  A new job is registered with its lease held; the worker    *)
(* that inherits it starts, does not start, or the service dies first.     *)
(***************************************************************************)
Spawn == [ok |-> "spawned", failed |-> "gone", crash |-> "gone"]
Spawned(how) == faults' = faults + (IF how = "ok" THEN 0 ELSE 1) /\ faults' <= MaxFaults

NewJob(jobs, kind, link, how) ==
    LET j == Len(job) + 1
    IN /\ j \in Jobs
       /\ job' = Append(jobs, [kind |-> kind, link |-> link, cancel |-> FALSE,
                               status |-> IF how = "failed" THEN "failed" ELSE "queued"])
       /\ sup' = [sup EXCEPT ![j] = Spawn[how]]
       /\ Spawned(how)
       /\ UNCHANGED <<agreed, tree, ex, live, result, booted, ran, edits>>

\* room_implementation_submit without a recovery.
room_implementation_submit(how) ==
    /\ _blocking_jobs(_refresh, 0, 0) = {} /\ agreed
    /\ NewJob(_refresh, "implementation", 0, how)
    /\ UNCHANGED <<recs, vers, hand>>

\* With a prepared recovery: the audit is repeated before the dispatch, and
\* a change it finds invalidates the recovery.
SubmitRecovery(i, how) ==
    /\ recs[i].status = "prepared"
    /\ _blocking_jobs(_refresh, i, 0) = {} /\ agreed
    /\ \/ /\ audit_recovery(_refresh, hand, recs[i].pred, i) /\ LockFree
          /\ NewJob(_refresh, "implementation", i, how)
          /\ recs' = [recs EXCEPT ![i].succ = Len(job) + 1,
                                  ![i].status = IF how = "failed" THEN "invalidated" ELSE "dispatched"]
          /\ hand' = IF how = "failed" THEN WithoutRecovery(hand, i) ELSE hand
          /\ UNCHANGED vers
       \/ /\ hand.recovery = i /\ hand.phase = "recovery_prepared" /\ tree # recs[i].candidate /\ how = "ok"
          /\ job' = _refresh
          /\ _invalidate_recovery(i)
          /\ UNCHANGED <<vers, agreed, tree, processes, booted, ran, edits, faults>>

\* A recovery_prepared handoff whose row is missing or invalidated.
_reconcile_projection ==
    IF hand.phase = "recovery_prepared" /\ LockFree
        /\ recs[hand.recovery].status \in {"unregistered", "invalidated"}
    THEN WithoutRecovery(hand, hand.recovery) ELSE hand

\* room_implementation_recover: the record and state.json come before the
\* registry row, and the service may die in between.
room_implementation_recover(j, crash) ==
    LET h == _reconcile_projection
    IN /\ \A i \in DOMAIN recs : recs[i].pred = j => recs[i].status \notin {"prepared", "dispatched"}
       /\ audit_recovery(job, h, j, 0) /\ LockFree
       /\ Len(recs) < MaxJobs
       /\ recs' = Append(recs, [pred |-> j, succ |-> 0, candidate |-> tree, launches |-> 0,
                                status |-> IF crash THEN "unregistered" ELSE "prepared"])
       /\ hand' = prepare_recovery(h, Len(recs) + 1)
       /\ faults' = faults + (IF crash THEN 1 ELSE 0) /\ faults' <= MaxFaults
       /\ UNCHANGED <<job, vers, agreed, tree, processes, booted, ran, edits>>

-----------------------------------------------------------------------------
(***************************************************************************)
(* room_verification_retry first settles what an earlier retry left.       *)
(***************************************************************************)
Settled(i, status, h) ==
    [rows |-> [vers EXCEPT ![i].status = status, ![i].reconciled = status = "consumed"], hand |-> h]
Unchanged == [rows |-> vers, hand |-> hand]

\* The outcome file is there and intact.
verify_outcome(i) == vers[i].file

\* settle_projected: the handoff no longer names the verification.
settle_projected(i) ==
    IF ~verify_outcome(i) THEN "invalidated"
    ELSE IF vers[i].outcome = "interrupted"
         THEN (IF hand.phase = "blocked" THEN "interrupted" ELSE "invalidated")
         ELSE IF hand.phase = "awaiting_astra_review" /\ AsAuthorized(hand) /\ AsBound(i)
              THEN "consumed" ELSE "invalidated"

\* reconcile_completion: it still does.
reconcile_completion(i) ==
    IF ~verify_outcome(i) THEN "invalidated"
    ELSE IF vers[i].outcome = "interrupted" THEN "interrupted"
    ELSE IF AsBound(i) THEN "consumed" ELSE "invalidated"

_settle_unbound(jobs) ==
    LET stale == {i \in DOMAIN vers : vers[i].status = "dispatched" /\ ~Active(jobs, vers[i].succ)}
    IN IF stale = {} \/ ~LockFree THEN Unchanged
       ELSE LET i == CHOOSE i \in stale : TRUE
            IN Settled(i, IF vers[i].outcome = None THEN "invalidated" ELSE settle_projected(i), hand)

_reconcile_verification(jobs) ==
    LET i == hand.verification
        dropped == IF LockFree THEN WithoutVerification(hand, i) ELSE hand
    IN IF i = 0 THEN _settle_unbound(jobs)
       ELSE IF vers[i].status \in {"unregistered", "invalidated", "interrupted"}
       THEN [rows |-> vers, hand |-> dropped]
       ELSE IF vers[i].status # "dispatched" \/ Active(jobs, vers[i].succ) THEN Unchanged
       ELSE IF vers[i].outcome = None THEN Settled(i, "invalidated", dropped)
       ELSE IF ~LockFree THEN Unchanged
       ELSE Settled(i, reconcile_completion(i),
                    IF reconcile_completion(i) = "consumed" THEN project_completion(hand, i) ELSE dropped)

\* The retry: settle; otherwise audit, bind the handoff, then register row
\* and job together.
room_verification_retry(j, how) ==
    LET jobs == _refresh
        r == _reconcile_verification(jobs)
        i == Len(vers) + 1
        bound == prepare_verification(r.hand, i)
    IN /\ Len(vers) < MaxJobs
       /\ IF r # Unchanged
          THEN /\ how = "ok"
               /\ job' = jobs /\ vers' = r.rows /\ hand' = r.hand
               /\ UNCHANGED <<recs, agreed, tree, processes, booted, ran, edits, faults>>
          ELSE /\ \A k \in DOMAIN vers : vers[k].pred = j => vers[k].status # "dispatched"
               /\ audit_verification(job, hand, j, 0) /\ LockFree
               /\ \/ /\ _blocking_jobs(jobs, 0, j) = {}
                     /\ NewJob(jobs, "verification", i, how)
                     /\ vers' = Append(vers, [pred |-> j, succ |-> Len(job) + 1, candidate |-> tree,
                                              outcome |-> None, file |-> FALSE, reconciled |-> FALSE,
                                              status |-> IF how = "failed" THEN "invalidated" ELSE "dispatched"])
                     /\ hand' = IF how = "failed" THEN hand ELSE bound
                     /\ UNCHANGED recs
                  \/ \* dies before the registration
                     /\ how = "crash" /\ Spawned(how)
                     /\ vers' = Append(vers, [pred |-> j, succ |-> 0, candidate |-> tree, outcome |-> None,
                                              file |-> FALSE, reconciled |-> FALSE, status |-> "unregistered"])
                     /\ hand' = bound
                     /\ UNCHANGED <<job, recs, agreed, tree, processes, booted, ran, edits>>

-----------------------------------------------------------------------------
(***************************************************************************)
(* The supervisor.                                                         *)
(***************************************************************************)
\* Mutated form: a run that cannot be classified is taken for one that never
\* launched.
recovery_linkage_unlaunched(j, status) == IF result[j].launched THEN "consumed" ELSE "invalidated"

recovery_linkage(j, status) ==
    IF result[j].launched THEN "consumed"
    ELSE IF result[j].kind = "refused" \/ status = "cancelled" THEN "invalidated" ELSE "dispatched"

verification_linkage(i, j, status) ==
    IF result[j].kind = "verified" /\ status = "succeeded"
    THEN (IF vers[i].outcome \in {"passed", "failed"} /\ vers[i].file THEN "consumed"
          ELSE IF vers[i].outcome # None THEN "dispatched" ELSE "invalidated")
    ELSE IF result[j].kind = "interrupted" THEN "interrupted"
    ELSE IF result[j].kind = "refused" \/ status = "cancelled" THEN "invalidated" ELSE "dispatched"

\* The final transaction, and the projections after it unless it dies there.
Finish(j, status, crash) ==
    LET i == job[j].link
        rec == job[j].kind = "implementation" /\ i # 0 /\ recs[i].status = "dispatched" /\ recs[i].succ = j
        ver == job[j].kind = "verification" /\ vers[i].status = "dispatched" /\ vers[i].succ = j
        project(h) == IF rec /\ recovery_linkage(j, status) = "invalidated" THEN WithoutRecovery(h, i)
                      ELSE IF ver /\ verification_linkage(i, j, status) = "invalidated"
                      THEN WithoutVerification(h, i) ELSE h
    IN /\ job' = [job EXCEPT ![j].status = status]
       /\ sup' = [sup EXCEPT ![j] = "gone"]
       /\ recs' = IF rec THEN [recs EXCEPT ![i].status = recovery_linkage(j, status)] ELSE recs
       /\ vers' = IF ver THEN [vers EXCEPT ![i].status = verification_linkage(i, j, status)] ELSE vers
       /\ agreed' = (agreed /\ result[j].kind # "scope")
       /\ hand' = IF crash \/ ~LockFree THEN hand ELSE project(hand)
       /\ faults' = faults + (IF crash THEN 1 ELSE 0) /\ faults' <= MaxFaults
       /\ (crash => project(hand) # hand)
       /\ UNCHANGED <<tree, live, result, booted, ran, edits>>

\* worker, up to the start of the executor.
worker_start(j) ==
    /\ sup[j] = "spawned" /\ job[j].status = "queued"
    /\ IF job[j].cancel
       THEN /\ \E crash \in BOOLEAN : Finish(j, "cancelled", crash)
            /\ UNCHANGED ex
       ELSE /\ job' = [job EXCEPT ![j].status = "running"]
            /\ sup' = [sup EXCEPT ![j] = "running"] /\ ex' = [ex EXCEPT ![j] = "start"]
            /\ UNCHANGED <<recs, vers, hand, agreed, tree, live, result, booted, ran, edits, faults>>

\* worker, once the executor has ended.
worker_finish(j, crash) ==
    LET kind == result[j].kind
        status == IF kind \in {"awaiting", "scope", "verified"} THEN "succeeded"
                  ELSE IF kind = "refused" /\ ~job[j].cancel THEN "failed" ELSE "uncertain"
    IN /\ sup[j] = "running" /\ ex[j] \in {"exit", "dead"}
       /\ Finish(j, status, crash)
       /\ UNCHANGED ex

room_job_cancel(j) ==
    /\ _refresh[j].status \in ACTIVE /\ ~job[j].cancel
    /\ job' = [_refresh EXCEPT ![j].cancel = TRUE]
    /\ UNCHANGED <<recs, vers, hand, agreed, tree, processes, booted, ran, edits, faults>>

-----------------------------------------------------------------------------
(***************************************************************************)
(* The executor.                                                           *)
(***************************************************************************)
Exit(j, kind, h) ==
    /\ ex' = [ex EXCEPT ![j] = "exit"] /\ result' = [result EXCEPT ![j] = Result(kind, h)]
    /\ hand' = h
Enter(j, stage) == ex' = [ex EXCEPT ![j] = stage] /\ UNCHANGED result

\* Every stage ends with its process stopped, whatever ended it.
Reaped(j) == live' = [live EXCEPT ![j] = FALSE]

\* A model that stopped at the session's usage limit or ran out of its time can
\* be recovered; of another end nothing is known.
Diagnoses == {"model", None}

Blocked(h, diag) == [h EXCEPT !.phase = "blocked", !.diag = diag]

\* The successor runs only under its own live supervisor and its own row.
_registered(j, rows) ==
    /\ job[j].status = "running" /\ sup[j] = "running"
    /\ rows[job[j].link].status = "dispatched" /\ rows[job[j].link].succ = j

_registered_verifier(j) == _registered(j, vers)

\* What keeps a registered successor from the launch.
_recovery_refusal(j, h) ==
    LET i == job[j].link
    IN ~(h.recovery = i /\ _registered(j, recs) /\ audit_recovery(job, h, recs[i].pred, i))

\* _prepare_attempt: the attempt is counted and saved before it is launched.
_prepare_attempt(j, h) ==
    /\ Enter(j, "launch")
    /\ hand' = [h EXCEPT !.phase = "running_model", !.attempt = @ + 1, !.passed = FALSE, !.diag = None]

\* run_implementation up to the saved attempt.
run_implementation(j) ==
    LET i == job[j].link
        h == IF hand.phase \in {"running_model", "running_gates"} THEN Blocked(hand, None) ELSE hand
    IN /\ ex[j] = "start" /\ job[j].kind = "implementation"
       /\ IF ~LockFree THEN Exit(j, "uncertain", hand)
          ELSE IF h.phase \notin {"prepared", "correction_pending", "recovery_prepared"}
          THEN Exit(j, IF h.phase = "blocked" THEN "blocked" ELSE "uncertain", h)
          ELSE IF (h.phase = "recovery_prepared") # (i # 0) THEN Exit(j, "uncertain", h)
          ELSE IF i # 0
          THEN IF _recovery_refusal(j, h) THEN Exit(j, "refused", h) ELSE _prepare_attempt(j, h)
          ELSE \/ agreed /\ AsAuthorized(h) /\ _prepare_attempt(j, h)
               \/ ~(agreed /\ AsAuthorized(h)) /\ Exit(j, "uncertain", h)
       /\ UNCHANGED <<job, recs, vers, agreed, tree, sup, live, booted, ran, edits, faults>>

\* _run_child of the model: spawned, or not.
LaunchModel(j) ==
    LET i == job[j].link
    IN /\ ex[j] = "launch"
       /\ Enter(j, "child")
       /\ live' = [live EXCEPT ![j] = TRUE]
       /\ recs' = IF i # 0 THEN [recs EXCEPT ![i].launches = @ + 1] ELSE recs
       /\ hand' = [hand EXCEPT !.launched = i # 0]
       /\ UNCHANGED <<job, vers, agreed, tree, sup, booted, ran, edits, faults>>

\* A recovery that did not spawn returns to its prepared state.
NotLaunched(j) ==
    IF job[j].link # 0
    THEN Exit(j, "refused", [hand EXCEPT !.phase = "recovery_prepared", !.attempt = @ - 1, !.diag = "model"])
    ELSE Exit(j, "blocked", Blocked(hand, None))

ModelSpawnError(j) ==
    /\ ex[j] = "launch" /\ faults < MaxFaults
    /\ NotLaunched(j)
    /\ faults' = faults + 1
    /\ UNCHANGED <<job, recs, vers, agreed, tree, sup, live, booted, ran, edits>>

\* The model writes and ends, with a usable report or without.
ModelEnds(j, content) ==
    LET h == [hand EXCEPT !.candidate = content]
    IN /\ ex[j] = "child"
       /\ tree' = content /\ booted' = FALSE
       /\ \/ Enter(j, "gates") /\ hand' = [h EXCEPT !.phase = "running_gates"] /\ UNCHANGED live
          \/ /\ \/ Exit(j, "scope", [h EXCEPT !.phase = "scope_change"])
                \/ \E diag \in Diagnoses : Exit(j, "blocked", Blocked(hand, diag))
             /\ Reaped(j)
       /\ UNCHANGED <<job, recs, vers, agreed, sup, ran, edits, faults>>

\* Independent gates in the worktree; what they ran on must not have moved.
GatesEnd(j) ==
    /\ ex[j] = "gates"
    /\ Reaped(j)
    /\ \/ Exit(j, "blocked", Blocked(hand, "gate")) /\ UNCHANGED ran
       \/ ~AsAuthorized(hand) /\ Exit(j, "blocked", Blocked(hand, None)) /\ UNCHANGED ran
       \/ \E passed \in BOOLEAN :
            /\ AsAuthorized(hand)
            /\ Exit(j, "awaiting", [hand EXCEPT !.phase = "awaiting_astra_review", !.passed = passed])
            /\ ran' = IF passed THEN ran \cup {tree} ELSE ran
    /\ UNCHANGED <<job, recs, vers, agreed, tree, sup, booted, edits, faults>>

\* verification.run: the checks, then the copy its gates will run on.
verification_run(j) ==
    LET i == job[j].link
    IN /\ ex[j] = "start" /\ job[j].kind = "verification"
       /\ IF ~LockFree THEN Exit(j, "uncertain", hand) /\ UNCHANGED live
          ELSE IF hand.verification = i /\ _registered_verifier(j) /\ audit_verification(job, hand, vers[i].pred, i)
          THEN /\ Enter(j, "verify") /\ live' = [live EXCEPT ![j] = TRUE]
               /\ hand' = [hand EXCEPT !.phase = "verifying"]
          ELSE Exit(j, "refused", hand) /\ UNCHANGED live
       /\ UNCHANGED <<job, recs, vers, agreed, tree, sup, booted, ran, edits, faults>>

\* The row takes one outcome, from the registered verifier.
_register_outcome(j, outcome) ==
    [vers EXCEPT ![job[j].link].outcome = IF _registered_verifier(j) /\ @ = None THEN outcome ELSE @]
_write_outcome(rows, i) == [rows EXCEPT ![i].file = TRUE]

\* The gates run on a private copy, which is compared with the record before
\* and after each of them.
CopyOf(i) == vers[i].candidate

Interrupt(j, i) ==
    /\ vers' = _write_outcome(_register_outcome(j, "interrupted"), i)
    /\ Exit(j, "interrupted", [hand EXCEPT !.phase = "blocked", !.verification = 0])

\* The gates on the copy end; a complete run is registered before it is
\* written down.
VerifyEnds(j) ==
    LET i == job[j].link
    IN /\ ex[j] = "verify"
       /\ Reaped(j)
       /\ \/ \E outcome \in {"passed", "failed"} :
               /\ AsBound(i) /\ _registered_verifier(j)
               /\ vers' = _register_outcome(j, outcome)
               /\ ran' = IF outcome = "passed" THEN ran \cup {CopyOf(i)} ELSE ran
               /\ Enter(j, "publish") /\ UNCHANGED hand
          \/ Interrupt(j, i) /\ UNCHANGED ran
       /\ UNCHANGED <<job, recs, agreed, tree, sup, booted, edits, faults>>

Publish(j) ==
    LET i == job[j].link
    IN /\ ex[j] = "publish"
       /\ vers' = _write_outcome(vers, i)
       /\ Exit(j, "verified", project_completion(hand, i))
       /\ UNCHANGED <<job, recs, agreed, tree, sup, live, booted, ran, edits, faults>>

-----------------------------------------------------------------------------
(***************************************************************************)
(* Astra's review of the result, under the idle room.                      *)
(***************************************************************************)
Idle == _blocking_jobs(_refresh, 0, 0) = {} /\ agreed

Reviewed(h) ==
    /\ job' = _refresh /\ hand' = h
    /\ UNCHANGED <<recs, vers, agreed, tree, processes, booted, ran, edits, faults>>

room_implementation_review(accepted) ==
    /\ Idle /\ LockFree
    /\ hand.phase = "awaiting_astra_review" /\ AsAuthorized(hand) /\ (accepted => hand.passed)
    /\ Reviewed([hand EXCEPT !.phase = IF accepted THEN "accepted" ELSE "changes_required"])

request_changes ==
    /\ hand.phase \in {"awaiting_astra_review", "changes_required"} /\ AsAuthorized(hand)
    /\ Reviewed([hand EXCEPT !.phase = "correction_pending"])

room_implementation_revise == Idle /\ LockFree /\ request_changes

\* A new revision, or a dialogue that ends the agreement.
room_spec_put ==
    /\ _blocking_jobs(_refresh, 0, 0) = {} /\ agreed
    /\ job' = _refresh /\ agreed' = FALSE
    /\ UNCHANGED <<recs, vers, hand, tree, processes, booted, ran, edits, faults>>

-----------------------------------------------------------------------------
(***************************************************************************)
(* Deaths, and the worktree changed by others.                             *)
(***************************************************************************)
Fault(n) == faults' = faults + n /\ faults' <= MaxFaults

\* The SIGTERM of a cancelling supervisor.
handle_termination(j) ==
    LET i == job[j].link
    IN /\ job[j].cancel /\ sup[j] = "running"
       /\ \/ /\ ex[j] = "start"
             /\ \E kind \in {"uncertain"} \cup IF i # 0 THEN {"refused"} ELSE {} : Exit(j, kind, hand)
             /\ UNCHANGED <<live, vers>>
          \/ ex[j] = "launch" /\ NotLaunched(j) /\ UNCHANGED <<live, vers>>
          \/ \* between the saved attempt and the start of the process
             ex[j] = "launch" /\ Exit(j, IF i # 0 THEN "refused" ELSE "uncertain", hand) /\ UNCHANGED <<live, vers>>
          \/ \* while the process is being created: nothing is known of it
             /\ ex[j] = "launch" /\ Exit(j, "blocked", Blocked(hand, None))
             /\ live' \in {live, [live EXCEPT ![j] = TRUE]} /\ UNCHANGED vers
          \/ /\ ex[j] \in {"child", "gates"} /\ Exit(j, "blocked", Blocked(hand, None))
             /\ Reaped(j) /\ UNCHANGED vers
          \/ ex[j] = "verify" /\ Interrupt(j, i) /\ Reaped(j)
          \/ /\ ex[j] = "publish" /\ Exit(j, "unsettled", hand)
             /\ vers' \in {vers, _write_outcome(vers, i)} /\ UNCHANGED live
       /\ recs' = IF i # 0 /\ job[j].kind = "implementation" /\ live'[j] /\ ~live[j]
                  THEN [recs EXCEPT ![i].launches = @ + 1] ELSE recs
       /\ booted' = (booted /\ ex[j] # "child")
       /\ UNCHANGED <<job, agreed, tree, sup, ran, edits, faults>>

\* Killed: what it started lives on in a session of its own.
ExecutorDies(j) ==
    /\ ex[j] \in Alive /\ Fault(1)
    /\ ex' = [ex EXCEPT ![j] = "dead"]
    /\ vers' \in {vers} \cup IF ex[j] = "publish" THEN {_write_outcome(vers, job[j].link)} ELSE {}
    /\ UNCHANGED <<job, recs, hand, agreed, tree, sup, live, result, booted, ran, edits>>

SupervisorDies(j) ==
    /\ Leased(j) /\ Fault(1)
    /\ sup' = [sup EXCEPT ![j] = "gone"]
    /\ UNCHANGED <<job, recs, vers, hand, agreed, tree, ex, live, result, booted, ran, edits>>

\* A process whose executor is dead ends by itself.
OrphanEnds(j, content) ==
    /\ live[j] /\ ex[j] \notin Alive
    /\ live' = [live EXCEPT ![j] = FALSE]
    /\ tree' = content
    /\ UNCHANGED <<job, recs, vers, hand, agreed, sup, ex, result, booted, ran, edits, faults>>

Reboot ==
    /\ ~booted /\ Fault(1)
    /\ booted' = TRUE
    /\ sup' = [j \in Jobs |-> IF Leased(j) THEN "gone" ELSE sup[j]]
    /\ ex' = [j \in Jobs |-> IF ex[j] \in Alive THEN "dead" ELSE ex[j]]
    /\ live' = [j \in Jobs |-> FALSE]
    /\ UNCHANGED <<job, recs, vers, hand, agreed, tree, result, ran, edits>>

Edit(content) ==
    /\ edits < MaxEdits /\ content # tree
    /\ tree' = content /\ edits' = edits + 1
    /\ UNCHANGED <<job, recs, vers, hand, agreed, processes, booted, ran, faults>>

Next ==
    \/ \E how \in DOMAIN Spawn :
        \/ room_implementation_submit(how)
        \/ \E i \in DOMAIN recs : SubmitRecovery(i, how)
        \/ \E j \in DOMAIN job : room_verification_retry(j, how)
    \/ \E j \in DOMAIN job, crash \in BOOLEAN :
        room_implementation_recover(j, crash) \/ worker_finish(j, crash)
    \/ \E j \in DOMAIN job :
        \/ worker_start(j) \/ room_job_cancel(j)
        \/ run_implementation(j) \/ LaunchModel(j) \/ ModelSpawnError(j) \/ GatesEnd(j)
        \/ verification_run(j) \/ VerifyEnds(j) \/ Publish(j)
        \/ handle_termination(j) \/ ExecutorDies(j) \/ SupervisorDies(j)
    \/ \E j \in DOMAIN job, content \in Trees : ModelEnds(j, content) \/ OrphanEnds(j, content)
    \/ \E content \in Trees : Edit(content)
    \/ \E accepted \in BOOLEAN : room_implementation_review(accepted)
    \/ room_implementation_revise \/ room_spec_put \/ Reboot

Spec == Init /\ [][Next]_vars

-----------------------------------------------------------------------------
TypeOK ==
    /\ Len(job) <= MaxJobs /\ tree \in Trees /\ ran \subseteq Trees
    /\ {agreed, booted} \subseteq BOOLEAN /\ edits \in 0 .. MaxEdits /\ faults \in 0 .. MaxFaults
    /\ live \in [Jobs -> BOOLEAN]

\* An idle room, whose worktree may be reviewed, corrected or handed to a new
\* model turn, has neither an executor at work nor a model or gate left by
\* one: the death of a supervisor, of its executor or of both never looks like
\* an end.  (An executor orphaned before it took the lock may still be there;
\* the row it would run under is no longer its own.)
QuietWhenIdle ==
    _blocking_jobs(_refresh, 0, 0) = {} => \A j \in Jobs : ~live[j] /\ ex[j] \notin Locked

\* A recovery authorizes one launch.  The registry says consumed only of one
\* that launched, and invalidated, after which another may be prepared, only
\* of one that never did.
LaunchTruthful ==
    \A i \in DOMAIN recs :
        /\ recs[i].launches <= 1
        /\ recs[i].status = "consumed" => recs[i].launches = 1
        /\ recs[i].status \in {"invalidated", "unregistered", "prepared"} => recs[i].launches = 0

\* Every gate passed on the content that was accepted, also when the gates
\* were retried on a copy and the retry was settled after a death.
AcceptedVerified == hand.phase = "accepted" => hand.candidate \in ran

=============================================================================
