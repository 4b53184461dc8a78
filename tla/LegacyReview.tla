---------------------------- MODULE LegacyReview ----------------------------
(***************************************************************************)
(* Specification review of the legacy controller: the review engine        *)
(* (room.py) under the controller's review jobs (project_room.py).         *)
(*                                                                         *)
(* Two databases say what became of a review: the registry has the job and *)
(* the issues made of its findings, the engine has the turn.  A supervisor *)
(* owns the job, its executor asks under the engine's lock, and the model  *)
(* process the executor starts is a session leader that outlives it.       *)
(* Controller operations hold the room lock and refuse while a job is      *)
(* active or uncertain, so only the last job can have processes.           *)
(*                                                                         *)
(* Left out: altered evidence, a changed configuration, the engine's ask,  *)
(* spec and decision commands when used past the controller, messages that *)
(* approve nothing, several findings of one review, implementation jobs    *)
(* (LegacyJobs) and the startup grace of a job without an owner.           *)
(***************************************************************************)
EXTENDS Naturals, Sequences, FiniteSets, FiniteSetsExt

CONSTANTS MAX_REVIEW_TURNS,
          MaxRev,     \* bound: spec revisions
          MaxJobs,    \* bound: review jobs
          MaxFaults,  \* bound: deaths of a process, failed spawns, cancellations
          None

Jobs == 1 .. MaxJobs

VARIABLES
    rev,        \* engine: the current spec revision
    approved,   \* engine: revisions with Astra's approval
    turns,      \* engine: the turns, oldest first
    watermark,  \* engine: the last turn before the latest user decision
    started,    \* engine: session_started
    job,        \* registry: the review jobs
    issue,      \* registry: the issue made of a job's finding
    handoffs,   \* revisions handed off
    sup, ex,    \* supervisor and executor of the last job
    claude,     \* the model process it started is alive
    session,    \* the client has written the session's file
    faults

engine == <<rev, approved, turns, watermark, started>>
processes == <<sup, ex, claude>>
vars == <<engine, job, issue, handoffs, processes, session, faults>>

ACTIVE == {"queued", "running"}
Replies == {"accept", "changes_required"}

Init ==
    /\ rev = 1 /\ approved = {} /\ turns = <<>> /\ watermark = 0 /\ started = FALSE
    /\ job = <<>> /\ issue = [j \in Jobs |-> None] /\ handoffs = {}
    /\ sup = "gone" /\ ex = "gone" /\ claude = FALSE
    /\ session = FALSE /\ faults = 0

-----------------------------------------------------------------------------
Fault(p) == faults' = faults + (IF p THEN 1 ELSE 0) /\ faults' <= MaxFaults

\* A free lease proves that the supervisor is gone; what it ran may not be.
_refresh ==
    [j \in DOMAIN job |-> IF job[j].status \in ACTIVE /\ sup = "gone"
                          THEN [job[j] EXCEPT !.status = "uncertain"] ELSE job[j]]

\* _guard_idle, under the room lock.
Idle ==
    /\ \A j \in DOMAIN job : _refresh[j].status \notin ACTIVE \cup {"uncertain"}
    /\ UNCHANGED <<processes, session, faults>>

Unresolved == {t \in DOMAIN turns : turns[t].status \notin {"completed", "not_sent"}}

used == Cardinality({t \in DOMAIN turns : t > watermark /\ turns[t].status # "not_sent"})
user_decision_required == used >= MAX_REVIEW_TURNS

\* Mutated form: the latest review, of whatever revision.
agreement_of_any_revision ==
    LET reviews == {t \in DOMAIN turns : turns[t].status # "not_sent"}
    IN /\ rev \in approved
       /\ reviews # {} /\ turns[Max(reviews)].status = "completed" /\ turns[Max(reviews)].out = "accept"
       /\ Unresolved = {}

\* status_report: approval and the latest review, of the exact revision.
agreement ==
    LET reviews == {t \in DOMAIN turns : turns[t].rev = rev /\ turns[t].status # "not_sent"}
    IN /\ rev \in approved
       /\ reviews # {} /\ turns[Max(reviews)].status = "completed" /\ turns[Max(reviews)].out = "accept"
       /\ Unresolved = {}

-----------------------------------------------------------------------------
(***************************************************************************)
(* The controller's operations.                                            *)
(***************************************************************************)
room_spec_put ==
    /\ Idle
    /\ rev < MaxRev /\ rev' = rev + 1
    /\ UNCHANGED <<approved, turns, watermark, started, job, issue, handoffs>>

room_record ==
    /\ Idle
    /\ approved' = approved \cup {rev}
    /\ UNCHANGED <<rev, turns, watermark, started, job, issue, handoffs>>

room_issue_dispose(j) ==
    /\ Idle
    /\ issue[j] = "open" /\ issue' = [issue EXCEPT ![j] = "disposed"]
    /\ UNCHANGED <<engine, job, handoffs>>

room_decision_record ==
    /\ Idle
    /\ Unresolved = {} /\ user_decision_required
    /\ watermark' = Len(turns)
    /\ UNCHANGED <<rev, approved, turns, started, job, issue, handoffs>>

room_handoff ==
    /\ Idle
    /\ \A j \in Jobs : issue[j] # "open"
    /\ agreement
    /\ handoffs' = handoffs \cup {rev}
    /\ UNCHANGED <<engine, job, issue>>

\* The worker inherits the lease, does not start, or the service dies first.
room_review_submit(how) ==
    /\ \A j \in DOMAIN job : _refresh[j].status \notin ACTIVE \cup {"uncertain"}
    /\ Unresolved = {} /\ ~user_decision_required
    /\ Len(job) < MaxJobs
    /\ job' = Append(job, [rev |-> rev, cancel |-> FALSE,
                           status |-> IF how = "failed" THEN "failed" ELSE "queued"])
    /\ sup' = IF how = "ok" THEN "spawned" ELSE "gone"
    /\ Fault(how # "ok")
    /\ UNCHANGED <<engine, issue, handoffs, ex, claude, session>>

TurnOf(j) == {t \in DOMAIN turns : turns[t].job = j}

\* Mutated form: every failure of a turn counts as one before delivery.
recover_not_sent_any(t) == turns[t].status = "failed"

\* The exact result of a client that was not logged in.
recover_not_sent(t) == turns[t].status = "failed" /\ turns[t].out = "auth"

\* A session file that is there is resumed by the next turn.  The engine
\* commits before the registry; the service may die in between.
room_job_recover(j, crash) ==
    /\ \A k \in DOMAIN job : _refresh[k].status \notin ACTIVE \cup {"uncertain"}
    /\ job[j].status = "failed"
    /\ \E t \in TurnOf(j) :
          recover_not_sent(t) /\ turns' = [turns EXCEPT ![t].status = "not_sent"]
    /\ started' = (started \/ session)
    /\ job' = IF crash THEN job ELSE [job EXCEPT ![j].status = "not_sent"]
    /\ Fault(crash)
    /\ UNCHANGED <<rev, approved, watermark, issue, handoffs, processes, session>>

\* Without a lock, on any active job.
room_job_cancel(j) ==
    /\ job[j].status \in ACTIVE /\ ~job[j].cancel
    /\ job' = [job EXCEPT ![j].cancel = TRUE]
    /\ Fault(TRUE)
    /\ UNCHANGED <<engine, issue, handoffs, processes, session>>

Refresh == job # _refresh /\ job' = _refresh
           /\ UNCHANGED <<engine, issue, handoffs, processes, session, faults>>

-----------------------------------------------------------------------------
(***************************************************************************)
(* The supervisor of the last job and its executor.                        *)
(***************************************************************************)
Last == Len(job)
Turn == Len(turns)
Reached(status, out) == turns' = [turns EXCEPT ![Turn].status = status, ![Turn].out = out]

\* The last transaction: the job's outcome with the issue of its finding.
Finish(status) ==
    LET final == IF job[Last].cancel /\ status \notin {"succeeded", "cancelled"} THEN "uncertain" ELSE status
    IN /\ job' = [job EXCEPT ![Last].status = final]
       /\ issue' = IF final = "succeeded" /\ turns[Turn].finding
                   THEN [issue EXCEPT ![Last] = "open"] ELSE issue
       /\ sup' = "gone"

worker_start ==
    /\ sup = "spawned"
    /\ IF job[Last].cancel
       THEN Finish("cancelled") /\ UNCHANGED ex
       ELSE /\ job' = [job EXCEPT ![Last].status = "running"]
            /\ sup' = "running" /\ ex' = "start"
            /\ UNCHANGED issue
    /\ UNCHANGED <<engine, handoffs, claude, session, faults>>

\* ask, under the engine's lock, up to the committed pending turn.
ask ==
    /\ ex = "start"
    /\ turns' = Append([t \in DOMAIN turns |->
                          IF turns[t].status = "pending" THEN [turns[t] EXCEPT !.status = "uncertain"] ELSE turns[t]],
                       [job |-> Last, rev |-> rev, status |-> "pending", out |-> None,
                        reply |-> None, finding |-> FALSE, delivered |-> FALSE])
    /\ ex' = "ask"
    /\ UNCHANGED <<rev, approved, watermark, started, job, issue, handoffs, sup, claude, session, faults>>

\* The model process starts, or cannot be started.
Popen ==
    /\ ex = "ask"
    /\ \/ claude' = TRUE /\ ex' = "child" /\ UNCHANGED turns
       \/ claude' = FALSE /\ ex' = "exit" /\ Reached("failed", None)
    /\ UNCHANGED <<rev, approved, watermark, started, job, issue, handoffs, sup, session, faults>>

\* A new session under an identity the client knows already is refused by it.
Refused == session /\ ~started

\* What the executor makes of the output: verify_result.  A reply counts when
\* the primary model is shown to have produced it.
Outcome ==
    /\ ex = "child" /\ claude
    /\ claude' = FALSE
    /\ \/ \* a reply, verified
          /\ turns[Turn].reply # None
          /\ Reached("completed", turns[Turn].reply)
          /\ started' = TRUE /\ ex' = "exit" /\ UNCHANGED session
       \/ \* a reply whose producer is not shown
          /\ turns[Turn].reply # None
          /\ Reached("failed", turns[Turn].reply)
          /\ ex' = "saved" /\ UNCHANGED <<started, session>>
       \/ \* not logged in
          /\ ~turns[Turn].delivered /\ ~Refused
          /\ Reached("failed", "auth") /\ session' \in {session, TRUE}
          /\ ex' = "exit" /\ UNCHANGED started
       \/ \* another failure of the client
          /\ Reached("failed", None) /\ ex' = "exit" /\ UNCHANGED <<started, session>>
       \/ \* no readable result, a timeout, an interruption: it may have advanced
          /\ Reached("uncertain", None) /\ ex' = "exit" /\ UNCHANGED <<started, session>>
    /\ UNCHANGED <<rev, approved, watermark, job, issue, handoffs, sup, faults>>

Reconciled(t) ==
    /\ turns' = [turns EXCEPT ![t].status = "completed"]
    /\ started' = TRUE

\* execute_job looks for the session's transcript once more.
Reconcile ==
    /\ ex = "saved" /\ ex' = "exit"
    /\ \/ Reconciled(Turn)
       \/ UNCHANGED <<turns, started>>
    /\ UNCHANGED <<rev, approved, watermark, job, issue, handoffs, sup, claude, session, faults>>

\* The executor's exit code and output; it can be killed when all is printed.
Phase == CASE turns[Turn].status = "completed" -> "succeeded"
           [] turns[Turn].status = "failed" -> "failed"
           [] OTHER -> "uncertain"

worker_finish ==
    /\ sup = "running" /\ ex \in {"exit", "dead"}
    /\ \E killed \in BOOLEAN :
          /\ Fault(killed)
          /\ killed => ex = "exit" /\ turns[Turn].status = "completed"
          /\ Finish(IF ex = "dead" THEN "uncertain" ELSE IF killed THEN "failed" ELSE Phase)
    /\ ex' = "gone"
    /\ UNCHANGED <<engine, handoffs, claude, session>>

\* SIGTERM to the executor: the engine handles it while it waits for the model.
Cancel ==
    /\ sup = "running" /\ job[Last].cancel
    /\ IF ex = "child"
       THEN /\ Reached("uncertain", None)
            /\ claude' = FALSE /\ ex' = "exit"
       ELSE /\ ex \in {"start", "ask", "saved"} /\ ex' = "dead"
            /\ UNCHANGED <<turns, claude>>
    /\ UNCHANGED <<rev, approved, watermark, started, job, issue, handoffs, sup, session, faults>>

-----------------------------------------------------------------------------
(***************************************************************************)
(* The operator, the model and the deaths of processes.                    *)
(***************************************************************************)
\* room.py reconcile: a reply that only lacks its producer, with the transcript.
reconcile(t) ==
    /\ ex \notin {"ask", "child"}
    /\ turns[t].status = "failed" /\ turns[t].out \in Replies
    /\ Reconciled(t)
    /\ UNCHANGED <<rev, approved, watermark, job, issue, handoffs, processes, session, faults>>

\* The model gets the prompt and answers, or does not; what objects has a finding.
Claude ==
    /\ claude /\ ~Refused
    /\ ~turns[Turn].delivered /\ session' = TRUE
    /\ \E reply \in Replies \cup {None}, finding \in BOOLEAN :
          /\ reply = "changes_required" => finding
          /\ reply = None => ~finding
          /\ turns' = [turns EXCEPT ![Turn].delivered = TRUE, ![Turn].reply = reply,
                                    ![Turn].finding = finding]
    /\ UNCHANGED <<rev, approved, watermark, started, job, issue, handoffs, processes, faults>>

Deaths ==
    /\ Fault(TRUE)
    /\ \/ sup # "gone" /\ sup' = "gone" /\ UNCHANGED <<ex, claude>>
       \/ ex \in {"start", "ask", "child", "saved", "exit"} /\ ex' = "dead" /\ UNCHANGED <<sup, claude>>
    /\ UNCHANGED <<engine, job, issue, handoffs, session>>

\* Nobody waits for it any more.
Orphan ==
    /\ claude /\ ex # "child" /\ claude' = FALSE
    /\ UNCHANGED <<engine, job, issue, handoffs, sup, ex, session, faults>>

Controller ==
    \/ room_spec_put \/ room_record \/ room_decision_record \/ room_handoff \/ Refresh
    \/ \E how \in {"ok", "failed", "crash"} : room_review_submit(how)
    \/ \E j \in DOMAIN job : room_issue_dispose(j) \/ room_job_cancel(j)
    \/ \E j \in DOMAIN job, crash \in BOOLEAN : room_job_recover(j, crash)

Next ==
    \/ Controller
    \/ worker_start \/ ask \/ Popen \/ Outcome \/ Reconcile \/ worker_finish \/ Cancel
    \/ \E t \in DOMAIN turns : reconcile(t)
    \/ Claude \/ Deaths \/ Orphan

Spec == Init /\ [][Next]_vars

-----------------------------------------------------------------------------
\* A round's reviews are those the model was really given: what is not counted
\* never reached it, so recovering turns, lost answers and deaths never buy a
\* fourth review without a decision of the user (review_budget).
ReviewsBounded ==
    Cardinality({t \in DOMAIN turns : t > watermark /\ turns[t].delivered}) <= MAX_REVIEW_TURNS

\* A revision is handed off only when the last thing the reviewer said about
\* it, recorded or lost, was to accept it (room_handoff, status_report).
HandoffFollowsReply ==
    [][\A r \in handoffs' \ handoffs :
          LET given == {t \in DOMAIN turns : turns[t].rev = r /\ turns[t].delivered}
          IN r = rev /\ given # {} /\ turns[Max(given)].reply = "accept"]_vars

=============================================================================
