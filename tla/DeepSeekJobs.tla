---------------------------- MODULE DeepSeekJobs ----------------------------
(***************************************************************************)
(* The paid jobs of the DeepSeek delegate: admission in one transaction of *)
(* the ledger, the job lease that a detached worker inherits, the one      *)
(* request it sends, the publication of the answer, the relabelling of a   *)
(* job whose worker vanished, cancellation, and the user's resolution of   *)
(* an ambiguous outcome.                                                   *)
(*                                                                         *)
(* A step ends where another process or a death can come between: at a     *)
(* commit of the ledger, a byte on the wire, a file.  Each submission and  *)
(* each worker may die at any step.  The provider is the environment.      *)
(***************************************************************************)
EXTENDS Naturals, FiniteSets, FiniteSetsExt

CONSTANTS max_jobs,                  \* the ledger's rows: job ids are 1..max_jobs
          Rooms,
          Payloads,                  \* what a room asks for
          max_concurrent_per_room, max_concurrent_per_host,
          max_retained_bytes,        \* in units of one file, see Files
          None,
          MaxDeaths                  \* bound: submissions and workers that die

Jobs == 1..max_jobs

ASSUME LimitsAssumption ==
    {max_jobs, max_concurrent_per_room, max_concurrent_per_host, max_retained_bytes,
     MaxDeaths} \subseteq Nat

VARIABLES
    jobs,         \* ledger: the row of each job, or None
    resolutions,  \* ledger: the jobs the user has resolved
    sub,          \* the submission of each job: "none", "store", "spawn", "over"
    work,         \* its worker: where it is, the outcome it will record, its export
    files,        \* the large files the job has on disk
    cancel,       \* cancel.json is in the job's directory
    remote,       \* what happened to its request beyond this host
    deaths        \* how many processes died (bounded)

vars == <<jobs, resolutions, sub, work, files, cancel, remote, deaths>>

-----------------------------------------------------------------------------
NOT_STARTED == "not_started"
QUEUED == "queued"
SUBMITTING == "submitting"
STREAMING == "streaming"
COMPLETED == "completed"
TRUNCATED == "truncated"
REJECTED == "rejected_before_generation"
FAILED_AFTER_SEND == "failed_after_send"
ABANDONED_DEADLINE == "abandoned_local_deadline"
ABANDONED_CANCELLED == "abandoned_cancelled"
UNKNOWN == "unknown_delivery"

ACTIVE_STATES == {QUEUED, SUBMITTING, STREAMING}
STOP_STATES == {UNKNOWN, FAILED_AFTER_SEND}
TERMINAL_STATES == {NOT_STARTED, COMPLETED, TRUNCATED, REJECTED, ABANDONED_DEADLINE,
                    ABANDONED_CANCELLED} \cup STOP_STATES
\* Outcomes that say nothing was billed.
UNBILLED == {NOT_STARTED, REJECTED}

\* "text" is the admitted request, "content" the private answer (with the
\* reasoning), "export" its second name in the export directory.  The names
\* content and export share an inode.  The reservation covers text and answer.
Files == {"text", "content", "export"}
reservation_bytes == 2

Worker(at, outcome, path) == [at |-> at, outcome |-> outcome, path |-> path]
Idle == Worker("none", None, FALSE)
Gone == Worker("gone", None, FALSE)

Init ==
    /\ jobs = [j \in Jobs |-> None]
    /\ resolutions = {}
    /\ sub = [j \in Jobs |-> "none"]
    /\ work = [j \in Jobs |-> Idle]
    /\ files = [j \in Jobs |-> {}]
    /\ cancel = [j \in Jobs |-> FALSE]
    /\ remote = [j \in Jobs |-> "unsent"]
    /\ deaths = 0

Rows == {j \in Jobs : jobs[j] # None}
active == {j \in Rows : jobs[j].state \in ACTIVE_STATES}

\* Somebody holds the job's lease: the submission until it has spawned the
\* worker, and the worker, which inherits the open file, until it is gone.
leased(j) == sub[j] \in {"store", "spawn"} \/ work[j].at \notin {"none", "gone"}

-----------------------------------------------------------------------------
(***************************************************************************)
(* _refresh: an active job whose lease is free is relabelled from its      *)
(* durable state.  Jobs inside the startup grace are not looked at, so any *)
(* part of the vanished jobs is relabelled by one call.                    *)
(***************************************************************************)
_retained(j) == Cardinality(files[j] \cap {"text", "content"})
_export_bytes(j) == Cardinality(files[j] \cap {"export"})

\* What a relabelled job is charged.
Evidence(j) == _retained(j) + _export_bytes(j)

Closed(row, state, bytes, path) ==
    [row EXCEPT !.state = state, !.billed = state \notin UNBILLED,
                !.reserved = 0, !.retained = bytes, !.path = path]

\* Mutated form: only jobs that were never sent are relabelled.
Vanished_queued == {j \in active : ~leased(j) /\ jobs[j].state = QUEUED}

Vanished == {j \in active : ~leased(j)}

\* Mutated form: a request is taken to be unsent until its answer streams.
Label_unsent_until_streaming(j) == IF jobs[j].state = STREAMING THEN UNKNOWN ELSE NOT_STARTED

Label(j) == IF jobs[j].state = QUEUED THEN NOT_STARTED ELSE UNKNOWN

Relabelled(S) ==
    [j \in Jobs |-> IF j \in S THEN Closed(jobs[j], Label(j), Evidence(j), FALSE) ELSE jobs[j]]

\* deepseek_status, deepseek_health, a duplicate or refused submission.
Refresh ==
    \E S \in SUBSET Vanished :
        /\ S # {}
        /\ jobs' = Relabelled(S)
        /\ UNCHANGED <<resolutions, sub, work, files, cancel, remote, deaths>>

-----------------------------------------------------------------------------
(***************************************************************************)
(* Admission.  led is the ledger the transaction reads.                    *)
(***************************************************************************)
In(led, room) == {j \in Jobs : led[j] # None /\ led[j].room = room}
Running(led) == {j \in Jobs : led[j] # None /\ led[j].state \in ACTIVE_STATES}
Count(led) == Cardinality({j \in Jobs : led[j] # None})

Charged(led) ==
    MapThenSumSet(LAMBDA j : led[j].reserved + led[j].retained, {j \in Jobs : led[j] # None})

\* Mutated form: the user's resolution lifts the deduplication too.
Repeatable_once_resolved(led, j, diagnosis) ==
    \/ led[j].state = NOT_STARTED
    \/ led[j].state = REJECTED /\ diagnosis
    \/ j \in resolutions

\* An identical request may be asked again after one that was proven unsent,
\* and with a diagnosis after one that was rejected.
Repeatable(led, j, diagnosis) ==
    \/ led[j].state = NOT_STARTED
    \/ led[j].state = REJECTED /\ diagnosis

Admitted(led, room, payload, diagnosis) ==
    /\ \A j \in In(led, room) :
          /\ led[j].state \in STOP_STATES => j \in resolutions
          /\ led[j].payload = payload => Repeatable(led, j, diagnosis)
    /\ Cardinality(Running(led) \cap In(led, room)) < max_concurrent_per_room
    /\ Cardinality(Running(led)) < max_concurrent_per_host
    /\ Count(led) < max_jobs
    /\ Charged(led) + reservation_bytes <= max_retained_bytes

Queued(room, payload) ==
    [room |-> room, payload |-> payload, state |-> QUEUED,
     billed |-> FALSE, reserved |-> reservation_bytes, retained |-> 0, path |-> FALSE]

\* A submission under a request id that the room has not used (one it has used
\* returns its job, see Refresh).  The row is committed with the lease held.
Submit(room, payload, diagnosis) ==
    \E S \in SUBSET Vanished :
        LET led == Relabelled(S)
            j == Count(led) + 1
        IN  /\ Admitted(led, room, payload, diagnosis)
            /\ jobs' = [led EXCEPT ![j] = Queued(room, payload)]
            /\ sub' = [sub EXCEPT ![j] = "store"]
            /\ UNCHANGED <<resolutions, work, files, cancel, remote, deaths>>

\* request-text and request.json.
StoreRequest(j) ==
    /\ sub[j] = "store"
    /\ files' = [files EXCEPT ![j] = @ \cup {"text"}]
    /\ sub' = [sub EXCEPT ![j] = "spawn"]
    /\ UNCHANGED <<jobs, resolutions, work, cancel, remote, deaths>>

_spawn_worker(j) ==
    /\ sub[j] = "spawn"
    /\ work' = [work EXCEPT ![j].at = "start"]
    /\ sub' = [sub EXCEPT ![j] = "over"]
    /\ UNCHANGED <<jobs, resolutions, files, cancel, remote, deaths>>

\* request_write_failed (with or without a file left), spawn_failed.
SubmitFails(j) ==
    /\ sub[j] \in {"store", "spawn"}
    /\ \E left \in SUBSET {"text"} :
          /\ sub[j] = "spawn" => left = {}
          /\ files' = [files EXCEPT ![j] = @ \cup left]
    /\ jobs' = IF jobs[j].state = QUEUED
               THEN [jobs EXCEPT ![j] = Closed(@, NOT_STARTED, Cardinality(files'[j]), FALSE)]
               ELSE jobs
    /\ sub' = [sub EXCEPT ![j] = "over"]
    /\ UNCHANGED <<resolutions, work, cancel, remote, deaths>>

-----------------------------------------------------------------------------
(***************************************************************************)
(* run_worker and execute_request.                                         *)
(***************************************************************************)
Ends(j, outcome) == work' = [work EXCEPT ![j] = Worker("finish", outcome, FALSE)]

\* Cancelled, changed inventory, unreadable request, no usable key.
Unsent(j) ==
    /\ work[j].at = "start"
    /\ jobs[j].state = QUEUED
    /\ Ends(j, NOT_STARTED)
    /\ UNCHANGED <<jobs, resolutions, sub, files, cancel, remote, deaths>>

\* submitting is durable before any byte can be sent; a worker whose job was
\* relabelled sends nothing.
CommitSubmitting(j) ==
    /\ work[j].at = "start"
    /\ ~cancel[j]
    /\ IF jobs[j].state = QUEUED
       THEN /\ jobs' = [jobs EXCEPT ![j].state = SUBMITTING, ![j].billed = TRUE]
            /\ work' = [work EXCEPT ![j].at = "connect"]
       ELSE /\ work' = [work EXCEPT ![j] = Gone]
            /\ UNCHANGED jobs
    /\ UNCHANGED <<resolutions, sub, files, cancel, remote, deaths>>

\* _unsent_reason, the connection, and _unsent_reason again.
Connect(j) ==
    /\ work[j].at = "connect"
    /\ ~cancel[j]
    /\ work' = [work EXCEPT ![j].at = "send"]
    /\ UNCHANGED <<jobs, resolutions, sub, files, cancel, remote, deaths>>

ConnectFails(j) ==
    /\ work[j].at = "connect"
    /\ Ends(j, NOT_STARTED)
    /\ UNCHANGED <<jobs, resolutions, sub, files, cancel, remote, deaths>>

Send(j) ==
    /\ work[j].at = "send"
    /\ remote' = [remote EXCEPT ![j] = "sent"]
    /\ work' = [work EXCEPT ![j].at = "await"]
    /\ UNCHANGED <<jobs, resolutions, sub, files, cancel, deaths>>

\* transport_send_failed: the bytes may have left or not.
SendFails(j) ==
    /\ work[j].at = "send"
    /\ \E r \in {"unsent", "sent"} : remote' = [remote EXCEPT ![j] = r]
    /\ Ends(j, UNKNOWN)
    /\ UNCHANGED <<jobs, resolutions, sub, files, cancel, deaths>>

\* No response; one that proves nothing; a validated rejection.
NoStream(j) ==
    /\ work[j].at = "await"
    /\ \/ Ends(j, UNKNOWN)
       \/ Ends(j, FAILED_AFTER_SEND)
       \/ remote[j] = "refused" /\ Ends(j, REJECTED)
    /\ UNCHANGED <<jobs, resolutions, sub, files, cancel, remote, deaths>>

\* on_response, and the files the stream is written to.
Respond(j) ==
    /\ work[j].at = "await"
    /\ remote[j] = "generated"
    /\ jobs' = IF jobs[j].state = SUBMITTING THEN [jobs EXCEPT ![j].state = STREAMING] ELSE jobs
    /\ files' = [files EXCEPT ![j] = @ \cup {"content"}]
    /\ work' = [work EXCEPT ![j].at = "stream"]
    /\ UNCHANGED <<resolutions, sub, cancel, remote, deaths>>

\* _consume: a cancellation is seen between reads, if the answer is not complete first.
Consume(j) ==
    /\ work[j].at = "stream"
    /\ \/ \E outcome \in {FAILED_AFTER_SEND, ABANDONED_DEADLINE, TRUNCATED} : Ends(j, outcome)
       \/ cancel[j] /\ Ends(j, ABANDONED_CANCELLED)
       \/ work' = [work EXCEPT ![j] = Worker("publish", COMPLETED, FALSE)]
    /\ UNCHANGED <<jobs, resolutions, sub, files, cancel, remote, deaths>>

-----------------------------------------------------------------------------
(***************************************************************************)
(* _publish: a second name for the content, made durable before the private *)
(* name goes away.                                                         *)
(***************************************************************************)
\* Mutated form: the content is moved into the export directory.
Link_by_rename(j) ==
    /\ work[j].at = "publish"
    /\ files' = [files EXCEPT ![j] = (@ \ {"content"}) \cup {"export"}]
    /\ work' = [work EXCEPT ![j].at = "linked"]
    /\ UNCHANGED <<jobs, resolutions, sub, cancel, remote, deaths>>

Link(j) ==
    /\ work[j].at = "publish"
    /\ files' = [files EXCEPT ![j] = @ \cup {"export"}]
    /\ work' = [work EXCEPT ![j].at = "linked"]
    /\ UNCHANGED <<jobs, resolutions, sub, cancel, remote, deaths>>

\* export_dir_missing, export_dir_unsafe, export_conflict, export_unavailable.
NoExport(j) ==
    /\ work[j].at = "publish"
    /\ Ends(j, work[j].outcome)
    /\ UNCHANGED <<jobs, resolutions, sub, files, cancel, remote, deaths>>

\* The directory is synced; the private name is removed if it can be.
Durable(j) ==
    /\ work[j].at = "linked"
    /\ \E private \in SUBSET {"content"} : files' = [files EXCEPT ![j] = @ \ private]
    /\ work' = [work EXCEPT ![j] = Worker("finish", @.outcome, TRUE)]
    /\ UNCHANGED <<jobs, resolutions, sub, cancel, remote, deaths>>

\* The mode or the sync failed; the export name is removed if it can be.
_rollback_export(j) ==
    /\ work[j].at = "linked"
    /\ \E export \in SUBSET {"export"} : files' = [files EXCEPT ![j] = @ \ export]
    /\ Ends(j, work[j].outcome)
    /\ UNCHANGED <<jobs, resolutions, sub, cancel, remote, deaths>>

\* The terminal commit, whatever the row says, and the end of the worker.
_finish(j) ==
    /\ work[j].at = "finish"
    /\ LET bytes == _retained(j) + IF work[j].path THEN _export_bytes(j) ELSE 0
       IN  jobs' = [jobs EXCEPT ![j] = Closed(@, work[j].outcome, bytes, work[j].path)]
    /\ work' = [work EXCEPT ![j] = Gone]
    /\ UNCHANGED <<resolutions, sub, files, cancel, remote, deaths>>

-----------------------------------------------------------------------------
(***************************************************************************)
(* The room, the user, the provider, and deaths.                           *)
(***************************************************************************)
\* deepseek_cancel of a job that is still active when it is looked at.
Cancel(j) ==
    /\ j \in active
    /\ ~cancel[j]
    /\ cancel' = [cancel EXCEPT ![j] = TRUE]
    /\ UNCHANGED <<jobs, resolutions, sub, work, files, remote, deaths>>

resolve_job(j) ==
    /\ j \in Rows
    /\ jobs[j].state \in STOP_STATES
    /\ j \notin resolutions
    /\ resolutions' = resolutions \cup {j}
    /\ UNCHANGED <<jobs, sub, work, files, cancel, remote, deaths>>

\* The provider refuses the request before generation or generates (and bills).
\* Only what a worker can still see is a step; a request left at "sent" may be
\* generated and billed at any later time.
Provide(j) ==
    /\ remote[j] = "sent"
    /\ work[j].at = "await"
    /\ \E r \in {"refused", "generated"} : remote' = [remote EXCEPT ![j] = r]
    /\ UNCHANGED <<jobs, resolutions, sub, work, files, cancel, deaths>>

SubmissionDies(j) ==
    /\ sub[j] \in {"store", "spawn"}
    /\ deaths < MaxDeaths
    /\ deaths' = deaths + 1
    /\ sub' = [sub EXCEPT ![j] = "over"]
    /\ UNCHANGED <<jobs, resolutions, work, files, cancel, remote>>

WorkerDies(j) ==
    /\ work[j].at \notin {"none", "gone"}
    /\ deaths < MaxDeaths
    /\ deaths' = deaths + 1
    /\ work' = [work EXCEPT ![j] = Gone]
    /\ UNCHANGED <<jobs, resolutions, sub, files, cancel, remote>>

Submission(j) == StoreRequest(j) \/ _spawn_worker(j) \/ SubmitFails(j)

run_worker(j) ==
    \/ Unsent(j) \/ CommitSubmitting(j)
    \/ Connect(j) \/ ConnectFails(j) \/ Send(j) \/ SendFails(j)
    \/ NoStream(j) \/ Respond(j) \/ Consume(j)
    \/ Link(j) \/ NoExport(j) \/ Durable(j) \/ _rollback_export(j) \/ _finish(j)

Next ==
    \/ \E room \in Rooms, payload \in Payloads, diagnosis \in BOOLEAN :
          Submit(room, payload, diagnosis)
    \/ Refresh
    \/ \E j \in Jobs : Submission(j)
    \/ \E j \in Jobs : run_worker(j)
    \/ \E j \in Jobs : Cancel(j) \/ resolve_job(j) \/ Provide(j)
    \/ \E j \in Jobs : SubmissionDies(j) \/ WorkerDies(j)

Spec == Init /\ [][Next]_vars

\* A submission and a worker go on while they live (every wait on the socket is
\* bounded by the deadline), and somebody keeps asking for the status.
Fairness ==
    /\ WF_vars(\E j \in Jobs : Submission(j))
    /\ WF_vars(\E j \in Jobs : run_worker(j))
    /\ WF_vars(Refresh)

FairSpec == Spec /\ Fairness

-----------------------------------------------------------------------------
Row == [room : Rooms, payload : Payloads,
        state : ACTIVE_STATES \cup TERMINAL_STATES, billed : BOOLEAN,
        reserved : Nat, retained : Nat, path : BOOLEAN]
Steps == {"none", "start", "connect", "send", "await", "stream", "publish", "linked",
          "finish", "gone"}

ASSUME NoneAssumption == None \notin Row /\ None \notin TERMINAL_STATES

\* Every variable keeps its shape, and a worker that is about to record an
\* outcome has one (run_worker, _finish).
TypeOK ==
    /\ jobs \in [Jobs -> Row \cup {None}]
    /\ resolutions \subseteq Jobs
    /\ sub \in [Jobs -> {"none", "store", "spawn", "over"}]
    /\ work \in [Jobs -> [at : Steps, outcome : TERMINAL_STATES \cup {None}, path : BOOLEAN]]
    /\ \A j \in Jobs : work[j].at = "finish" => work[j].outcome # None
    /\ files \in [Jobs -> SUBSET Files]
    /\ cancel \in [Jobs -> BOOLEAN]
    /\ remote \in [Jobs -> {"unsent", "sent", "refused", "generated"}]
    /\ deaths \in 0..MaxDeaths

\* What is recorded as unbilled was never generated and never will be: a job
\* labelled not_started was not sent, whoever labelled it (the submission that
\* failed, the worker, a status call that found the lease free), and a rejected
\* one was refused.
BillingTruthful ==
    \A j \in Rows : jobs[j].state \in UNBILLED =>
        /\ ~jobs[j].billed
        /\ remote[j] = IF jobs[j].state = NOT_STARTED THEN "unsent" ELSE "refused"

\* A room never pays twice for identical content: of the requests with one
\* payload at most one is with the provider or was generated, through retries,
\* deaths, relabelling, resolutions and new request ids (submit, _refresh).
PaidOnce ==
    \A j, k \in Rows :
        /\ jobs[j].room = jobs[k].room
        /\ jobs[j].payload = jobs[k].payload
        /\ remote[j] \in {"sent", "generated"}
        /\ remote[k] \in {"sent", "generated"}
        => j = k

\* A terminal row is never rewritten although _finish commits without looking
\* at the state: the lease keeps _refresh away from a living worker's job.
TerminalIsFinal ==
    [][\A j \in Rows : jobs[j].state \in TERMINAL_STATES => jobs'[j] = jobs[j]]_vars

\* Bytes on disk: content and export are one inode.
Bytes(j) ==
    Cardinality(files[j] \cap {"text"})
        + IF files[j] \cap {"content", "export"} = {} THEN 0 ELSE 1

\* Whatever dies, what the jobs of this host keep on disk stays inside the
\* quota that admission checked: reservations cover living jobs, and a closed
\* row was charged all it left, a published but uncommitted export included.
WithinQuota == MapThenSumSet(Bytes, Jobs) <= max_retained_bytes

\* A completed answer can be read at the place its row gives (result,
\* _read_content), however its publication went.
AnswerServed ==
    \A j \in Rows : jobs[j].state = COMPLETED =>
        IF jobs[j].path THEN "export" \in files[j]
        ELSE files[j] \cap {"content", "export"} # {}

\* Every admitted job ends, though its worker may die: the ledger takes
\* max_jobs rows, and from some time on none of them is active.  No room waits
\* for ever for the slot of a job nobody works on (STATE_TABLE, _refresh).
JobsEnd == <>[](active = {})
=============================================================================
