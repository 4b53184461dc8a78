---------------------------- MODULE TextDelegate ----------------------------
(***************************************************************************)
(* The text delegate: jobs of a profile that the user may edit under its   *)
(* id.  A room's server and every worker read the profile when they start, *)
(* so the two can disagree; the ledger's row carries the profile of the    *)
(* server that admitted it.                                                *)
(*                                                                         *)
(* Admission, relabelling, the ledger and the publication are the code of  *)
(* the DeepSeek delegate under other names: they are taken from            *)
(* DeepSeekJobs, the lines of this delegate are named for each.  What the  *)
(* worker does between its start and the terminal commit is written here.  *)
(* A profile that no longer loads ends the worker: a death.                *)
(***************************************************************************)
EXTENDS Naturals, FiniteSets

CONSTANTS max_jobs, Rooms, max_concurrent_per_room, max_concurrent_per_host,
          max_retained_bytes, None, MaxDeaths,   \* as in DeepSeekJobs
          Contents,                              \* what a room asks for
          Profiles,                              \* versions of the profile
          MaxEdits                               \* bound: edits of the profile

VARIABLES
    jobs, resolutions, sub, work, files, cancel, remote, deaths,   \* as in DeepSeekJobs
    profile,      \* the file
    serves,       \* the profile each room's server has read
    ran,          \* the profile each worker has read, or None
    edits         \* how often the file was edited (bounded)

Job == INSTANCE DeepSeekJobs WITH Payloads <- Contents \X Profiles

job == <<jobs, resolutions, sub, work, files, cancel, remote, deaths>>
vars == <<job, profile, serves, ran, edits>>

Init ==
    /\ Job!Init
    /\ profile \in Profiles
    /\ serves = [room \in Rooms |-> profile]
    /\ ran = [j \in Job!Jobs |-> None]
    /\ edits = 0

admitted_under(j) == jobs[j].payload[2]

Keeps == UNCHANGED <<profile, serves, ran, edits>>

-----------------------------------------------------------------------------
\* The digest covers the server's profile: identical content under another
\* version is another request.
submit(room, content, diagnosis) == Job!Submit(room, <<content, serves[room]>>, diagnosis) /\ Keeps

_refresh == Job!Refresh /\ Keeps

StoreRequest(j) == Job!StoreRequest(j) /\ Keeps
_spawn_worker(j) == Job!_spawn_worker(j) /\ Keeps
SubmitFails(j) == Job!SubmitFails(j) /\ Keeps

-----------------------------------------------------------------------------
Move(j, step) == work' = [work EXCEPT ![j] = step]
Ends(j, outcome) == Move(j, Job!Worker("finish", outcome, FALSE))

\* The new process reads the profile before it looks at the row.
Adapter(j) ==
    /\ work[j].at = "start"
    /\ ran[j] = None
    /\ ran' = [ran EXCEPT ![j] = profile]
    /\ UNCHANGED <<job, profile, serves, edits>>

started(j) == work[j].at = "start" /\ ran[j] # None

\* Cancelled, another profile, changed inventory, unreadable request, no key.
_unsent(j) ==
    /\ started(j)
    /\ jobs[j].state = Job!QUEUED
    /\ Ends(j, Job!NOT_STARTED)
    /\ UNCHANGED <<jobs, resolutions, sub, files, cancel, remote, deaths>> /\ Keeps

\* Mutated form: the worker sends with the profile it has read.
CommitSubmitting_any_profile(j) ==
    /\ started(j)
    /\ Job!CommitSubmitting(j) /\ Keeps

\* Only under the profile of the row.
CommitSubmitting(j) ==
    /\ started(j)
    /\ jobs[j].state = Job!QUEUED => ran[j] = admitted_under(j)
    /\ Job!CommitSubmitting(j) /\ Keeps

\* The request up to the response; a response that is not a stream.
_execute(j) ==
    /\ \/ Job!Connect(j) \/ Job!ConnectFails(j)
       \/ Job!Send(j) \/ Job!SendFails(j)
       \/ Job!NoStream(j)
    /\ Keeps

on_response(j) == Job!Respond(j) /\ Keeps

\* What the stream itself can get wrong: malformed, another model, tool calls,
\* content after the finish (failed), a cap (truncated).
StreamError == {Job!FAILED_AFTER_SEND, Job!TRUNCATED}

\* Between reads: the deadline, a cancellation, the stream's error, a broken
\* connection; then the finish reason and the model decide.
_consume(j) ==
    /\ work[j].at = "stream"
    /\ \/ \E outcome \in StreamError \cup {Job!ABANDONED_DEADLINE} : Ends(j, outcome)
       \/ cancel[j] /\ Ends(j, Job!ABANDONED_CANCELLED)
       \/ Move(j, Job!Worker("publish", Job!COMPLETED, FALSE))
    /\ UNCHANGED <<jobs, resolutions, sub, files, cancel, remote, deaths>> /\ Keeps

_publish(j) == (Job!Link(j) \/ Job!NoExport(j) \/ Job!Durable(j)) /\ Keeps
_rollback_export(j) == Job!_rollback_export(j) /\ Keeps
_finish(j) == Job!_finish(j) /\ Keeps

-----------------------------------------------------------------------------
Cancel(j) == Job!Cancel(j) /\ Keeps
resolve_job(j) == Job!resolve_job(j) /\ Keeps

serve(room) ==
    /\ serves' = [serves EXCEPT ![room] = profile]
    /\ UNCHANGED <<job, profile, ran, edits>>

Edit ==
    /\ edits < MaxEdits
    /\ edits' = edits + 1
    /\ profile' \in Profiles \ {profile}
    /\ UNCHANGED <<job, serves, ran>>

Beyond(j) == (Job!Provide(j) \/ Job!SubmissionDies(j) \/ Job!WorkerDies(j)) /\ Keeps

Submission(j) == StoreRequest(j) \/ _spawn_worker(j) \/ SubmitFails(j)

run_worker(j) ==
    \/ Adapter(j) \/ _unsent(j) \/ CommitSubmitting(j)
    \/ _execute(j) \/ on_response(j) \/ _consume(j)
    \/ _publish(j) \/ _rollback_export(j) \/ _finish(j)

Next ==
    \/ \E room \in Rooms, content \in Contents, diagnosis \in BOOLEAN :
          submit(room, content, diagnosis)
    \/ _refresh
    \/ \E j \in Job!Jobs : Submission(j) \/ run_worker(j)
    \/ \E j \in Job!Jobs : Cancel(j) \/ resolve_job(j) \/ Beyond(j)
    \/ \E room \in Rooms : serve(room)
    \/ Edit

Spec == Init /\ [][Next]_vars

\* As in DeepSeekJobs.
FairSpec ==
    /\ Spec
    /\ WF_vars(\E j \in Job!Jobs : Submission(j))
    /\ WF_vars(\E j \in Job!Jobs : run_worker(j))
    /\ WF_vars(_refresh)

-----------------------------------------------------------------------------
\* A request leaves this host only under the profile its room asked for:
\* endpoint, model, limits and key of the worker are those the row was admitted
\* and deduplicated with, however the profile was edited, the server restarted
\* and the worker delayed in between (run_worker).
SentUnderOwnProfile ==
    \A j \in Job!Rows : remote[j] # "unsent" => ran[j] = admitted_under(j)
=============================================================================
