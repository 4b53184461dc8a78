# TLA+ models of Astra Fable Project Room

Project Room lets one controlling assistant ("Astra") run two native agent
sessions, an *engineer* and a *reviewer*, through a lifecycle: specification →
spec review → handoff → implementation → corrections → verification →
acceptance.  Everything it knows is in immutable files and one `state.json` per
room; every operation is a short-lived process that reads it, talks to the AO
backend over HTTP, and saves it.  The hard part is what happens between a save,
a POST, a native turn, an edit of the worktree and a crash.  This directory
models those parts, checks them with TLC and proves the core ones with TLAPS.

Contents: [inventory](#inventory), [modules](#modules), [runs and bounds](#runs),
[fairness](#fairness), [proofs](#proofs), [findings](#findings),
[what is not modelled](#not-modelled), [plan](#plan).

## Inventory

| Component (source) | State it keeps | Operations | Hard behaviour |
|---|---|---|---|
| **AO locks** (`ao_project_room.py` 280-560) | `.lock`, `.lock.turnstile`, `rooms/<id>/.lock`, `lock-holders/*` | `Service.locked`, `lock_holders`, `_lock_diagnosis` | shared and exclusive flocks, writer starvation, timeouts, process death, best-effort cleanup of other processes' records |
| **AO dispatch** (`ao_project_room.py` 566-690, 1053-1411; `ao_outcomes.py`) | `requests[]` of `state.json`; AO's turns, messages, `modelReroute` | `ao_room_send`, `ao_room_sync`, `ao_room_outcome_audit`, `ao_room_outcome_resume` | lost, late or unacknowledged POSTs; crashes between intent, POST and acknowledgement; turns of humans; late completion; evidence that moves |
| **AO lifecycle** (`ao_project_room.py` 783-1620, `ao_workflow.py`) | specification, handoff, candidates, verification attempts, checkpoint, acceptances and their files | `ao_room_spec_put`, `ao_room_handoff`, admission of each purpose, capture in `ao_room_sync`, `ao_room_verify`, `ao_room_accept` | file before save, edits of the worktree at any time, crash inside verification, staleness of approvals |
| **Review allowances** (`ao_review_extension.py`, `ao_spec_rereview.py`, `ao_spec_verdict_recovery.py`, `ao_acceptance_extension.py`, `ao_reviewer_recovery.py`) | receipts, consumptions and captures, each a file that `state.json` names later | audit, grant, consume at send, capture, close, recover | one use of a grant across a crash between any two writes |
| **Transitions** (`ao_provider_transition.py`, `ao_routing_adoption.py`, `ao_engineering_*.py`, `ao_executable_binding.py`, `ao_routing_refresh.py`) | intents, receipts, records, epochs; AO's settings; the runtime files | audit, transition, abandon, policy, repair, refresh, adopt | half-done transitions behind the gates of `Service.settled`; lost and late PATCHes; launches in between |
| **Delegate attachment** (`ao_mcp_attachment.py`, `ao_delegates.py`) | `owner.lock`, `connection.lock`, receipts | the wrapper, `_validate_attachment` | who holds a lock can only be probed, by taking it |
| **Two-room coordination** (`ao_coordination.py`) | lineages, lifecycles, references of both rooms, refusals | assignment_open, handback_record, import_preflight, import_record, both acceptance gates | two rooms and the owner's Git history move independently; an admission is five writes |
| **Routing guard: read admission** (`ao_routing_guard.py`) | session and message records beside the transcript, `.lock` | the hook of each Read call | parallel hooks, kills between two renames, transcripts that are rewound or replaced |
| **Change-set tool** (`changeset_*.py`) | content-addressed stores, `journals/<plan>/`, workspace files | plan, apply, resume, audit | crash between any two writes, rename without its record, foreign edits, a second plan |
| **Delegates** (`deepseek_adapter.py`, `text_delegate.py`) | SQLite ledgers, a lease and files per job, exports | submit, run_worker, status (`_refresh`), cancel, resolve | a worker dies with a request of unknown fate; relabelling against a late commit; paying twice; an edited profile |
| **Legacy controller** (`project_room.py`, `room.py`, `implementation.py`, `recovery.py`, `verification.py`) | two databases, leases, attempt and recovery receipts | review and implementation jobs, reconcile, recover, verify | orphaned model processes, launches of unknown fate, reboots |
| **History readers, projections, formats, prompts, MCP transport, runtime pinning, evaluation** | none of their own | pure reading, formatting, transport | none that is a protocol |

How they interact: the MCP server calls one `Service` method per tool call.
Every method runs inside `Service.locked` (AoLocks), which gives it a fresh
`state.json`.  The method asks `settled`/`quiet` (all earlier deliveries
explained, nothing running, no journal with an unclaimed intent), then its gates
(outcomes, epochs, allowances, coordination), then saves; only `ao_room_send`
also leaves the process, and only `ao_room_verify` runs others.  `ao_room_sync`
is the one reader of what AO did, and the one place that captures a candidate.
Coordination operations take the adapter lock exclusively and so exclude the
operations of every room; so do the launchers of the delegate.  The routing
guard, the wrapper of the delegate and the delegates' workers are processes
beside the room and synchronise by flocks of their own.  The change-set tool and
the legacy controller are separate: their only common state with the rest is the
file system.

What makes each part correct:

* locks — nobody works from a `state.json` rewritten since it read it; a live
  holder is never taken for a stale one; waiters get in; bounded calls return.
* dispatch — no request is run twice or answered by another's turn; failures are
  never laundered into results; a completed turn is not lost.
* lifecycle — an acceptance rests on one specification and one content of the
  worktree; results and verifications are bound to the content they are about.
* allowances — each is used once, on what was audited, and never lost.
* transitions — what a crash leaves can be closed; one provider works at a time;
  a turn keeps the model and runtime it was sent under.
* attachment — a connection is certified only while its wrapper lives.
* coordination — rooms engaged at once do not overlap; an import is what was
  handed back, verified, reviewed and accepted under the assignment.
* guard — no message reads more than its budget, no call is let through twice.
* change-sets — one open batch; every crash leaves a state the audit can resume;
  nothing is replaced twice; an edit by somebody else is not overwritten.
* delegates — what is recorded as unbilled was never generated; identical content
  is not paid twice; what stays on disk is inside the quota; every job ends.
* legacy — nothing is launched beside a living process, a launch is never
  denied, budgets hold, a handoff rests on the last reply.

## Modules

| Module | What it models |
|---|---|
| `AoLocks` | `Service.locked` from entry to the last close, each flock by its grant, `lock_holders` probe by probe, deadlines, process death |
| `RequestLedger` | abstract: claim alone, dispatch once, settle only when no native work is left |
| `AoDispatch` | send (intent / POST / acknowledgement), sync, audit, resume; the AO backend as environment; implements `RequestLedger` |
| `AoLifecycle` | spec_put, handoff, each send purpose, capture, verify, accept, edits of the worktree, crashes |
| `SpecReviews` | review extension, re-review and format re-ask beside the ordinary budget of specification reviews |
| `ReviewerAttempts` | reviewer attempts beyond three under grants, and the recovery of a reviewer that was never used |
| `ModelTransition` | the engineering model transition, abandonment, standing policy, adopted resolutions |
| `RuntimeAmendments` | executable repair and routing refresh of a prepared room |
| `ProviderEpoch` | preparation, launches of the delegate, the provider transition, the routing adoption |
| `McpAttachment` | the wrapper beside the delegate's server and the validators that certify its connection |
| `Coordination` | two rooms with an assignment between them, their Git histories, admission to import |
| `ReadAdmission` | the routing guard's admission of parallel reads |
| `ChangesetBatch` | abstract: commit, replace each target once, complete |
| `Changeset` | apply and resume, stage by stage, rename by rename; crashes; foreign writers; implements `ChangesetBatch` |
| `DeepSeekJobs` | admission, submission, worker, publication, relabelling, cancellation and resolution of paid jobs; deaths; the provider |
| `TextDelegate` | the same for delegates with a profile that the user edits; instantiates `DeepSeekJobs` for what is the same code |
| `LegacyJobs` | jobs, supervisor, executor, model, recovery and verification of the legacy controller |
| `LegacyReview` | review jobs of the legacy controller over the turns of the review engine |
| `MCAoLocks`, `MCAoDispatch`, `MCChangeset`, `MCModelTransition`, `MCCoordination` | instances for TLC: symmetry sets and definitions a `.cfg` cannot write |
| `MCDelegates`, `MCLifecycles`, `MCReviews`, `MCRooms`, `MCAmendments` | instances of several modules in one run |
| `AoLocks_proof`, `AoDispatch_proof`, `Coordination_proof`, `Changeset_proof`, `DeepSeekJobs_proof`, `Lifecycles_proof`, `Reviews_proof`, `Amendments_proof` | the theorems; `Coordination_proof`, `DeepSeekJobs_proof` and the last three are about the components that `MCRooms`, `MCDelegates`, `MCLifecycles`, `MCReviews` and `MCAmendments` join |

Composition: the modules of a room take the guarantee of `AoLocks` (one
operation of a room at a time, on a fresh state) as the atomicity of their
actions; those above `AoDispatch` take from it that a request is open until a
sync has observed its one turn.  A step that leaves the lock's protection in the
code (the POST, a file written before its save, a verification that runs
processes) is a step of its own, or the operation performs a prefix of its
writes when only a crash can fall between them.

The five `MC` modules that hold several components let a behaviour explore one
of them (the variable `of`) and pin the others at their start.  The components
share no state, so every reachable state of each is reached, and the product is
not; sharing the model values keeps the symmetry of each.

### AoLocks

`pc`/`op` say where each process is in `locked()` and for which room and mode.
`turnstile`, `adapter`, `roomLock` and `fileLock` are the flocks; a shared flock
is granted while no exclusive one is held, whoever waits (`flock` has no queue).
`name`, `published` are the holder record file before and after its rename.
`todo`/`probe`/`verdicts` are a diagnosis in progress.  `stale` is history: the
processes whose room state another process has rewritten since they read it —
`Readers` puts a process there only between its read and its save.
`Crash` drops all flocks of a process and leaves its files.
Abstracted: the text of a record, retry intervals, the JSON of a diagnosis.

### RequestLedger and AoDispatch

`req` is the request table of `state.json`; `win` the send in progress (idle,
intent saved, POST sent); `flight` and `posts` the POSTs AO has not handled and
all of them; `turn` the native turns.  `SendIntent` carries every check of
`ao_room_send` that reads state (settled, quiet, outcome gate, baseline of turn
ids); `Sync` is the whole of `_sync_once` for every request — reconciliation by
identical text minus the baseline, then `_observe`, which weighs the first outcome
in the very sync that records the completion — and `SyncConflict` its early
return when a substitution was recorded, whether AO names the turn of it or not
(`Unattributed`).  `Observed` is `ao_outcomes._observe`:
stickiness, resolution counter, notes.  The environment delivers, loses, starts,
ends, completes late, changes the evidence of a finished turn, reroutes, and has
humans type in the same conversation.  All requests carry the same bytes, the
worst case for attribution, which the code explicitly allows.  A turn carries its
text; for whom AO started it is `turn[t].req`, which the code learns from the
acknowledgement of a POST and nowhere else.
`HumanTexts` says what humans type: with `"same"` in it a human may type those very
bytes, and `sent_message` cannot tell that turn from the request's own, exactly as
`ao_project_room.py:243-250` cannot.  `OwnTurn` says what is left then — no turn is
ever given twice, and none is given wrongly before such a copy — and finding E what
is lost.
Abstracted: transcripts are a kind of evidence and a flag "unreadable"; the
outcome digest is the outcome itself; message compaction, native source paths
and worker proofs are left out.

### AoLifecycle

`reqs` is the sequence of requests (purpose, specification, answer, handoff,
review identities, candidate, record, error).  `win` is the multi-step operation
in progress: a specification or handoff whose file is written and whose save is
not, a candidate file, a record, a verification between two gates.  `tree` is
the content of the worktree (an abstract number; `candidate_snapshot` compares
contents), edited by `Edit` at any time, including between snapshots.  An
acceptance review, a verification and an acceptance look at the candidate twice,
once in `engineering_ready` or `checkpointed` and once for what they record; the
two looks are two steps (`SendReview`/`Send`, `VerifyStart`/`VerifyBegin`,
`AcceptStart`/`Accept`) with edits in between, and `Refused` is an operation that
ends at the later look.
`Admitted(p)` is `ao_workflow.packet`'s rules per purpose; `agreement` searches
the reviews as the code does.  `readable` says whose native history can be
attributed right now.
Abstracted: a malformed and a held result are both "unusable"; `verification`
gates only pass, fail or die.  The lanes beyond `MAX_REVIEW_ATTEMPTS` are the
next two modules.

### SpecReviews

The specification reviews of a room whose ordinary attempts are spent: the
review extension, the re-review of an amended specification and the re-ask of a
verdict that came back in the wrong form.  Each is a receipt file, a
consumption written with the request and a capture after the answer, and each
file precedes the save of `state.json` that names it, so each operation writes a
prefix and a crash leaves the rest.  Receipts are reconciled only by an
identical request, an orphaned consumption stops the room, and the re-ask fails
closed at every crash between a file and its save.  Under a re-asked acceptance the
candidate is frozen as it was audited until the specification is handed off, which
`check_handoff` holds `hand_off` to.  A re-review can be
reached only in rooms whose extension was granted at three dispatches under the retired
accounting, so `Init` includes such rooms.  After an acceptance the lane refuses
rooms with settled failures, before it the lane admits them.

### ReviewerAttempts

Acceptance attempts beyond three and the recovery of a reviewer that never
worked.  Grants and consumptions alternate in a journal of files of which
`state.json` keeps a projection; `Ops` is one operation with a prefix of its
writes.  A trailing grant is reconciled only by an identical request; a
trailing consumption without its save stops the room.  A settled failure makes
extension impossible.  A recovery receipt that `state.json` does not reference
refuses everything and has no reconciling operation.  Initial states are a
room with a fresh reviewer, and one with three rejected attempts.

### ModelTransition

The intent file, AO's settings of the two sessions, the receipt, the epochs and
the records of the standing policy.  A transition writes its intent, PATCHes AO,
reads the settings back, and writes its receipt and `state.json`; the PATCH can
be lost, late or applied without an answer, and AO can restart with other
settings.  Abandonment is the counterpart; the policy authorises transitions
without the operator.  A turn keeps the epoch it was sent under.  Left out:
evidence of transcripts and child sessions, history, executable and rules
evidence, semantic holds.

### RuntimeAmendments

The executable repair and the routing refresh of a room that is prepared, with
the room's requests around them.  The room lock serialises the operations of a
room, so between two writes of an amendment only the environment moves (the host
replaces an executable or a guard, an operator revises the specification) or a
crash ends it.  Routing refreshes ask each other's journal; the repair's journal
is not asked by room mutations (see [findings](#findings), A).
Abstracted: `Floor(w)` stands for the minimum Claude Code version.  Left out:
selection of family aliases, compaction, foreground and rules evidence, drift of
the runtime by hand, invalidation of history reconciliation.

### ProviderEpoch

`Step`s write a prefix of: receipt, epoch files, archive copy, unlinking of the
live files, `state.json`.  Launchers take the adapter lock exclusively and fall
between operations.  A launch during a pending transition that began with the
files present recreates identical bytes and can be reconciled; when they were
absent it blocks the transition for good.  A delegate job during a pending
transition changes ledger rows and blocks it too; a launch or a job between the
commit of the transition and the adoption strands the adoption.  All of these
fail closed.  The AO configuration is compared at the stage only after intent
and state are saved, and activation needs the exact staged configuration.  A
stray session launched before binding forces that session as the engineer.
`StandingPolicy` changes `state.json` while an intent is pending, which the
reconciliation does not expect; `IntentsReconcilable` excludes it.
Left out: verification of reports and delegations, corrections of history,
amendment texts, registration rooms that are shared.

### McpAttachment

Wrapper `w` publishes connection `w` of inode `w`.  `owner`, `conn` are the
flocks, `link` the directory entry, `receipt` the file a validator reads.  A
probe takes a free lock for a moment; a wrapper that starts in that moment
refuses (`ao_mcp_attachment.py:490`, `:497`), and its own probe can be taken for
a live connection: `CertifiesHeldLease` admits that probe as a holder, so it is
about the wrapper's death and replacement between a validator's two looks, and not
about the probe (finding C).  The two looks at a receipt, before and after the lock is
probed, are steps of their own.  `observe`, `ready` and
`invalid` of one witness are serialised by `witness.lock`.  An `invalid` receipt
may fail to be written.  SIGKILL frees the locks and leaves the files.  Left
out: the validation of the manifest, and the end of the child itself.

### Coordination

Lineages, the lifecycle of each assignment, the references of both rooms, and
the owner's Git history, which the owner and other people extend at any time.
The four operations hold the adapter lock exclusively and room operations hold
it shared, so an admission is one step that performs the first `k` of its five
writes, all of them or up to a crash.  Files named by their digest are inert
until a lineage names them.  The assignments a room points to are a sequence, and
acceptance in an assignment room asks only the last engaged one, as the code does.
An admission cut short leaves a room reserved by a lineage its own room does not
point to; such a lineage admits no work, and what `EngagedApart` says of rooms is
about the pointed ones: no assignment room points to two engaged assignments, and
any two engaged share no owner and no path.  The engineer commits during an
engineering request only, the operator only with a handback at hand.  A preflight
that goes from A to B and back to A is deduplicated, so the import of the A that
returned is refused.  `MaxEffort` bounds a behaviour by weight: an assignment opened
costs 2 (a crash one more), a disturbance from outside 3.  Left out: the log of
refusals, tampering, account profiles, renames.

### ReadAdmission

`session` is the record beside the transcript, `message` the record per message,
`hook` the state of each hook process between the lock, the reservation and the
two renames.  A kill leaves a prefix.  An interrupted first reservation stops
that message for good.  The transcript can be rewound or replaced; continuity is
by anchor, and a rewrite of rows older than the anchor is found by the bindings
and not by it.  Left out: inspection of quotas (lines 413-490), path and
ownership checks, limits on the number of records, the framing of lines, and the
denials of Agent, Skill and MCP calls, which keep no state.

### ChangesetBatch and Changeset

A file is an inode and a content (which also stands for its metadata).  `plan`
holds the pinned sources, `scratch` the intents with owner record and stage
file, `journal` the prepared record, the chain of stage/replace records and the
completion.  `op` is where each invocation is; each step of `op` ends at a write
another process or a crash can observe: intent, stage file, owner record, bytes,
prepared journal, each rename, each record, completion.  `Passes` gathers the
checks of each step and `Refuse` ends the invocation when one fails.
Inode numbers are reused as file systems do, so "same inode" does not mean "same
file".  `swapped`/`raced` are history: which renames happened over which file,
and whether a foreign write fell between the last check and the rename.
Abstracted: plans are built in one step; an audit and the digest handed from it
to the resume are folded into the resume (the operator can always audit just
before); evidence, receipts and pinned inputs are the flag `pinned`; `.tmp-`
leftovers of `write_once_at` (ignored by all readers), the bound on journals and
the platform checks are left out.

### DeepSeekJobs

`jobs` and `resolutions` are the tables of the ledger; a row carries the columns
admission and relabelling read (state, reservation, retained bytes,
`possibly_billed`, `content_path` as `path`).  `sub` and `work` are the process
that submits a job and the detached worker it spawns; `files` the large files of
the job; `cancel` the file `cancel.json`.  `remote` is what happened beyond this
host: `sent` means that the bytes left, so the provider may generate and bill at
any later time, and only what a worker can still see is a step (`Provide`).

`leased` is the flock of `worker.lock`.  It belongs to the open file that the
worker inherits, so it is held by the submission until it returns and by the
worker until it is gone, without a gap.  Every status call, submission and
`deepseek_health` relabels jobs whose lease is free (`Vanished`, `Label`); the
startup grace makes it any part of them.  `Submit` is the whole admission:
refresh, deduplication, room stop, both concurrency limits, `max_jobs`, quota.  A
submission under a request id that the room has used returns its job and can
only refresh it.  `run_worker` goes byte by byte past the send boundary: the
commit of `submitting`, the last looks at deadline and cancellation, the send,
the answer, the stream, and `_publish` from the link to the terminal commit,
which rewrites the row whatever it says.

Bytes are counted in files: the admitted text is one, an answer (content with
reasoning) one, and content and export share an inode.  The quota is therefore
that of the large files; the small records (`request.json`, `heartbeat.json`,
`meta.json`, `cancel.json`, the log) live in a part of the reservation of their
own and are left out, and so is `resolution.json`, which is written after the
row's bytes were measured.  Also left out: prompts and context files, the
grammar of the stream (an outcome is any of those `_consume` can give), the key,
probes, and failures of SQLite itself.

### TextDelegate

One ledger per profile; a row carries the digest of the profile it was admitted
under, and the worker compares it with the profile on disk before it sends
(`profile_changed`, proven unsent).  `Edit` is the user.  What is the same code
as in `deepseek_adapter.py` is an instance of `DeepSeekJobs`.  Left out: edits
that change the profile's id, limits that differ between versions, a reader
whose `max_content_bytes` is smaller; a profile that no longer loads is a
worker that dies.

### LegacyJobs and LegacyReview

`LegacyJobs` follows an implementation job of the legacy controller through
three processes: the supervisor that holds the lease, the executor it starts
(which does not), and the model process.  An uncertain job or turn blocks the
room for good.  Recovery after a quota stop requires a reboot once the model has
been started; the retry of a verification does not, and is refused after a
recovered attempt.  A SIGTERM between the saved attempt and the launch leaves a
`running_model` whose recovery is refused, and a settled projection with an
edited tree blocks for good; both are safe.  `LaunchUnknown` may leave a living
process.  Left out: `implementation.py run` from the command line, which bypasses
the registry, and survivors of a verification gate.
`LegacyReview` is the registry's review job over the review engine's turns, both
with a database of their own.  A new session identity is refused by the client
while a session file exists.  A crash between the engine's commit and the
registry's leaves the job failed, which is harmless.  The cfg gives
`MAX_REVIEW_TURNS` 1; the code's value is 3 and the properties do not depend
on it.

## Runs

Every run finishes within five minutes with two workers.  Deadlock is checked in
the runs of `AoLocks` and `AoDispatch`; the other models really may stop, when
the bounds are used up or where the code fails closed.

| Run | Modules and bounds | What it shows |
|---|---|---|
| `AoLocks_locks` | `AoLocks`: 2 processes, 2 rooms, 3 names, one bounded caller, 1 crash | `SnapshotFresh`: shared room operations and exclusive claims never share a stale state. `LiveHolderNamed`: no probe removes a live holder's record. `WaiterAdmitted`, `BoundedCallEnds` |
| `AoDispatch_delivery` | 2 requests, 3 turns, 1 role, 1 crash, 1 human turn of the requests' text or another, 1 reroute, 1 late completion | `PostedOnce`, `OwnTurn`; until a human has typed that text, refinement of `RequestLedger` and `CompletionRecorded` |
| `AoDispatch_outcome` | 3 requests, 3 turns, 1 role, all evidence, 2 changes of it | `FailureSticks`, `HeldHasOneSuccessor` |
| `Changeset_batches` | 2 invocations, 2 plans over 2 shared files (one target unchanged), 1 crash, 3 attempts, 4 records | refinement of `ChangesetBatch`, `BatchCompletes` |
| `Changeset_foreign` | 1 invocation, 1 plan, 2 files, 2 crashes, 2 foreign writes, 3 records, inodes reused | `Resumable` (of behaviours without foreign writes), `OverwritesOnlyInWindow` |
| `Delegates_jobs` | `DeepSeekJobs`: 3 jobs, 2 rooms, 1 payload, 1 job per room and 2 per host, a quota of 4 files, 1 death, the first job in a fixed one of the two interchangeable rooms. `TextDelegate`: one room, a quota of 3, 2 versions of the profile, 1 edit | `BillingTruthful`, `PaidOnce`, `AnswerServed`, `WithinGrant` (quota; bytes sent under the profile they were admitted under), `JobsEnd` |
| `Lifecycles_room` | `AoLifecycle`: 2 specifications, 2 contents of the worktree, 4 requests, 2 attempts of 2 gates, 1 crash, 1 loss of attribution. `LegacyJobs`: 2 jobs, 1 edit, 2 faults | `AcceptanceChain`, `GatesRanOnCandidate`, `QuietWhenIdle`, `LaunchTruthful` |
| `Reviews_allowances` | `ReviewerAttempts`, `SpecReviews`, `LegacyReview`, `ProviderEpoch`: 2 sessions, 2 requests, 2 reviews, 2 turns, 1 candidate, 1 edit, 1 crash, 3 specifications, 8 review turns, 2 payloads, 2 review jobs, 1 fault | `AttemptsAccounted`, `AllowancesSpentOnce`, `AllowanceNotLost`, `AgreementGrounded`, `ReviewsBounded`, `HandoffFollowsReply`, `IntentsReconcilable`, `OneProviderAtATime` |
| `Rooms_shared` | `Coordination`: 3 rooms, 2 assignments, 2 paths, 3 turns, 2 commits, effort 7. `ReadAdmission`: 3 guards of which 2 are at work at once, windows of 2, budgets of 2 to 4, 2 attempts, 1 anchor, 1 disturbance | `EngagedApart`, `ImportHonest`, `MessageBudget`, `OneCallOneRead` |
| `Amendments_epochs` | `ModelTransition`, `RuntimeAmendments`, `McpAttachment`: 2 connections, 2 validators, 2 versions, 2 turns, 2 attempts, 2 disturbances, 2 executables, 1 guard, 2 intents, 1 application | `SettingsFollowEpoch`, `TransitionClosable`, `RuntimeExplained`, `CertifiesHeldLease`, `RunsUnderOneRuntime` |
| `ModelTransition_standing` | `ModelTransition` with the standing policy | violation, see [findings](#findings) |
| `Coordination_evidence` | `Coordination` | violation, see [findings](#findings) |

In the modules that join components an operator such as `RuntimeExplained`
conjoins what several of them promise, the lesser with the greater; its comment
says which.

Some bounds are small on purpose.  Two files and two crashes are enough for a
crash in an apply followed by one in its resume, with a rename unrecorded;
`MAX_RECORDS` is 3 in `Changeset_foreign` so that the limit is met.  Four
requests are the shortest complete lifecycle.  Two locks' callers and two rooms
let a claim read one room while another is written.
`GatesRanOnCandidate` and `AcceptanceChain` are checked with `Restore = FALSE` only,
where an edit always gives a content that was not there before.  The documentation
(`lifecycle-contract.md`, T9) says that snapshots before and after each gate do
not see a content that was changed and put back in between, and the same goes for
the two looks of an acceptance: both properties are false with `Restore = TRUE`.
Three rooms are the fewest in which two owners can want one assignment room.  In `Delegates_jobs` three jobs over one payload are a retry in
one room beside another room, or two retries; the quota of 4 is two
reservations, so it refuses the third job unless bytes were released.  One death
or crash is enough for each step to be the one that is cut short; the retry then
meets what it left.  An allowance needs one use, one crash and one second
attempt to use it, and an import one assignment beside the one that would
overlap with it.
Symmetry is used for safety only, and only over identities the code never
compares except for equality.

## Fairness

* `AoLocks`: each process goes on when it can — a granted flock is taken, a body
  ends, a cleanup runs, a bounded caller polls until it is granted or its deadline
  passes.  Nothing is assumed between processes that want the same lock; without
  the turnstile `WaiterAdmitted` fails.  Bodies end because every HTTP call and
  gate has a timeout.  The record of a dead process keeps its name until a
  diagnosis removes it, so the run has one name more than processes; the code's
  names are uuids.
* `AoDispatch`: Astra keeps calling `ao_room_sync` and a send that has saved its
  intent is posted and answered or fails.  The backend is not fair: deliveries
  and turns may never come.  `CompletionRecorded` speaks of turns that did
  complete, and not of a room in which a human has typed a request's text: two
  matching messages are none to `sent_message`, and the request stays open.
* `Changeset`: a running invocation goes on, and somebody resumes an open batch
  again and again (`WF` over all invocations for each plan).  The number of
  crashes is bounded, so they end; foreign writes are excluded, since one may
  make a batch ineligible for good by design.
* `Delegates_jobs`: submissions go on and workers go on while they live — every
  wait on the socket is bounded by the job's deadline — and somebody keeps asking
  for the status.  Nothing is assumed of the provider: the worker's wait ends
  without it.  Fairness is over all submissions and over all workers together;
  as both kinds are finite sequences of steps, none is left behind for ever.

The other modules state safety only: each ends where the operator decides not to
go on, and what they promise is that one can.

## Proofs

All for any values of the constants that satisfy the named assumptions.  Each
invariant was first checked by TLC with its strengthening.  `Lifecycles_proof`,
`Reviews_proof`, `Amendments_proof`, `Coordination_proof` and `DeepSeekJobs_proof`
cover several components: each extends the module that joins them for TLC and names the
definitions of a component through its instance (`Budget!Spec` is the
specification of `SpecReviews`, `Legacy!` is `LegacyReview`, `Provider!` is
`ProviderEpoch`, `Runtime!` is `RuntimeAmendments`, `Model!` is `ModelTransition`,
`Reads!` is `ReadAdmission`, `Text!` is `TextDelegate`), so that a theorem states the very property the run checks.

* `AoLocks_proof`.  `LocksInv` says which flock and which record each step of
  `locked()` holds, that adapter holders exclude each other as their modes say,
  that a probed record is not one whose holder is past publishing, and that no
  reader is stale.  `SnapshotFresh` alone is not inductive: it holds because a
  saver holds its room lock, which the reader of that room would need, or the
  claimant holds the adapter exclusively.  Theorems: `TypeCorrect`,
  `NoStaleSnapshot`, `LiveHolders`.
* `AoDispatch_proof`.  `DispatchInv` joins to the type invariant: the send in
  progress belongs to an open request (`WinInv`); every POST is accounted for by
  a message in flight or the one turn started for it (`PostInv`, `TurnInv`); the
  open request is alone and, as long as no human has typed its text, owns all
  outstanding work (`OpenInv`); every other request's turn in its role is in its
  baseline (`BaselineInv`), which is why text equality minus the baseline
  identifies the turn; and what a settled request was given stays given
  (`GivenInv`).  With human copies only part of this is left, and it is what
  `OwnTurn` says: no turn is given twice, since whatever was given before is in the
  baseline of what is sent after; a wrong one is given only after a human typed
  the text; and a request that then is given another request's turn finds it free
  because that one was given a wrong turn before.  A
  controller step and a native step are first shown to be one of a few shapes
  that keep the invariant.  Theorems: `NeverPostedTwice`, `TurnsNotConfused` and
  `CompletionKept` (an action property) whatever humans type; `OneRequestWorks` and
  `LedgerRefined` (the refinement of `RequestLedger`, by step simulation) until a
  human has typed a request's text; `DeliveredWithoutCopies` (a request is given no
  turn but its own) where humans do not.
  Of the outcomes: `OutcomeInv` says that the order of the sent requests has no
  gap and no tie (`OrderInv`), that a continuation rests on a failure and no
  older outcome counts more resolutions (`ReleaseInv`), and that a held failure
  has one successor.  The last alone is not inductive: `_observe` rewrites any
  request of the list and a resolution counts up, so a release that named an old
  outcome must not come to name a current one.  Theorems: `OneSuccessor`,
  `FailuresStay` (a failure is not laundered by a later observation),
  `OldReleasesStay`.
* `Lifecycles_proof`, of `AoLifecycle`.  `IInv` joins to the type invariant what the operation in
  progress rests on and nobody changes under it (`WindowInv`: the request a
  capture is about, the specification and attempt of a verification), that a
  record is of the captured candidate (`CaptureInv`), that an acceptance names an
  attempt and a review there are (`AcceptedInv`), and the properties
  `CheckpointIsLast` and `EngineeringAgreed`.  Requests and attempts are only
  appended and their links only filled in.  Theorems: `CheckpointsLast`,
  `EngineeringOnAgreement`, `CapturedOnce`, `UnfinishedHolds` and, where contents do
  not return, `GatesRan`: its invariant `RanInv` says that a gate that ran on
  another content leaves the worktree past the one the attempt names.
  `AcceptancesChained`, too, needs contents that do not return, since a candidate
  may be edited between the two looks of an acceptance and be back for the second:
  contents are then numbered in the order they appear (`TreesNumbered`), so that an
  acceptance whose looks agree saw one content throughout (`AcceptanceWaits`,
  `ChainInv`), and the chain of an acceptance already given survives each later
  operation (`StepChain`).
  Of `LegacyJobs`: `JobsInv` says that one executor at a time holds the handoff
  (`OneLocked`), what its stage says of the handoff and of its row (`StageOK`,
  `RecoveryOK`), which rows the handoff names (`HandoffOK`), and that a row
  records as passed only a candidate whose gates ran (`GatesOK`).
  `LaunchTruthful` alone is not inductive: the count of a row moves at the launch
  and the result is printed steps later, by an executor whose supervisor may be
  dead by then, so what links them in between has to be said at every stage.
  `QuietInv` adds that a process is alive only while its stage lasts or after its
  executor died, and that a result or a row that settles leaves none
  (`ProcessOK`); that what is recovered or verified again is over, with what it
  had started (`RecoveredOK`, `VerifiedOK`); and that a verification is retried
  only when the earlier ones are given up and quiet (`RetriedOK`).  The last
  needs a measure: once a verification is consumed, the handoff is past the
  attempt that was verified (`Behind`), and no step takes it back (`Advance`), as
  a recovery that is refused at its launch only returns an attempt that had not
  counted (`Base`).  Each step is shown to keep to `Conduct`, and `Conduct` to
  keep `QuietInv`.  Theorems: `JobsInvariant`, `LaunchesRecorded`,
  `IdleRoomsQuiet`.
* `Reviews_proof`, of `ReviewerAttempts`.  `IInv`: at most one file is ahead of
  the projection in `state.json`, and inside an operation it is that operation's
  (`JournalInv`); each attempt beyond the third has a consumption of its own, of
  the grant that names it (`AccountInv`); the reviewer is replaced only while no
  request was ever its own (`SessionsInv`).  `AttemptsAccounted` alone is not
  inductive, as the files are ahead of the state for the length of a crash.
  Theorems: `GrantsAccounted`, `ReviewerStays`.
  Of `ProviderEpoch`: `EpochInv` says that the first epoch knows no adoption,
  and that a second one is configured or bound and adopts only on evidence from
  before its first job; `DelegateInv` that a stopped controller runs no delegate.
  Theorems: `IntentsStayReconcilable`, `OneProvider`.
  Of `SpecReviews`: one request is open and each is answered once (`AnswerInv`);
  a source has one repair, whose chain keeps its names and its audit
  (`RepairInv`); an agreement rests on a repeated verdict over the candidate of
  the grant (`AgreedInv`, `GroundInv`); five dispatches are the ceiling
  (`CountInv`), and fewer than three refusals precede a review that is under no
  allowance, as refusals before it only get fewer (`DebateInv`).  `AllowancesSpentOnce` needs them all, as the files of an
  allowance name requests and not the other way about: a send under a grant finds
  the requests that were audited when it was written, and none of them claims it.
  Theorems: `SpentOnce`, `AgreementsGrounded`.
  Of `LegacyReview`: `LegacyInv` says that a turn that does not count never
  reached the model and that what the engine holds for a reply is the reply
  (`TurnsInv`); that at most the last job is open, and only an open one has
  processes (`ProcessInv`); and that the round has room for a turn as long as a
  supervisor or executor may still ask it (`RoundInv`).  `ReviewsBounded` alone
  is not inductive: the budget is read at the submission and used two processes
  later, so that nothing else was asked meanwhile has to follow from the job
  being the one that is open.  Theorems: `RoundsBounded`, and `HandoffsAgreed`
  about actions.
* `Amendments_proof`, of `McpAttachment`.  `IInv`: the owner lock serves one
  wrapper at a time (`OwnerInv`); the lock of a connection is held by the wrapper
  that serves it or by a probe of it (`LeaseInv`); a name stands for a connection
  some wrapper published and none publishes again (`LinkInv`); the locator of a
  disqualified connection no longer calls it current (`RejectedInv`).  Both
  theorems are about actions: `LeaseCertified` — at the certification the lease
  is held by the connection's own wrapper or by a probe — and
  `DisqualifiedRefused`.
  Of `RuntimeAmendments`: an amendment between two of its writes has its intent
  and no request beside it (`AmendmentInv`); the executable an intent names is new
  enough for the workers selected (`TargetFits`); and the record that a request
  froze or was told of is there, of that very routing (`ExpectationsNamed`).
  Theorems: `RuntimeIsExplained`, and `RunsUnderOne` about actions (a turn that
  runs keeps its runtime).
  Of `ModelTransition`: `state.json` is at most one intent behind the files and
  says what the record of the last one says (`ClaimInv`); until that intent is
  committed or abandoned the room stands where its audit found it, apart from the
  records of the standing policy (`IntentInv`); AO is where the last observation
  left it unless somebody changed it unobserved (`SettledInv`); and no epoch opens
  before a request that is already there (`BoundaryInv`), which is why a commit
  leaves the epochs of all of them alone.  Theorems: `SettingsOfEpoch`, and
  `TransitionsClosable`: what the audit froze is `IntentInv` plus the three fields
  of the standing policy, so that as long as those have not moved either the
  identical request or an abandonment is accepted.
* `Coordination_proof`.  `IInv` has a part for each kind of evidence: every commit
  that is named exists (`GitInv`), a request under way has no result
  (`ResultInv`), the checkpoint is the last one and verifies what an engineering
  result captured (`CheckInv`), neither room was ahead of itself when the lineage
  was written (`LineageInv`), what was handed back was earned when it was and
  still is, and what was imported is what was handed back last (`HandbackInv`),
  a room points only to assignments with a lineage (`PointerInv`), and engaged rooms do not
  overlap.  `ImportHonest` needs all of them: each piece
  of evidence was written by an earlier operation, and operations of the other
  room can have followed.  Theorems: `EngagementsApart`, `ImportsHonest`,
  `ReleasesKept`, `AcceptancesAfterImport`.
  Of `ReadAdmission`: a guard past the lock holds it (`HookInv`); a guard that
  has decided still finds its read new, or the same one in both records
  (`DecidedInv`); and every read let through is in both (`AdmittedInv`).  So
  neither the binding nor the entry of a read is ever replaced by another,
  whichever of the two a killed guard left, and whatever becomes of the
  transcript.  Theorem: `ReadsOnce`.  The budget needs `LimitsInv` beside it: the
  record of each message charges no more than the budget, and what a guard past
  the check is about to add still fits (`BudgetInv`); the names in the guard's
  directory, with those a guard at work may still take, stay inside its bound
  (`DirectoryInv`).  Each read let through is an entry of its message's record,
  and two of them two entries, so their sum is at most the charge.  Theorem:
  `BudgetsKept`.
* `Changeset_proof`.  `IInv` joins to the type invariant which fields of an
  invocation and a journal are meaningful when (`ShapeInv`: the stages of work
  that is done exist, work is part of what the plan changes) and the phase of
  the invocation that holds the lock (`PhaseInv`: no other batch is open, and
  its own journal is absent before the commit point and open after).
  `OneOpenJournal` alone is not inductive: `Prepare` opens a journal long after
  `Admissible` looked, so that no other has opened meanwhile has to follow from
  the lock.  `RenameInv` follows the window between the last check and the
  rename: an invocation at the rename finds the file its plan pins unless
  somebody wrote it since.  Theorems: `TypeCorrect`, `OneOpenBatch`,
  `OverwritesInWindow`.
  `ApartInv`: stages lie in inodes of their own although numbers are reused, and
  only committed batches rename.  `QuietInv`, as long as nobody else has written
  (`foreign = 0`): each invocation works on what its batch has not replaced yet,
  and each target of an open batch is exactly its old file, with the stage ready
  beside it, or exactly the new one.  Theorems: `BatchesResumable` (every crash
  leaves an open batch in a state the audit accepts) and `Refinement` (each step
  is one of `ChangesetBatch` or a stutter).
* `DeepSeekJobs_proof`.  `IInv` has one part per job: what its row says while a
  submission or worker lives (`LeaseInv`), what row and coming outcome say of the
  wire (`WireInv`), and where the answer is (`AnswerInv`); and two parts for the
  ledger: it is filled from the front, so that admission never lands on an old
  row, and of two rows for the same content one is proven unbilled (`PayInv`).
  `TerminalIsFinal` follows because `_finish`, which does not look at the state,
  is only reached by a worker whose lease has kept the row active.  A step of one
  process changes one job (`OneJob`); relabelling is treated as a function of the
  ledger, since admission is preceded by it.  Theorems: `TypeCorrect`,
  `UnbilledIsUnbilled`, `NeverPaidTwice`, `AnswersStay`, `TerminalKept`.
  The quota: `DiskInv` says what a row is charged of the files its job may leave
  or has left, and that an export nobody names yet is a second name of the
  content; `ClaimInv` that there are charges inside the quota that cover what
  every job may take.  Steps only lower what a job may take (`JobsCovered`); an
  admission sets the charges anew, from the ledger it has read
  (`AdmissionCovers`).  Theorem: `QuotaHolds`.
  `TextDelegate`: all of this is stated for any rooms and payloads, and the text
  delegate's steps are shown to be steps of `DeepSeekJobs` or moves of the
  profile (`SameSteps`, `TextKeeps`).  `RanInv`: only the commit of `submitting`
  lets a worker send, and it compares the profile the worker has read with the
  row's.  Theorems: `SentAsAdmitted`, and for the module that joins the two
  `GrantsKept` and `BothDelegates`.

Assumptions used: `None` is no member of the sets it is mixed with, nor an
outcome, an answer, a number or a record of the component; the bounds are
naturals; the request set is finite (`AoDispatch`); plans propose contents other
than the alien one for sets of files (`Changeset`); there is a payload, and room
for at least four engineer requests (`SpecReviews`: the shortest room that has
used its ordinary reviews); `None` is none of the words in the rows and results
of the legacy jobs and reviews, and no call or record of the guard's; what a
guard may select, its anchor and the budget of a message are naturals, and its
directory may hold an entry; the members of a family are
numbered, `None` is no number and no application (`ModelTransition`).  Humans type texts of
the model (`HumanTexts`, a set of texts; `DeliveredWithoutCopies` assumes that the
requests' is not among them).  `GatesRan` and `AcceptancesChained` assume
`Restore = FALSE`, for the reason given under [runs](#runs).

Only model-checked:

* liveness — `WaiterAdmitted`, `BoundedCallEnds`, `CompletionRecorded`,
  `BatchCompletes`, `JobsEnd`: the prover has no ENABLED;
* `AllowanceNotLost`: that a grant nobody used can still be used needs that nothing
  else moves the room in the meantime, which TLC checks.

Sums over data are folds, and the library's induction theorems cannot be used
with operators.  `Coordination_proof` and `DeepSeekJobs_proof` therefore begin
with the few facts about sums they need, from the recursive function behind the
fold: it exists and is unique, by a least counterexample among the cardinalities
of the subsets (`PartialExists`, `PartialUnique`); an element can be taken out
(`TotalRemove`); and a sum is at most another one whose terms cover it
(`TotalBelow`).  They stand in both modules, as neither extends the other.

## Findings

Each is a place where the code and a document disagree.  Two have a run.

* `ModelTransition_standing` / `PendingAlwaysClosable` —
  `docs/guides/engineering-model-transition.md:280-283` says that while a
  transition is pending other mutations are blocked, and that it is closed by
  commit or by abandonment.  The standing policy
  (`ao_engineering_policy.py:202-216`, run before each engineer send) saves its
  deferral into `state.json` all the same; the intent's evidence holds the digest
  of that file, so afterwards neither commit nor abandonment accepts it.
* `Coordination_evidence` / `EngineeredSinceAdmission` —
  `docs/guides/two-room-coordination.md:46` says that work of a reused room from
  before the admission never stands in for work under the new assignment.
  `ao_coordination.py:637` asks this of the latest engineering request, open or
  not: a candidate engineered before the admission is handed back as soon as a
  correction has merely been sent.

Without a run (each is a hazard with a note in `PROJECT.json`, or part of a
hazard):

* A — `ao_executable_binding.py:311`: a repair whose intent is saved is stranded
  by a new specification, since room mutations do not ask its journal.
  `docs/guides/one-charter-review-extension.md:62-64` has only the review extension
  ask it.
* B — the same write of the standing policy against
  `ao_project_room.py:638-639`, "Every room mutation must preserve the exact state
  needed to reconcile an unfinished routing refresh".
* C — `ao_mcp_attachment.py:497`: a starting wrapper probes the lock of a crashed
  connection and holds it for a moment; a validator in that moment takes the
  dead connection's receipt for a live one
  (`docs/operations/provider-transition.md:196`).
* D — `project_room.py:1850`: a review whose reply failed only the verification of
  its producer stays failed, and when the engine's turn is reconciled later there is
  agreement although its findings never became issues.  `:1556` says that every
  finding needs a disposition before handoff, and so does
  `docs/guides/roles-and-delegation.md:14`.
* E — `ao_project_room.py:243-250`: the docstring of `sent_message` calls what it
  returns the one user message the request delivered, and
  `skills/project-room/references/ao.md:714-717` the exact sent message.  It compares
  texts after the baseline: while a delivery is late or lost, a human who types the
  same bytes gives the request a turn of their own.  `DeliveredMessage` is what the
  docstring says; it is false with such a human and proved without
  (`DeliveredWithoutCopies`).
* The docstring of `lock_holders` says a record whose lock can be claimed is
  stale and *never reported as current*.  While one diagnosis holds the flock of
  a dead writer's record as a probe, a second one finds it locked and reports it
  as a verified holder: a misleading diagnosis, not a wrong lock.
* `lifecycle-contract.md` says a completed engineering turn *also carries* an
  `engineering_record` or an `engineering_error`.  The completed state is saved
  before the capture; after a crash in between every later sync takes the branch
  of an already completed request, which does not capture.  The room needs
  another turn.

## Not modelled

* Content: prompts, report schemas, findings, receipts' fields, change-set
  operations and formats, extended attributes.  A result or a file matches or it
  does not.
* Reading of native transcripts and process identities: their verdicts are inputs.
* What the module sections above leave out of their component.
* Projections, audits of usage and timing, the routing guard's other denials,
  MCP transport, runtime pinning, AO patches, evaluation fixtures: no protocol
  of their own.
* Power loss: files written with `write_once_at` and `durability_sync` are taken
  to be on disk when the call returns.

## Plan

Done: all modules of the table, with proofs for the components named under
[proofs](#proofs).  What is left is the inspection of quotas in the routing guard,
and the projections whose staleness an operator acts on.
