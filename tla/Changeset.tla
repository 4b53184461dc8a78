------------------------------ MODULE Changeset ------------------------------
(***************************************************************************)
(* The journalled application of change-set plans to the files of one      *)
(* workspace (changeset_journal.py): apply_plan and resume_plan under the  *)
(* workspace lock, their staging, prepared journal, renames, records and   *)
(* completion, with crashes between any two of them and with writers that  *)
(* ignore the lock.                                                        *)
(*                                                                         *)
(* A file is its inode and its content, which also stands for its          *)
(* metadata.  Calls that only report (a busy lock, a refused begin, an     *)
(* audit, the replay of a completed plan) change nothing and are stutters. *)
(* A resume needs the digest of an audit equal to the one it makes itself; *)
(* an operator can always obtain it by auditing just before.               *)
(***************************************************************************)
EXTENDS Naturals, Sequences, FiniteSets

CONSTANTS Procs,        \* invocations of the tool
          Plans,
          Files,        \* workspace files, numbered in envelope order
          Contents,     \* what a file may hold
          Original,     \* what every file holds at first
          Alien,        \* what no plan writes or expects
          Proposed,     \* per plan: its targets and what it makes of them
          Inodes,       \* bound: inode numbers; the number of a removed file is used again
          Intents,      \* bound: identities of stage files
          Attempts,     \* bound: identities of applications
          MAX_RECORDS,
          MAX_SCRATCH,
          MaxCrashes,   \* bound: invocations that die
          MaxForeign,   \* bound: writes that ignore the lock
          None

ASSUME ConstantsAssumption ==
    /\ Files \subseteq Nat /\ IsFiniteSet(Files)
    /\ Files \subseteq Inodes
    /\ Intents \cup Attempts \subseteq Nat
    /\ {Original, Alien} \subseteq Contents
    /\ Proposed \in [Plans -> UNION {[S -> Contents \ {Alien}] : S \in SUBSET Files}]
    /\ Cardinality(Files) <= MAX_RECORDS   \* MAX_TARGETS < MAX_RECORDS
    /\ {MAX_RECORDS, MAX_SCRATCH, MaxCrashes, MaxForeign} \subseteq Nat
    /\ None \notin Inodes \cup Intents \cup Attempts \cup Procs
    /\ None \notin [ino : Inodes, data : Contents]
    /\ None \notin [ino : Inodes, data : {"partial", "ready", "junk"}]

VARIABLES
    file,      \* the workspace: inode and content, None if missing
    plan,      \* plans/<sha>.json: the pinned source of each target, None before plan
    scratch,   \* per intent: its records and its stage file, None if unused
    journal,   \* journals/<sha>/: prepared.json, outcomes/, completion.json
    lock,      \* the holder of the workspace's exclusive lock
    op,        \* where each invocation is
    pinned,    \* whether inputs, drafts and receipt are those of the plans
    swapped,   \* history: the renames [plan, file, over, raced]
    raced,     \* history: a foreign write came after the last check before a rename
    crashes,
    foreign

stores == <<plan, scratch, journal>>
bounds == <<crashes, foreign>>
vars == <<file, plan, scratch, journal, lock, op, pinned, swapped, raced, crashes, foreign>>

Idle == [step |-> "idle"]

Init ==
    /\ file = [f \in Files |-> [ino |-> f, data |-> Original]]
    /\ plan = [p \in Plans |-> None]
    /\ scratch = [i \in Intents |-> None]
    /\ journal = [p \in Plans |-> None]
    /\ lock = None
    /\ op = [c \in Procs |-> Idle]
    /\ pinned = TRUE
    /\ swapped = <<>>
    /\ raced = FALSE
    /\ crashes = 0
    /\ foreign = 0

-----------------------------------------------------------------------------
(***************************************************************************)
(* Reading the stores and the workspace.                                   *)
(***************************************************************************)
Targets(p) == DOMAIN Proposed[p]
Changed(p) == {f \in Targets(p) : plan[p][f].data # Proposed[p][f]}
First(S) == CHOOSE f \in S : \A g \in S : f <= g

Staged(q) == {i \in Intents : scratch[i] # None /\ scratch[i].plan = q}
StageFiles == {i \in Intents : scratch[i] # None /\ scratch[i].sfile # None}
LiveInodes ==
    {file[f].ino : f \in {g \in Files : file[g] # None}}
    \cup {scratch[i].sfile.ino : i \in StageFiles}
    \cup {op[c].ino : c \in {d \in Procs : op[d] # Idle}}

\* Nonces are unique and nothing depends on their value: the unused ones are
\* taken in order.
Unused(S, used, n) == n \in S \ used /\ \A m \in S \ used : n <= m

\* bounded_names of a plan's scratch directory: an intent and an owner each.
names(p) ==
    Cardinality(Staged(p)) + Cardinality({i \in Staged(p) : scratch[i].owner # None})

\* The stage of a target after the first n records.
StageOf(j, f, n) ==
    LET repairs == {k \in 1..n : j.records[k].kind = "stage" /\ j.records[k].file = f}
    IN  IF repairs = {} THEN j.prepared[f]
        ELSE j.records[CHOOSE k \in repairs : \A m \in repairs : m <= k].intent

Entry(p, f) == StageOf(journal[p], f, Len(journal[p].records))

\* read_chain accepts the records in their order.
Accepted(j) ==
    \A k \in DOMAIN j.records :
        LET r == j.records[k] IN
        /\ \A m \in 1..(k - 1) : j.records[m].kind = "replace" => j.records[m].file # r.file
        /\ r.kind = "replace" => r.intent = StageOf(j, r.file, k - 1)

Open(p) == journal[p] # None /\ ~journal[p].done

\* _verify_original: the pinned bytes on the pinned inode.
original(p, f) == file[f] # None /\ file[f] = plan[p][f]

after(p, f, i) ==
    /\ file[f] # None
    /\ file[f].data = Proposed[p][f]
    /\ file[f].ino = scratch[i].owner
    /\ file[f].ino # plan[p][f].ino

stage_state(i) ==
    LET s == scratch[i] IN
    IF s.sfile = None THEN "missing"
    ELSE IF s.sfile.ino # s.owner \/ s.sfile.data = "junk" THEN "unsafe"
    ELSE s.sfile.data

\* Mutated form: the target is not looked at again.
Ready_stage_only(p, f, i) == i # None => stage_state(i) = "ready"

Ready(p, f, i) == original(p, f) /\ (i # None => stage_state(i) = "ready")

\* Mutated form: a rename without its record is not recognised.
ValidTarget_recorded(p, f) ==
    LET i == Entry(p, f) IN
    \/ original(p, f) /\ (i # None => stage_state(i) \in {"ready", "partial"})
    \/ /\ i # None /\ after(p, f, i) /\ stage_state(i) = "missing"
       /\ \E k \in DOMAIN journal[p].records :
             journal[p].records[k].kind = "replace" /\ journal[p].records[k].file = f

\* _audit_chain
ValidTarget(p, f) ==
    LET i == Entry(p, f) IN
    \/ original(p, f) /\ (i # None => stage_state(i) \in {"ready", "partial"})
    \/ i # None /\ after(p, f, i) /\ stage_state(i) = "missing"

Leftovers(p) ==
    {i \in Staged(p) : scratch[i].sfile # None /\ \A f \in Targets(p) : Entry(p, f) # i}

eligible(p) ==
    /\ pinned
    /\ \A f \in Targets(p) : ValidTarget(p, f)
    /\ \A i \in Leftovers(p) : scratch[i].attempt = journal[p].attempt =>
          scratch[i].owner # None /\ stage_state(i) \in {"ready", "partial"}

-----------------------------------------------------------------------------
(***************************************************************************)
(* Building a plan: no lock, the workspace is only read.                   *)
(***************************************************************************)
BuildPlan(p) ==
    /\ plan[p] = None
    /\ \A f \in Targets(p) : file[f] # None
    /\ plan' = [plan EXCEPT ![p] = [f \in Targets(p) |-> file[f]]]
    /\ UNCHANGED <<file, scratch, journal, lock, op, pinned, swapped, raced, bounds>>

(***************************************************************************)
(* apply_plan and resume_plan up to their first write.                     *)
(***************************************************************************)
\* Mutated form: an open journal of another plan does not matter.
Admissible_any_journal(p) == lock = None /\ plan[p] # None /\ pinned

Admissible(p) ==
    /\ lock = None
    /\ plan[p] # None
    /\ pinned
    /\ \A q \in Plans : journal[q] # None => Accepted(journal[q])
    /\ \A q \in Plans \ {p} : ~Open(q)

AfterStaging(kind, todo) ==
    IF todo # {} THEN "stage" ELSE IF kind = "apply" THEN "prepare" ELSE "recheck"

Begin(c, p, kind, attempt, todo, work, staged) ==
    /\ lock' = c
    /\ op' = [op EXCEPT ![c] =
                 [step |-> AfterStaging(kind, todo), kind |-> kind, plan |-> p,
                  attempt |-> attempt, todo |-> todo, work |-> work, staged |-> staged,
                  id |-> None, ino |-> None]]
    /\ UNCHANGED <<file, stores, pinned, swapped, raced, bounds>>

ApplyBegin(c, p, a) ==
    /\ Admissible(p)
    /\ journal[p] = None
    /\ \A f \in Targets(p) : original(p, f)
    /\ names(p) + 2 * Cardinality(Changed(p)) <= 2 * MAX_SCRATCH
    /\ Unused(Attempts, {scratch[i].attempt : i \in {k \in Intents : scratch[k] # None}}
                         \cup {journal[q].attempt : q \in {r \in Plans : journal[r] # None}}, a)
    /\ Begin(c, p, "apply", a, Changed(p), Changed(p), [f \in Targets(p) |-> None])

ResumeBegin(c, p) ==
    /\ Admissible(p)
    /\ Open(p)
    /\ eligible(p)
    /\ LET work == {f \in Changed(p) : original(p, f)}
           repairs == {f \in work : stage_state(Entry(p, f)) = "partial"}
       IN  /\ Len(journal[p].records) + Cardinality(work) + Cardinality(repairs) <= MAX_RECORDS
           /\ names(p) + 2 * Cardinality(repairs) <= 2 * MAX_SCRATCH
           /\ Begin(c, p, "resume", journal[p].attempt, repairs, work,
                    [f \in Targets(p) |-> Entry(p, f)])

-----------------------------------------------------------------------------
(***************************************************************************)
(* The steps of an application.  Every check that fails ends it (Refuse).  *)
(***************************************************************************)
At(c, step) == op[c].step = step

\* The checks of each step, in one place: Refuse needs their negation.
Passes(c) ==
    LET o == op[c]  p == o.plan IN
    CASE o.step = "stage" ->
            /\ o.kind = "apply" => original(p, First(o.todo))
            /\ names(p) < 2 * MAX_SCRATCH
      [] o.step = "write" -> scratch[o.id].sfile # [ino |-> o.ino, data |-> "junk"]
      [] o.step \in {"repaired", "replaced"} ->
            /\ Accepted(journal[p])
            /\ Len(journal[p].records) < MAX_RECORDS
            /\ o.step = "replaced" =>
                  after(p, First(o.work), o.staged[First(o.work)])
      [] o.step \in {"prepare", "recheck"} ->
            /\ pinned
            /\ \A f \in IF o.kind = "apply" THEN Targets(p) ELSE o.work :
                  Ready(p, f, o.staged[f])
      [] o.step = "rename" -> Ready(p, First(o.work), o.staged[First(o.work)])
      [] o.step = "swap" -> scratch[o.staged[First(o.work)]].sfile # None
      [] o.step = "verify" ->
            /\ \A f \in Targets(p) :
                  IF f \in Changed(p) THEN after(p, f, Entry(p, f)) ELSE original(p, f)
            /\ pinned
      [] OTHER -> TRUE

\* Mutated form: a lock that outlives its holder.
Stop_locked(c) == UNCHANGED lock /\ op' = [op EXCEPT ![c] = Idle]

Stop(c) == lock' = None /\ op' = [op EXCEPT ![c] = Idle]

Refuse(c) ==
    /\ op[c] # Idle
    /\ ~Passes(c)
    /\ Stop(c)
    /\ UNCHANGED <<file, stores, pinned, swapped, raced, bounds>>

\* _stage_target: the intent, the stage file, its owner record, its bytes.
StageIntent(c, i) ==
    /\ At(c, "stage") /\ Passes(c)
    /\ Unused(Intents, {k \in Intents : scratch[k] # None}, i)
    /\ scratch' = [scratch EXCEPT ![i] =
                      [plan |-> op[c].plan, attempt |-> op[c].attempt, file |-> First(op[c].todo),
                       owner |-> None, sfile |-> None]]
    /\ op' = [op EXCEPT ![c].step = "create", ![c].id = i]
    /\ UNCHANGED <<file, plan, journal, lock, pinned, swapped, raced, bounds>>

StageCreate(c, n) ==
    /\ At(c, "create")
    /\ n \in Inodes \ LiveInodes
    /\ scratch' = [scratch EXCEPT ![op[c].id].sfile = [ino |-> n, data |-> "partial"]]
    /\ op' = [op EXCEPT ![c].step = "own", ![c].ino = n]
    /\ UNCHANGED <<file, plan, journal, lock, pinned, swapped, raced, bounds>>

StageOwner(c) ==
    /\ At(c, "own")
    /\ scratch' = [scratch EXCEPT ![op[c].id].owner = op[c].ino]
    /\ op' = [op EXCEPT ![c].step = "write"]
    /\ UNCHANGED <<file, plan, journal, lock, pinned, swapped, raced, bounds>>

\* The open descriptor is written, wherever the path leads by now.
StageWrite(c) ==
    LET i == op[c].id  f == First(op[c].todo)  rest == op[c].todo \ {f} IN
    /\ At(c, "write") /\ Passes(c)
    /\ scratch' = IF stage_state(i) = "partial"
                  THEN [scratch EXCEPT ![i].sfile.data = "ready"] ELSE scratch
    /\ op' = [op EXCEPT ![c] =
                 [op[c] EXCEPT !.step = IF op[c].kind = "resume" THEN "repaired"
                                        ELSE AfterStaging("apply", rest),
                               !.todo = IF op[c].kind = "resume" THEN op[c].todo ELSE rest,
                               !.staged = [op[c].staged EXCEPT ![f] = i],
                               !.id = None, !.ino = None]]
    /\ UNCHANGED <<file, plan, journal, lock, pinned, swapped, raced, bounds>>

\* A resume records the new stage before it goes on.
RepairRecord(c) ==
    LET o == op[c]  f == First(o.todo)  rest == o.todo \ {f} IN
    /\ At(c, "repaired") /\ Passes(c)
    /\ journal' = [journal EXCEPT ![o.plan].records =
                      Append(@, [kind |-> "stage", file |-> f, intent |-> o.staged[f]])]
    /\ op' = [op EXCEPT ![c].step = AfterStaging("resume", rest), ![c].todo = rest]
    /\ UNCHANGED <<file, plan, scratch, lock, pinned, swapped, raced, bounds>>

\* write_prepared: the commit point.
Prepare(c) ==
    LET o == op[c] IN
    /\ At(c, "prepare") /\ Passes(c)
    /\ journal' = [journal EXCEPT ![o.plan] =
                      [attempt |-> o.attempt, prepared |-> o.staged, records |-> <<>>, done |-> FALSE]]
    /\ op' = [op EXCEPT ![c].step = "recheck"]
    /\ UNCHANGED <<file, plan, scratch, lock, pinned, swapped, raced, bounds>>

NextTarget(work) == IF work = {} THEN "verify" ELSE "rename"

Recheck(c) ==
    /\ At(c, "recheck") /\ Passes(c)
    /\ op' = [op EXCEPT ![c].step = NextTarget(op[c].work)]
    /\ UNCHANGED <<file, stores, lock, pinned, swapped, raced, bounds>>

\* _rename_target: the last check of source and stage, then the rename.
CheckTarget(c) ==
    /\ At(c, "rename") /\ Passes(c)
    /\ op' = [op EXCEPT ![c].step = "swap"]
    /\ raced' = FALSE
    /\ UNCHANGED <<file, stores, lock, pinned, swapped, bounds>>

Swap(c) ==
    LET o == op[c]  f == First(o.work)  i == o.staged[f] IN
    /\ At(c, "swap") /\ Passes(c)
    /\ file' = [file EXCEPT ![f] =
                   [ino |-> scratch[i].sfile.ino,
                    data |-> IF scratch[i].sfile.data = "ready" THEN Proposed[o.plan][f] ELSE Alien]]
    /\ scratch' = [scratch EXCEPT ![i].sfile = None]
    /\ swapped' = Append(swapped, [plan |-> o.plan, file |-> f, over |-> file[f], raced |-> raced])
    /\ op' = [op EXCEPT ![c].step = "replaced"]
    /\ UNCHANGED <<plan, journal, lock, pinned, raced, bounds>>

\* The rename is verified, then recorded.
RecordReplacement(c) ==
    LET o == op[c]  f == First(o.work)  rest == o.work \ {f} IN
    /\ At(c, "replaced") /\ Passes(c)
    /\ journal' = [journal EXCEPT ![o.plan].records =
                      Append(@, [kind |-> "replace", file |-> f, intent |-> o.staged[f]])]
    /\ op' = [op EXCEPT ![c].step = NextTarget(rest), ![c].work = rest]
    /\ UNCHANGED <<file, plan, scratch, lock, pinned, swapped, raced, bounds>>

VerifyCompletion(c) ==
    /\ At(c, "verify") /\ Passes(c)
    /\ op' = [op EXCEPT ![c].step = "complete"]
    /\ UNCHANGED <<file, stores, lock, pinned, swapped, raced, bounds>>

WriteCompletion(c) ==
    /\ At(c, "complete")
    /\ journal' = [journal EXCEPT ![op[c].plan].done = TRUE]
    /\ Stop(c)
    /\ UNCHANGED <<file, plan, scratch, pinned, swapped, raced, bounds>>

\* The invocation dies; the kernel releases its lock.
Crash(c) ==
    /\ op[c] # Idle
    /\ crashes < MaxCrashes
    /\ crashes' = crashes + 1
    /\ Stop(c)
    /\ UNCHANGED <<file, stores, pinned, swapped, raced, foreign>>

-----------------------------------------------------------------------------
(***************************************************************************)
(* Writers that ignore the lock (external)                                 *)
(***************************************************************************)
ForeignWrite ==
    /\ foreign < MaxForeign
    /\ foreign' = foreign + 1
    /\ UNCHANGED <<plan, journal, lock, op, swapped, crashes>>

\* A target is rewritten in place, replaced or removed.
EditTarget(f, v) ==
    /\ ForeignWrite
    /\ v # file[f]
    /\ v # None => v.ino \notin LiveInodes \ (IF file[f] = None THEN {} ELSE {file[f].ino})
    /\ file' = [file EXCEPT ![f] = v]
    /\ raced' = (raced \/ \E c \in Procs : At(c, "swap") /\ First(op[c].work) = f)
    /\ UNCHANGED <<scratch, pinned>>

\* A stage file loses its tail, is overwritten or removed.
EditStage(i, d) ==
    /\ ForeignWrite
    /\ i \in StageFiles
    /\ scratch' = [scratch EXCEPT ![i].sfile = IF d = "gone" THEN None ELSE [@ EXCEPT !.data = d]]
    /\ UNCHANGED <<file, pinned, raced>>

\* An input, a draft or the receipt is changed, or put back.
EditInputs ==
    /\ ForeignWrite
    /\ pinned' = ~pinned
    /\ UNCHANGED <<file, scratch, raced>>

-----------------------------------------------------------------------------
Apply(c) ==
    \/ \E p \in Plans, a \in Attempts : ApplyBegin(c, p, a)
    \/ \E p \in Plans : ResumeBegin(c, p)

Work(c) ==
    \/ \E i \in Intents : StageIntent(c, i)
    \/ \E n \in Inodes : StageCreate(c, n)
    \/ StageOwner(c) \/ StageWrite(c) \/ RepairRecord(c) \/ Prepare(c) \/ Recheck(c)
    \/ CheckTarget(c) \/ Swap(c) \/ RecordReplacement(c)
    \/ VerifyCompletion(c) \/ WriteCompletion(c) \/ Refuse(c)

Next ==
    \/ \E p \in Plans : BuildPlan(p)
    \/ \E c \in Procs : Apply(c) \/ Work(c) \/ Crash(c)
    \/ \E f \in Files, v \in [ino : Inodes, data : Contents] \cup {None} : EditTarget(f, v)
    \/ \E i \in Intents, d \in {"partial", "junk", "gone"} : EditStage(i, d)
    \/ EditInputs

Spec == Init /\ [][Next]_vars

\* An invocation that runs goes on, and the operator resumes what is open.
FairSpec ==
    /\ Spec
    /\ \A c \in Procs : WF_vars(Work(c))
    /\ \A p \in Plans : WF_vars(\E c \in Procs : ResumeBegin(c, p))

-----------------------------------------------------------------------------
FileRecord == [ino : Inodes, data : Contents]
PlanRecord == UNION {[S -> FileRecord] : S \in SUBSET Files}
Fates == Intents \cup {None}
Running ==
    [step : {"stage", "create", "own", "write", "repaired", "prepare", "recheck", "rename", "swap",
             "replaced", "verify", "complete"},
     kind : {"apply", "resume"}, plan : Plans, attempt : Attempts, todo : SUBSET Files,
     work : SUBSET Files, staged : UNION {[S -> Fates] : S \in SUBSET Files},
     id : Fates, ino : Inodes \cup {None}]
JournalRecord ==
    [attempt : Attempts, prepared : UNION {[S -> Fates] : S \in SUBSET Files},
     records : Seq([kind : {"stage", "replace"}, file : Files, intent : Intents]), done : BOOLEAN]
ScratchRecord ==
    [plan : Plans, attempt : Attempts, file : Files, owner : Inodes \cup {None},
     sfile : [ino : Inodes, data : {"partial", "ready", "junk"}] \cup {None}]

ASSUME NoneAssumption ==
    /\ None \notin ScratchRecord
    /\ None \notin JournalRecord
    /\ None \notin PlanRecord

\* Every variable keeps its shape.
TypeOK ==
    /\ file \in [Files -> FileRecord \cup {None}]
    /\ plan \in [Plans -> PlanRecord \cup {None}]
    /\ scratch \in [Intents -> ScratchRecord \cup {None}]
    /\ journal \in [Plans -> JournalRecord \cup {None}]
    /\ lock \in Procs \cup {None}
    /\ op \in [Procs -> Running \cup {Idle}]
    /\ pinned \in BOOLEAN
    /\ swapped \in Seq([plan : Plans, file : Files, over : FileRecord \cup {None}, raced : BOOLEAN])
    /\ raced \in BOOLEAN
    /\ crashes \in Nat /\ foreign \in Nat

\* At most one batch of the workspace is committed and not completed: an open
\* batch never meets the writes of another.
OneOpenJournal == \A p, q \in Plans : Open(p) /\ Open(q) => p = q

\* Without a foreign write, every crash, wherever it falls, leaves an open
\* batch that audit finds eligible for resume: each target is exactly before,
\* with its stage, or exactly after.
Resumable == foreign = 0 /\ lock = None => \A p \in Plans : Open(p) => eligible(p)

\* A rename only ever discards the exact file the plan was built on, except
\* for a foreign write between the last check and the rename.
OverwritesOnlyInWindow ==
    \A k \in DOMAIN swapped :
        swapped[k].raced \/ swapped[k].over = plan[swapped[k].plan][swapped[k].file]

\* Without foreign writes the tool keeps the promise of ChangesetBatch.
ReplacedBy(p) == {swapped[k].file : k \in {m \in DOMAIN swapped : swapped[m].plan = p}}
Batch == INSTANCE ChangesetBatch WITH
    phase <- [p \in Plans |-> IF journal[p] = None THEN "idle"
                              ELSE IF journal[p].done THEN "done" ELSE "open"],
    pending <- [p \in Plans |-> IF journal[p] = None THEN {} ELSE Changed(p) \ ReplacedBy(p)]
ImplementsBatch == Batch!Spec

\* As long as somebody resumes it and crashes end, a committed batch is
\* completed.
BatchCompletes == \A p \in Plans : Open(p) ~> ~Open(p)
===============================================================================
