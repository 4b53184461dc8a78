--------------------------- MODULE Changeset_proof ---------------------------
(***************************************************************************)
(* Proofs about Changeset, for any plans, files, bounds and invocations.   *)
(***************************************************************************)
EXTENDS Changeset, TLAPS, WellFoundedInduction

\* A stage file identity that has an intent on disk.
Used(i) == i \in Intents /\ scratch[i] # None

\* Which fields of a running invocation are meaningful at which step.
OpShape(o) ==
    /\ plan[o.plan] # None
    /\ DOMAIN o.staged = Targets(o.plan)
    /\ o.todo \subseteq o.work
    /\ o.work \subseteq Changed(o.plan)
    /\ \A f \in o.work : (o.kind = "resume" \/ f \notin o.todo) => Used(o.staged[f])
    /\ o.step \in {"stage", "create", "own", "write", "repaired"} <=> o.todo # {}
    /\ o.step \in {"rename", "swap", "replaced"} => o.work # {}
    /\ o.step \in {"create", "own", "write"} => Used(o.id)
    /\ o.step \in {"own", "write"} => o.ino \in Inodes
    /\ o.step = "repaired" => o.kind = "resume"
    /\ o.step = "prepare" => o.kind = "apply"
    /\ (o.kind = "apply" /\ o.step \in {"stage", "create", "own", "write", "prepare"})
          => o.work = Changed(o.plan)

JournalShape(p) ==
    /\ plan[p] # None
    /\ DOMAIN journal[p].prepared = Targets(p)
    /\ \A f \in Changed(p) : Used(journal[p].prepared[f])
    /\ \A k \in DOMAIN journal[p].records : Used(journal[p].records[k].intent)

ShapeInv ==
    /\ \A p \in Plans : plan[p] # None => DOMAIN plan[p] = Targets(p)
    /\ \A p \in Plans : journal[p] # None => JournalShape(p)
    /\ \A c \in Procs : op[c] # Idle => OpShape(op[c])

\* The lock is held by whoever works, no other batch is open meanwhile, and
\* the journal of the batch is open from the commit point on.
PhaseInv ==
    \A c \in Procs : op[c] # Idle =>
        LET o == op[c] IN
        /\ lock = c
        /\ \A q \in Plans \ {o.plan} : ~Open(q)
        /\ IF o.kind = "apply" /\ o.step \in {"stage", "create", "own", "write", "prepare"}
           THEN journal[o.plan] = None ELSE Open(o.plan)

IInv == TypeOK /\ ShapeInv /\ PhaseInv /\ OneOpenJournal

-----------------------------------------------------------------------------
\* A nonempty set of files has a first one.
LEMMA FirstIn ==
    ASSUME NEW S \in SUBSET Files, S # {}
    PROVE  First(S) \in S
<1> DEFINE R == {ss \in Nat \X Nat : ss[1] < ss[2]}
<1>1. S \subseteq Nat
  BY ConstantsAssumption
<1>2. IsWellFoundedOn(R, Nat)
  BY NatLessThanWellFounded DEF OpToRel
<1> HIDE DEF R
<1>3. PICK f \in S : \A g \in S : ~(<<g, f>> \in R)
  BY <1>1, <1>2, WFMin
<1>4. \A g \in S : f <= g
  <2> SUFFICES ASSUME NEW g \in S PROVE f <= g
    OBVIOUS
  <2>1. f \in Nat /\ g \in Nat
    BY <1>1
  <2>2. ~(g < f)
    BY <1>3, <2>1 DEF R
  <2> QED BY <2>1, <2>2
<1> QED BY <1>4 DEF First

\* The targets of a plan are files, and what it makes of them is their content.
LEMMA TargetFiles ==
    ASSUME NEW p \in Plans
    PROVE  /\ Targets(p) \in SUBSET Files
           /\ \A f \in Targets(p) : Proposed[p][f] \in Contents
<1>1. PICK S \in SUBSET Files : Proposed[p] \in [S -> Contents \ {Alien}]
  BY ConstantsAssumption
<1> QED BY <1>1 DEF Targets

\* An invocation that is not idle is a running one.
LEMMA RunningOp ==
    ASSUME TypeOK, ShapeInv, NEW c \in Procs, op[c] # Idle
    PROVE  /\ op[c] \in Running /\ OpShape(op[c])
           /\ op[c].plan \in Plans
           /\ op[c].todo \subseteq Files /\ op[c].work \subseteq Files
           /\ op[c].todo # {} => First(op[c].todo) \in op[c].todo
           /\ op[c].work # {} => First(op[c].work) \in op[c].work
<1>1. op[c] \in Running /\ OpShape(op[c])
  BY DEF TypeOK, ShapeInv
<1>2. op[c].todo \subseteq Files /\ op[c].work \subseteq Files /\ op[c].plan \in Plans
  BY <1>1 DEF Running
<1> QED BY <1>1, <1>2, FirstIn

\* What a sequence holds is of its kind.
LEMMA ElementOfSeq ==
    ASSUME NEW S, NEW s \in Seq(S), NEW k \in 1..Len(s)
    PROVE  s[k] \in S
  OBVIOUS

\* The stage of a target, however often it was repaired.
LEMMA EntryType ==
    ASSUME TypeOK, ShapeInv, NEW p \in Plans, journal[p] # None, NEW f \in Targets(p)
    PROVE  /\ Entry(p, f) \in Fates
           /\ f \in Changed(p) => Used(Entry(p, f))
<1> DEFINE j == journal[p]
           n == Len(j.records)
           repairs == {k \in 1..n : j.records[k].kind = "stage" /\ j.records[k].file = f}
<1>1. j \in JournalRecord /\ JournalShape(p)
  BY DEF TypeOK, ShapeInv
<1>2. n \in Nat /\ DOMAIN j.records = 1..n
        /\ \A k \in 1..n : j.records[k].intent \in Intents
  <2>1. j.records \in Seq([kind : {"stage", "replace"}, file : Files, intent : Intents])
    BY <1>1 DEF JournalRecord
  <2>2. n \in Nat /\ DOMAIN j.records = 1..n
    BY <2>1
  <2>3. ASSUME NEW k \in 1..n PROVE j.records[k].intent \in Intents
    <3>1. j.records[k] \in [kind : {"stage", "replace"}, file : Files, intent : Intents]
      BY <2>1, <2>2, ElementOfSeq
    <3> QED BY <3>1
  <2> QED BY <2>2, <2>3
<1>3. CASE repairs = {}
  <2>1. Entry(p, f) = j.prepared[f]
    BY <1>3 DEF Entry, StageOf
  <2>2. PICK S \in SUBSET Files : j.prepared \in [S -> Fates]
    BY <1>1 DEF JournalRecord
  <2>3. j.prepared[f] \in Fates
    BY <1>1, <2>2 DEF JournalShape
  <2> QED BY <1>1, <2>1, <2>3 DEF JournalShape
<1>4. CASE repairs # {}
  <2> DEFINE R == {ss \in Nat \X Nat : ss[1] < ss[2]}
             T == {n - k : k \in repairs}
  <2>1. IsWellFoundedOn(R, Nat)
    BY NatLessThanWellFounded DEF OpToRel
  <2>2. T \subseteq Nat /\ T # {}
    <3>1. \A k \in repairs : n - k \in Nat
      BY <1>2
    <3>2. PICK k \in repairs : TRUE
      BY <1>4
    <3> HIDE DEF n, repairs
    <3>3. n - k \in T
      OBVIOUS
    <3> QED BY <3>1, <3>3
  <2> HIDE DEF R
  <2>3. PICK t \in T : \A y \in T : ~(<<y, t>> \in R)
    BY <2>1, <2>2, WFMin
  <2>4. PICK k \in repairs : t = n - k
    OBVIOUS
  <2>5. \A m \in repairs : m <= k
    <3> SUFFICES ASSUME NEW m \in repairs PROVE m <= k
      OBVIOUS
    <3>1. n - m \in Nat /\ n - k \in Nat /\ m \in Nat /\ k \in Nat
      BY <1>2
    <3>2. ~(n - m < n - k)
      BY <2>3, <2>4, <3>1 DEF R
    <3> QED BY <1>2, <3>1, <3>2
  <2>6. \E x \in repairs : \A m \in repairs : m <= x
    BY <2>5
  <2>7. PICK x \in repairs : Entry(p, f) = j.records[x].intent
    BY <1>4, <2>6 DEF Entry, StageOf
  <2> QED BY <1>1, <1>2, <2>7 DEF JournalShape, Fates
<1> QED BY <1>3, <1>4

\* From its commit on, and in a resume, the journal of the batch at work is open.
LEMMA OpenAtWork ==
    ASSUME TypeOK, ShapeInv, PhaseInv, NEW c \in Procs, op[c] # Idle,
           op[c].step \in {"repaired", "recheck", "rename", "swap", "replaced", "verify", "complete"}
    PROVE  /\ Open(op[c].plan)
           /\ journal[op[c].plan] \in JournalRecord
           /\ JournalShape(op[c].plan)
<1>1. op[c].plan \in Plans /\ OpShape(op[c])
  BY RunningOp
<1>2. Open(op[c].plan)
  BY <1>1 DEF PhaseInv, OpShape
<1> QED BY <1>1, <1>2 DEF Open, TypeOK, ShapeInv

\* A journal with one more record is a journal.
LEMMA AppendType ==
    ASSUME NEW j \in JournalRecord, NEW kind \in {"stage", "replace"}, NEW f \in Files,
           NEW i \in Intents
    PROVE  [j EXCEPT !.records = Append(@, [kind |-> kind, file |-> f, intent |-> i])]
              \in JournalRecord
<1> DEFINE records == j.records
           r == [kind |-> kind, file |-> f, intent |-> i]
<1>1. records \in Seq([kind : {"stage", "replace"}, file : Files, intent : Intents])
  BY DEF JournalRecord
<1>2. r \in [kind : {"stage", "replace"}, file : Files, intent : Intents]
  OBVIOUS
<1> HIDE DEF r
<1>3. Append(records, r) \in Seq([kind : {"stage", "replace"}, file : Files, intent : Intents])
  BY <1>1, <1>2
<1> HIDE DEF records
<1>4. [j EXCEPT !.records = Append(records, r)] \in JournalRecord
  BY <1>3 DEF JournalRecord
<1> QED BY <1>4 DEF r, records

\* Every step keeps the shape of the variables.
LEMMA TypeStep ==
    ASSUME TypeOK, ShapeInv, PhaseInv, [Next]_vars
    PROVE  TypeOK'
<1>1. ASSUME NEW p \in Plans, BuildPlan(p) PROVE TypeOK'
  <2>1. Targets(p) \in SUBSET Files
    BY TargetFiles
  <2>2. [f \in Targets(p) |-> file[f]] \in [Targets(p) -> FileRecord]
    BY <1>1, <2>1 DEF BuildPlan, TypeOK
  <2>3. plan' \in [Plans -> PlanRecord \cup {None}]
    <3>1. [f \in Targets(p) |-> file[f]] \in PlanRecord
      BY <2>1, <2>2 DEF PlanRecord
    <3> QED BY <1>1, <3>1 DEF BuildPlan, TypeOK
  <2> QED BY <1>1, <2>3 DEF BuildPlan, TypeOK, bounds
<1>2. ASSUME NEW c \in Procs, NEW p \in Plans, NEW kind \in {"apply", "resume"},
             NEW a \in Attempts, NEW todo \in SUBSET Files, NEW work \in SUBSET Files,
             NEW staged \in [Targets(p) -> Fates], Begin(c, p, kind, a, todo, work, staged)
      PROVE  TypeOK'
  <2>1. Targets(p) \in SUBSET Files
    BY TargetFiles
  <2>2. AfterStaging(kind, todo) \in {"stage", "prepare", "recheck"}
    BY DEF AfterStaging
  <2>3. [step |-> AfterStaging(kind, todo), kind |-> kind, plan |-> p,
         attempt |-> a, todo |-> todo, work |-> work, staged |-> staged,
         id |-> None, ino |-> None] \in Running
    BY <2>1, <2>2 DEF Running, Fates
  <2>4. op' \in [Procs -> Running \cup {Idle}]
    BY <1>2, <2>3 DEF Begin, TypeOK
  <2> QED BY <1>2, <2>4 DEF Begin, TypeOK, stores, bounds
<1>3. ASSUME NEW c \in Procs, NEW p \in Plans, NEW a \in Attempts, ApplyBegin(c, p, a) PROVE TypeOK'
  <2>1. Changed(p) \in SUBSET Files
    BY TargetFiles DEF Changed
  <2>2. [f \in Targets(p) |-> None] \in [Targets(p) -> Fates]
    BY DEF Fates
  <2> QED BY <1>2, <1>3, <2>1, <2>2 DEF ApplyBegin
<1>4. ASSUME NEW c \in Procs, NEW p \in Plans, ResumeBegin(c, p) PROVE TypeOK'
  <2> DEFINE work == {f \in Changed(p) : original(p, f)}
             repairs == {f \in work : stage_state(Entry(p, f)) = "partial"}
             staged == [f \in Targets(p) |-> Entry(p, f)]
  <2>1. work \in SUBSET Files /\ repairs \in SUBSET Files
    BY TargetFiles DEF Changed
  <2>2. journal[p] \in JournalRecord
    BY <1>4 DEF ResumeBegin, Open, TypeOK
  <2>3. journal[p].attempt \in Attempts
    BY <2>2 DEF JournalRecord
  <2>4. staged \in [Targets(p) -> Fates]
    BY <1>4, EntryType DEF ResumeBegin, Open
  <2>5. Begin(c, p, "resume", journal[p].attempt, repairs, work, staged)
    BY <1>4 DEF ResumeBegin
  <2> HIDE DEF work, repairs, staged
  <2> QED BY <1>2, <2>1, <2>3, <2>4, <2>5
<1>5. ASSUME NEW c \in Procs, NEW i \in Intents, StageIntent(c, i) PROVE TypeOK'
  <2>1. op[c] \in Running /\ op[c].todo # {}
    BY <1>5, RunningOp DEF StageIntent, At, Idle, OpShape
  <2>2. First(op[c].todo) \in Files
    BY <2>1, FirstIn DEF Running
  <2>3. op' \in [Procs -> Running \cup {Idle}]
    <3>1. [op[c] EXCEPT !.step = "create", !.id = i] \in Running
      BY <2>1 DEF Running, Fates
    <3> QED BY <1>5, <3>1 DEF TypeOK, StageIntent
  <2>4. scratch' \in [Intents -> ScratchRecord \cup {None}]
    <3>1. [plan |-> op[c].plan, attempt |-> op[c].attempt, file |-> First(op[c].todo),
           owner |-> None, sfile |-> None] \in ScratchRecord
      BY <2>1, <2>2 DEF Running, ScratchRecord
    <3> QED BY <1>5, <3>1 DEF TypeOK, StageIntent
  <2> QED BY <1>5, <2>3, <2>4 DEF TypeOK, StageIntent, bounds
<1>6. ASSUME NEW c \in Procs, NEW n \in Inodes, StageCreate(c, n) PROVE TypeOK'
  <2>1. op[c] \in Running /\ op[c].id \in Intents /\ scratch[op[c].id] # None
    BY <1>6, RunningOp DEF StageCreate, At, Idle, OpShape, Used
  <2>2. op' \in [Procs -> Running \cup {Idle}]
    <3>1. [op[c] EXCEPT !.step = "own", !.ino = n] \in Running
      BY <2>1 DEF Running
    <3> QED BY <1>6, <3>1 DEF TypeOK, StageCreate
  <2>3. scratch' \in [Intents -> ScratchRecord \cup {None}]
    <3>1. scratch[op[c].id] \in ScratchRecord
      BY <2>1 DEF TypeOK
    <3>2. [scratch[op[c].id] EXCEPT !.sfile = [ino |-> n, data |-> "partial"]] \in ScratchRecord
      BY <3>1 DEF ScratchRecord
    <3> QED BY <1>6, <3>2 DEF TypeOK, StageCreate
  <2> QED BY <1>6, <2>2, <2>3 DEF TypeOK, StageCreate, bounds
<1>7. ASSUME NEW c \in Procs, StageOwner(c) PROVE TypeOK'
  <2>1. op[c] \in Running /\ op[c].id \in Intents /\ scratch[op[c].id] # None /\ op[c].ino \in Inodes
    BY <1>7, RunningOp DEF StageOwner, At, Idle, OpShape, Used
  <2>2. op' \in [Procs -> Running \cup {Idle}]
    <3>1. [op[c] EXCEPT !.step = "write"] \in Running
      BY <2>1 DEF Running
    <3> QED BY <1>7, <3>1 DEF TypeOK, StageOwner
  <2>3. scratch' \in [Intents -> ScratchRecord \cup {None}]
    <3>1. scratch[op[c].id] \in ScratchRecord
      BY <2>1 DEF TypeOK
    <3>2. [scratch[op[c].id] EXCEPT !.owner = op[c].ino] \in ScratchRecord
      BY <2>1, <3>1 DEF ScratchRecord
    <3> QED BY <1>7, <3>2 DEF TypeOK, StageOwner
  <2> QED BY <1>7, <2>2, <2>3 DEF TypeOK, StageOwner, bounds
<1>8. ASSUME NEW c \in Procs, StageWrite(c) PROVE TypeOK'
  <2> DEFINE i == op[c].id  f == First(op[c].todo)  rest == op[c].todo \ {f}
  <2>1. /\ op[c] \in Running /\ i \in Intents /\ scratch[i] # None
        /\ f \in DOMAIN op[c].staged /\ op[c].todo \in SUBSET Files
    BY <1>8, RunningOp DEF StageWrite, At, Idle, OpShape, Used, Changed
  <2>2. op' \in [Procs -> Running \cup {Idle}]
    <3>1. PICK S \in SUBSET Files : op[c].staged \in [S -> Fates]
      BY <2>1 DEF Running
    <3>2. [op[c].staged EXCEPT ![f] = i] \in [S -> Fates]
      BY <2>1, <3>1 DEF Fates
    <3>3. AfterStaging("apply", rest) \in {"stage", "prepare", "recheck"}
      BY DEF AfterStaging
    <3> DEFINE s == IF op[c].kind = "resume" THEN "repaired" ELSE AfterStaging("apply", rest)
               t == IF op[c].kind = "resume" THEN op[c].todo ELSE rest
               st == [op[c].staged EXCEPT ![f] = i]
    <3>4. s \in {"stage", "prepare", "recheck", "repaired"} /\ t \in SUBSET Files
      BY <2>1, <3>3
    <3>5. st \in UNION {[X -> Fates] : X \in SUBSET Files}
      BY <3>1, <3>2
    <3>6. op' = [op EXCEPT ![c] = [op[c] EXCEPT !.step = s, !.todo = t, !.staged = st,
                                               !.id = None, !.ino = None]]
      BY <1>8 DEF StageWrite
    <3> HIDE DEF s, t, st
    <3>7. [op[c] EXCEPT !.step = s, !.todo = t, !.staged = st, !.id = None, !.ino = None] \in Running
      BY <2>1, <3>4, <3>5 DEF Running, Fates
    <3> QED BY <3>6, <3>7 DEF TypeOK
  <2>3. scratch' \in [Intents -> ScratchRecord \cup {None}]
    <3>1. scratch[i] \in ScratchRecord
      BY <2>1 DEF TypeOK
    <3>2. CASE stage_state(i) = "partial"
      <4>1. scratch[i].sfile # None
        BY <3>2 DEF stage_state
      <4>2. [scratch[i] EXCEPT !.sfile = [scratch[i].sfile EXCEPT !.data = "ready"]] \in ScratchRecord
        BY <3>1, <4>1 DEF ScratchRecord
      <4>3. scratch' = [scratch EXCEPT ![i] =
                          [scratch[i] EXCEPT !.sfile = [scratch[i].sfile EXCEPT !.data = "ready"]]]
        BY <1>8, <3>2 DEF StageWrite
      <4> QED BY <4>2, <4>3 DEF TypeOK
    <3>3. CASE stage_state(i) # "partial"
      BY <1>8, <3>3 DEF StageWrite, TypeOK
    <3> QED BY <3>2, <3>3
  <2> QED BY <1>8, <2>2, <2>3 DEF TypeOK, StageWrite, bounds
<1>9. ASSUME NEW c \in Procs, RepairRecord(c) PROVE TypeOK'
  <2> DEFINE f == First(op[c].todo)  rest == op[c].todo \ {f}
  <2>1. /\ op[c] \in Running /\ op[c].plan \in Plans /\ f \in Files /\ rest \in SUBSET Files
        /\ op[c].staged[f] \in Intents
    BY <1>9, RunningOp DEF RepairRecord, At, Idle, OpShape, Used
  <2>2. op' \in [Procs -> Running \cup {Idle}]
    <3>1. AfterStaging("resume", rest) \in {"stage", "recheck"}
      BY DEF AfterStaging
    <3>2. [op[c] EXCEPT !.step = AfterStaging("resume", rest), !.todo = rest] \in Running
      BY <2>1, <3>1 DEF Running
    <3> QED BY <1>9, <3>2 DEF TypeOK, RepairRecord
  <2>3. journal' \in [Plans -> JournalRecord \cup {None}]
    <3>1. journal[op[c].plan] \in JournalRecord
      BY <1>9, <2>1, OpenAtWork DEF RepairRecord, At, Idle
    <3>2. [journal[op[c].plan] EXCEPT !.records =
             Append(@, [kind |-> "stage", file |-> f, intent |-> op[c].staged[f]])] \in JournalRecord
      BY <2>1, <3>1, AppendType
    <3> QED BY <1>9, <3>2 DEF TypeOK, RepairRecord
  <2> QED BY <1>9, <2>2, <2>3 DEF TypeOK, RepairRecord, bounds
<1>10. ASSUME NEW c \in Procs, Prepare(c) PROVE TypeOK'
  <2>1. op[c] \in Running /\ op[c].plan \in Plans
    BY <1>10, RunningOp DEF Prepare, At, Idle
  <2>2. op' \in [Procs -> Running \cup {Idle}]
    <3>1. [op[c] EXCEPT !.step = "recheck"] \in Running
      BY <2>1 DEF Running
    <3> QED BY <1>10, <3>1 DEF TypeOK, Prepare
  <2>3. journal' \in [Plans -> JournalRecord \cup {None}]
    <3>1. [attempt |-> op[c].attempt, prepared |-> op[c].staged, records |-> <<>>, done |-> FALSE]
             \in JournalRecord
      BY <2>1 DEF JournalRecord, Running
    <3> QED BY <1>10, <3>1 DEF TypeOK, Prepare
  <2> QED BY <1>10, <2>2, <2>3 DEF TypeOK, Prepare, bounds
<1>11. ASSUME NEW c \in Procs, Recheck(c) PROVE TypeOK'
  <2>1. op[c] \in Running
    BY <1>11, RunningOp DEF Recheck, At, Idle
  <2>2. [op[c] EXCEPT !.step = NextTarget(op[c].work)] \in Running
    BY <2>1 DEF Running, NextTarget
  <2> QED BY <1>11, <2>2 DEF TypeOK, Recheck, stores, bounds
<1>12. ASSUME NEW c \in Procs, CheckTarget(c) PROVE TypeOK'
  <2>1. op[c] \in Running
    BY <1>12, RunningOp DEF CheckTarget, At, Idle
  <2>2. [op[c] EXCEPT !.step = "swap"] \in Running
    BY <2>1 DEF Running
  <2> QED BY <1>12, <2>2 DEF TypeOK, CheckTarget, stores, bounds
<1>13. ASSUME NEW c \in Procs, Swap(c) PROVE TypeOK'
  <2> DEFINE f == First(op[c].work)  i == op[c].staged[f]
  <2>1. /\ op[c] \in Running /\ op[c].plan \in Plans /\ f \in Changed(op[c].plan)
        /\ i \in Intents /\ scratch[i] # None
    BY <1>13, RunningOp DEF Swap, At, Idle, OpShape, Used
  <2>2. op' \in [Procs -> Running \cup {Idle}]
    <3>1. [op[c] EXCEPT !.step = "replaced"] \in Running
      BY <2>1 DEF Running
    <3> QED BY <1>13, <3>1 DEF TypeOK, Swap
  <2>3. scratch[i] \in ScratchRecord /\ scratch[i].sfile # None
    <3>1. op[c].step = "swap" /\ Passes(c)
      BY <1>13 DEF Swap, At
    <3> QED BY <2>1, <3>1 DEF TypeOK, Passes
  <2>4. scratch' \in [Intents -> ScratchRecord \cup {None}]
    <3>1. [scratch[i] EXCEPT !.sfile = None] \in ScratchRecord
      BY <2>3 DEF ScratchRecord
    <3> QED BY <1>13, <3>1 DEF TypeOK, Swap
  <2>5. f \in Files /\ Proposed[op[c].plan][f] \in Contents /\ Alien \in Contents
    BY <2>1, ConstantsAssumption, TargetFiles DEF Changed
  <2>6. file' \in [Files -> FileRecord \cup {None}]
    <3>1. [ino |-> scratch[i].sfile.ino,
           data |-> IF scratch[i].sfile.data = "ready" THEN Proposed[op[c].plan][f] ELSE Alien]
             \in FileRecord
      BY <2>3, <2>5 DEF ScratchRecord, FileRecord
    <3> QED BY <1>13, <3>1 DEF TypeOK, Swap
  <2>7. swapped' \in Seq([plan : Plans, file : Files, over : FileRecord \cup {None}, raced : BOOLEAN])
    <3>1. [plan |-> op[c].plan, file |-> f, over |-> file[f], raced |-> raced]
             \in [plan : Plans, file : Files, over : FileRecord \cup {None}, raced : BOOLEAN]
      BY <2>1, <2>5 DEF TypeOK
    <3> QED BY <1>13, <3>1 DEF TypeOK, Swap
  <2> QED BY <1>13, <2>2, <2>4, <2>6, <2>7 DEF TypeOK, Swap, bounds
<1>14. ASSUME NEW c \in Procs, RecordReplacement(c) PROVE TypeOK'
  <2> DEFINE f == First(op[c].work)  rest == op[c].work \ {f}
  <2>1. /\ op[c] \in Running /\ op[c].plan \in Plans /\ f \in Files /\ rest \in SUBSET Files
        /\ op[c].staged[f] \in Intents
    BY <1>14, RunningOp DEF RecordReplacement, At, Idle, OpShape, Used
  <2>2. op' \in [Procs -> Running \cup {Idle}]
    <3>1. NextTarget(rest) \in {"verify", "rename"}
      BY DEF NextTarget
    <3>2. [op[c] EXCEPT !.step = NextTarget(rest), !.work = rest] \in Running
      BY <2>1, <3>1 DEF Running
    <3> QED BY <1>14, <3>2 DEF TypeOK, RecordReplacement
  <2>3. journal' \in [Plans -> JournalRecord \cup {None}]
    <3>1. journal[op[c].plan] \in JournalRecord
      BY <1>14, <2>1, OpenAtWork DEF RecordReplacement, At, Idle
    <3>2. [journal[op[c].plan] EXCEPT !.records =
             Append(@, [kind |-> "replace", file |-> f, intent |-> op[c].staged[f]])] \in JournalRecord
      BY <2>1, <3>1, AppendType
    <3> QED BY <1>14, <3>2 DEF TypeOK, RecordReplacement
  <2> QED BY <1>14, <2>2, <2>3 DEF TypeOK, RecordReplacement, bounds
<1>15. ASSUME NEW c \in Procs, VerifyCompletion(c) PROVE TypeOK'
  <2>1. op[c] \in Running
    BY <1>15, RunningOp DEF VerifyCompletion, At, Idle
  <2>2. [op[c] EXCEPT !.step = "complete"] \in Running
    BY <2>1 DEF Running
  <2> QED BY <1>15, <2>2 DEF TypeOK, VerifyCompletion, stores, bounds
<1>16. ASSUME NEW c \in Procs, WriteCompletion(c) PROVE TypeOK'
  <2>1. op[c].plan \in Plans
    BY <1>16, RunningOp DEF WriteCompletion, At, Idle
  <2>2. journal[op[c].plan] \in JournalRecord
    BY <1>16, <2>1, OpenAtWork DEF WriteCompletion, At, Idle
  <2>3. [journal[op[c].plan] EXCEPT !.done = TRUE] \in JournalRecord
    BY <2>2 DEF JournalRecord
  <2> QED BY <1>16, <2>3 DEF TypeOK, WriteCompletion, Stop, bounds
<1>17. ASSUME NEW c \in Procs, Refuse(c) PROVE TypeOK'
  BY <1>17 DEF Refuse, Stop, TypeOK, stores, bounds
<1>18. ASSUME NEW c \in Procs, Crash(c) PROVE TypeOK'
  BY <1>18 DEF Crash, Stop, TypeOK, stores, bounds
<1>19. ASSUME NEW f \in Files, NEW v \in FileRecord \cup {None}, EditTarget(f, v) PROVE TypeOK'
  <2>1. raced' \in BOOLEAN
    BY <1>19 DEF EditTarget, TypeOK
  <2> QED BY <1>19, <2>1 DEF EditTarget, ForeignWrite, TypeOK
<1>20. ASSUME NEW i \in Intents, NEW d \in {"partial", "junk", "gone"}, EditStage(i, d) PROVE TypeOK'
  <2>1. scratch[i] \in ScratchRecord /\ scratch[i].sfile # None
    BY <1>20 DEF EditStage, StageFiles, TypeOK
  <2>2. [scratch[i] EXCEPT !.sfile = IF d = "gone" THEN None ELSE [@ EXCEPT !.data = d]] \in ScratchRecord
    BY <2>1 DEF ScratchRecord
  <2>3. scratch' = [scratch EXCEPT ![i] =
                      [scratch[i] EXCEPT !.sfile = IF d = "gone" THEN None ELSE [@ EXCEPT !.data = d]]]
    BY <1>20 DEF EditStage
  <2> QED BY <1>20, <2>2, <2>3 DEF EditStage, ForeignWrite, TypeOK
<1>21. CASE EditInputs
  <2>1. pinned' \in BOOLEAN
    BY <1>21, Zenon DEF EditInputs
  <2> QED BY <1>21, <2>1 DEF EditInputs, ForeignWrite, TypeOK
<1>22. CASE UNCHANGED vars
  BY <1>22 DEF vars, TypeOK
<1>23. QED
  BY <1>1, <1>3, <1>4, <1>5, <1>6, <1>7, <1>8, <1>9, <1>10, <1>11, <1>12, <1>13, <1>14, <1>15,
     <1>16, <1>17, <1>18, <1>19, <1>20, <1>21, <1>22
     DEF Next, Apply, Work, FileRecord

-----------------------------------------------------------------------------
\* No step takes a plan or an intent back, and a plan pins each of its targets.
Kept ==
    /\ \A i \in Intents : Used(i) => scratch'[i] # None
    /\ \A p \in Plans : plan[p] # None => plan'[p] = plan[p]
    /\ \A p \in Plans : plan'[p] # None => DOMAIN plan'[p] = Targets(p)

\* Every step keeps what is stored for good.
LEMMA KeptStep ==
    ASSUME TypeOK, ShapeInv, PhaseInv, [Next]_vars
    PROVE  Kept
<1>1. ASSUME NEW i \in Intents, NEW s \in ScratchRecord, scratch' = [scratch EXCEPT ![i] = s],
             plan' = plan
      PROVE  Kept
  BY <1>1, NoneAssumption DEF Kept, Used, TypeOK, ShapeInv
<1>2. ASSUME UNCHANGED <<plan, scratch>> PROVE Kept
  BY <1>2 DEF Kept, Used, ShapeInv
<1>3. ASSUME NEW p \in Plans, BuildPlan(p) PROVE Kept
  BY <1>3 DEF BuildPlan, Kept, Used, TypeOK, ShapeInv
<1>4. ASSUME NEW c \in Procs, NEW i \in Intents, StageIntent(c, i) PROVE Kept
  <2>1. op[c] \in Running /\ op[c].todo # {}
    BY <1>4, RunningOp DEF StageIntent, At, Idle, OpShape
  <2>2. First(op[c].todo) \in Files
    BY <2>1, FirstIn DEF Running
  <2>3. [plan |-> op[c].plan, attempt |-> op[c].attempt, file |-> First(op[c].todo),
         owner |-> None, sfile |-> None] \in ScratchRecord
    BY <2>1, <2>2 DEF Running, ScratchRecord
  <2> QED BY <1>1, <1>4, <2>3 DEF StageIntent
<1>5. ASSUME NEW c \in Procs, NEW n \in Inodes, StageCreate(c, n) PROVE Kept
  <2>1. op[c].id \in Intents /\ scratch[op[c].id] \in ScratchRecord
    <3>1. op[c].id \in Intents /\ scratch[op[c].id] # None
      BY <1>5, RunningOp DEF StageCreate, At, Idle, OpShape, Used
    <3> QED BY <3>1 DEF TypeOK
  <2>2. [scratch[op[c].id] EXCEPT !.sfile = [ino |-> n, data |-> "partial"]] \in ScratchRecord
    BY <2>1 DEF ScratchRecord
  <2> QED BY <1>1, <1>5, <2>1, <2>2 DEF StageCreate
<1>6. ASSUME NEW c \in Procs, StageOwner(c) PROVE Kept
  <2>1. op[c].id \in Intents /\ scratch[op[c].id] \in ScratchRecord /\ op[c].ino \in Inodes
    BY <1>6, RunningOp DEF StageOwner, At, Idle, OpShape, Used, TypeOK
  <2>2. [scratch[op[c].id] EXCEPT !.owner = op[c].ino] \in ScratchRecord
    BY <2>1 DEF ScratchRecord
  <2> QED BY <1>1, <1>6, <2>1, <2>2 DEF StageOwner
<1>7. ASSUME NEW c \in Procs, StageWrite(c) PROVE Kept
  <2> DEFINE i == op[c].id
  <2>1. i \in Intents /\ scratch[i] \in ScratchRecord
    BY <1>7, RunningOp DEF StageWrite, At, Idle, OpShape, Used, TypeOK
  <2>2. CASE stage_state(i) = "partial"
    <3>1. scratch[i].sfile # None
      BY <2>2 DEF stage_state
    <3>2. [scratch[i] EXCEPT !.sfile = [scratch[i].sfile EXCEPT !.data = "ready"]] \in ScratchRecord
      BY <2>1, <3>1 DEF ScratchRecord
    <3>3. scratch' = [scratch EXCEPT ![i] =
                        [scratch[i] EXCEPT !.sfile = [scratch[i].sfile EXCEPT !.data = "ready"]]]
      BY <1>7, <2>2 DEF StageWrite
    <3> QED BY <1>1, <1>7, <2>1, <3>2, <3>3 DEF StageWrite
  <2>3. CASE stage_state(i) # "partial"
    BY <1>2, <1>7, <2>3 DEF StageWrite
  <2> QED BY <2>2, <2>3
<1>8. ASSUME NEW c \in Procs, Swap(c) PROVE Kept
  <2> DEFINE i == op[c].staged[First(op[c].work)]
  <2>1. i \in Intents /\ scratch[i] \in ScratchRecord
    <3>1. i \in Intents /\ scratch[i] # None
      BY <1>8, RunningOp DEF Swap, At, Idle, OpShape, Used
    <3> QED BY <3>1 DEF TypeOK
  <2>2. [scratch[i] EXCEPT !.sfile = None] \in ScratchRecord
    BY <2>1 DEF ScratchRecord
  <2> QED BY <1>1, <1>8, <2>1, <2>2 DEF Swap
<1>9. ASSUME NEW i \in Intents, NEW d \in {"partial", "junk", "gone"}, EditStage(i, d) PROVE Kept
  <2>1. scratch[i] \in ScratchRecord /\ scratch[i].sfile # None
    BY <1>9 DEF EditStage, StageFiles, TypeOK
  <2>2. [scratch[i] EXCEPT !.sfile = IF d = "gone" THEN None ELSE [@ EXCEPT !.data = d]] \in ScratchRecord
    BY <2>1 DEF ScratchRecord
  <2>3. scratch' = [scratch EXCEPT ![i] =
                      [scratch[i] EXCEPT !.sfile = IF d = "gone" THEN None ELSE [@ EXCEPT !.data = d]]]
    BY <1>9 DEF EditStage
  <2> QED BY <1>1, <1>9, <2>2, <2>3 DEF EditStage, ForeignWrite
<1>10. ASSUME NEW c \in Procs, Apply(c) PROVE Kept
  BY <1>2, <1>10 DEF Apply, ApplyBegin, ResumeBegin, Begin, stores
<1>11. ASSUME NEW c \in Procs,
              RepairRecord(c) \/ Prepare(c) \/ Recheck(c) \/ CheckTarget(c) \/ RecordReplacement(c)
                 \/ VerifyCompletion(c) \/ WriteCompletion(c) \/ Refuse(c) \/ Crash(c)
       PROVE  Kept
  BY <1>2, <1>11 DEF RepairRecord, Prepare, Recheck, CheckTarget, RecordReplacement,
                     VerifyCompletion, WriteCompletion, Refuse, Crash, stores
<1>12. ASSUME NEW f \in Files, NEW v \in FileRecord \cup {None}, EditTarget(f, v) PROVE Kept
  BY <1>2, <1>12 DEF EditTarget, ForeignWrite
<1>13. CASE EditInputs \/ UNCHANGED vars
  BY <1>2, <1>13 DEF EditInputs, ForeignWrite, vars
<1> QED
  BY <1>3, <1>4, <1>5, <1>6, <1>7, <1>8, <1>9, <1>10, <1>11, <1>12, <1>13 DEF Next, Work, FileRecord

\* Only the journals and the invocations that a step changes need looking at.
LEMMA ShapeFrame ==
    ASSUME TypeOK, ShapeInv, Kept,
           \A p \in Plans : journal'[p] # journal[p] /\ journal'[p] # None => JournalShape(p)',
           \A c \in Procs : op'[c] # op[c] /\ op'[c] # Idle => OpShape(op[c])'
    PROVE  ShapeInv'
<1>1. \A p \in Plans : (plan[p] # None => DOMAIN plan[p] = Targets(p))'
  BY DEF Kept, Targets
<1>2. ASSUME NEW p \in Plans, (journal[p] # None)', journal'[p] = journal[p] PROVE JournalShape(p)'
  <2>1. JournalShape(p) /\ plan[p] # None /\ plan'[p] = plan[p] /\ journal[p] \in JournalRecord
    BY <1>2 DEF ShapeInv, JournalShape, Kept, TypeOK
  <2>2. Changed(p)' = Changed(p)
    BY <2>1 DEF Changed, Targets
  <2> QED BY <1>2, <2>1, <2>2 DEF JournalShape, Used, Kept, Targets
<1>3. ASSUME NEW c \in Procs, (op[c] # Idle)', op'[c] = op[c] PROVE OpShape(op[c])'
  <2>1. /\ OpShape(op[c]) /\ op[c].plan \in Plans
        /\ plan[op[c].plan] # None /\ plan'[op[c].plan] = plan[op[c].plan]
    BY <1>3, RunningOp DEF OpShape, Kept
  <2>2. Changed(op[c].plan)' = Changed(op[c].plan)
    BY <1>3, <2>1 DEF Changed, Targets
  <2> QED BY <1>3, <2>1, <2>2 DEF OpShape, Used, Kept, Targets
<1> QED BY <1>1, <1>2, <1>3 DEF ShapeInv

\* What the plan of a running invocation asks for stays the same.
LEMMA PlanStays ==
    ASSUME TypeOK, ShapeInv, Kept, NEW c \in Procs, op[c] # Idle
    PROVE  plan'[op[c].plan] = plan[op[c].plan]
<1>1. op[c].plan \in Plans /\ plan[op[c].plan] # None
  BY RunningOp DEF OpShape
<1> QED BY <1>1 DEF Kept

\* A record of a used stage keeps the shape of its journal.
LEMMA AppendShape ==
    ASSUME TypeOK, ShapeInv, Kept, NEW p \in Plans, journal[p] \in JournalRecord, JournalShape(p),
           NEW r, Used(r.intent), journal'[p] = [journal[p] EXCEPT !.records = Append(@, r)]
    PROVE  JournalShape(p)'
<1> DEFINE records == journal[p].records
<1>1. plan'[p] = plan[p] /\ plan[p] # None
  BY DEF Kept, JournalShape
<1>2. Changed(p)' = Changed(p) /\ Targets(p)' = Targets(p)
  BY <1>1 DEF Changed, Targets
<1>3. journal'[p].prepared = journal[p].prepared /\ journal'[p].records = Append(records, r)
  BY DEF JournalRecord
<1>4. records \in Seq([kind : {"stage", "replace"}, file : Files, intent : Intents])
  BY DEF JournalRecord
<1>5. ASSUME NEW k \in DOMAIN Append(records, r) PROVE Append(records, r)[k].intent \in Intents
                                                    /\ scratch'[Append(records, r)[k].intent] # None
  <2>1. /\ r.intent \in Intents /\ scratch'[r.intent] # None
        /\ \A m \in DOMAIN records : records[m].intent \in Intents /\ scratch'[records[m].intent] # None
    BY DEF JournalShape, Used, Kept
  <2> HIDE DEF records
  <2>2. Append(records, r)[k] = r \/ (k \in DOMAIN records /\ Append(records, r)[k] = records[k])
    BY <1>4
  <2> QED BY <2>1, <2>2
<1>6. \A f \in Changed(p) : journal[p].prepared[f] \in Intents /\ scratch'[journal[p].prepared[f]] # None
  BY DEF JournalShape, Used, Kept
<1> HIDE DEF records
<1> QED BY <1>1, <1>2, <1>3, <1>5, <1>6 DEF JournalShape, Used

\* Every step keeps the invocations and the journals well formed.
LEMMA ShapeStep ==
    ASSUME TypeOK, ShapeInv, PhaseInv, [Next]_vars
    PROVE  ShapeInv'
<1> USE DEF At
<1>1. Kept
  BY KeptStep
<1>2. ASSUME NEW c \in Procs, op[c] # Idle, UNCHANGED journal,
             \A d \in Procs \ {c} : op'[d] = op[d], OpShape(op[c])'
      PROVE  ShapeInv'
  BY <1>1, <1>2, ShapeFrame
<1>3. ASSUME UNCHANGED journal, \A d \in Procs : op'[d] = op[d] \/ op'[d] = Idle
      PROVE  ShapeInv'
  BY <1>1, <1>3, ShapeFrame
<1>5. ASSUME NEW c \in Procs, NEW p \in Plans, NEW a \in Attempts, ApplyBegin(c, p, a) PROVE ShapeInv'
  <2>1. plan[p] # None /\ UNCHANGED <<plan, scratch, journal>> /\ \A d \in Procs \ {c} : op'[d] = op[d]
    BY <1>5 DEF ApplyBegin, Admissible, Begin, stores, TypeOK
  <2>2. op'[c] = [step |-> AfterStaging("apply", Changed(p)), kind |-> "apply", plan |-> p,
                  attempt |-> a, todo |-> Changed(p), work |-> Changed(p),
                  staged |-> [f \in Targets(p) |-> None], id |-> None, ino |-> None]
    BY <1>5 DEF ApplyBegin, Begin, TypeOK
  <2>3. Changed(p)' = Changed(p) /\ Targets(p)' = Targets(p)
    BY <2>1 DEF Changed, Targets
  <2>4. OpShape(op[c])'
    BY <2>1, <2>2, <2>3 DEF OpShape, AfterStaging
  <2> QED BY <1>1, <2>1, <2>4, ShapeFrame
<1>6. ASSUME NEW c \in Procs, NEW p \in Plans, ResumeBegin(c, p) PROVE ShapeInv'
  <2> DEFINE work == {f \in Changed(p) : original(p, f)}
             repairs == {f \in work : stage_state(Entry(p, f)) = "partial"}
             staged == [f \in Targets(p) |-> Entry(p, f)]
  <2>1. plan[p] # None /\ UNCHANGED <<plan, scratch, journal>> /\ \A d \in Procs \ {c} : op'[d] = op[d]
    BY <1>6 DEF ResumeBegin, Admissible, Begin, stores, TypeOK
  <2>2. op'[c] = [step |-> AfterStaging("resume", repairs), kind |-> "resume", plan |-> p,
                  attempt |-> journal[p].attempt, todo |-> repairs, work |-> work,
                  staged |-> staged, id |-> None, ino |-> None]
    BY <1>6 DEF ResumeBegin, Begin, TypeOK
  <2>3. Changed(p)' = Changed(p) /\ Targets(p)' = Targets(p)
    BY <2>1 DEF Changed, Targets
  <2>4. \A f \in work : staged[f] \in Intents /\ scratch'[staged[f]] # None
    <3>1. journal[p] # None
      BY <1>6 DEF ResumeBegin, Open
    <3>2. \A f \in work : f \in Targets(p) /\ Used(Entry(p, f))
      BY <3>1, EntryType DEF Changed
    <3> QED BY <2>1, <3>2 DEF Used
  <2>5. DOMAIN staged = Targets(p) /\ repairs \subseteq work /\ work \subseteq Changed(p)
    OBVIOUS
  <2> HIDE DEF work, repairs, staged
  <2>6. OpShape(op[c])'
    BY <2>1, <2>2, <2>3, <2>4, <2>5 DEF OpShape, AfterStaging, Used
  <2> QED BY <1>1, <2>1, <2>6, ShapeFrame
<1>7. ASSUME NEW c \in Procs, NEW i \in Intents, StageIntent(c, i) PROVE ShapeInv'
  <2>1. op[c] \in Running /\ OpShape(op[c]) /\ op[c] # Idle /\ op[c].step = "stage"
    BY <1>7, RunningOp DEF StageIntent, Idle
  <2>2. op'[c] = [op[c] EXCEPT !.step = "create", !.id = i] /\ \A d \in Procs \ {c} : op'[d] = op[d]
    BY <1>7, <2>1 DEF StageIntent, TypeOK
  <2>3. plan'[op[c].plan] = plan[op[c].plan]
    BY <1>1, <2>1, PlanStays
  <2>4. /\ op'[c].plan = op[c].plan /\ op'[c].kind = op[c].kind
        /\ op'[c].todo = op[c].todo /\ op'[c].work = op[c].work /\ op'[c].staged = op[c].staged
        /\ op'[c].step = "create" /\ op'[c].id = i
    BY <2>1, <2>2 DEF Running
  <2>5. \A k \in Intents : scratch[k] # None => scratch'[k] # None
    BY <1>1 DEF Kept, Used
  <2>6. scratch'[i] # None
    <3>1. First(op[c].todo) \in Files
      BY <2>1, FirstIn DEF Running, OpShape
    <3>2. [plan |-> op[c].plan, attempt |-> op[c].attempt, file |-> First(op[c].todo),
           owner |-> None, sfile |-> None] \in ScratchRecord
      BY <2>1, <3>1 DEF Running, ScratchRecord
    <3> QED BY <1>7, <3>2, NoneAssumption DEF StageIntent, TypeOK
  <2>7. OpShape(op[c])'
    BY <2>1, <2>3, <2>4, <2>5, <2>6 DEF OpShape, Used, Changed, Targets
  <2> QED BY <1>2, <1>7, <2>1, <2>2, <2>7 DEF StageIntent, stores
<1>8. ASSUME NEW c \in Procs, NEW n \in Inodes, StageCreate(c, n) PROVE ShapeInv'
  <2>1. op[c] \in Running /\ OpShape(op[c]) /\ op[c] # Idle /\ op[c].step = "create"
    BY <1>8, RunningOp DEF StageCreate, Idle
  <2>2. op'[c] = [op[c] EXCEPT !.step = "own", !.ino = n] /\ \A d \in Procs \ {c} : op'[d] = op[d]
    BY <1>8, <2>1 DEF StageCreate, TypeOK
  <2>3. plan'[op[c].plan] = plan[op[c].plan]
    BY <1>1, <2>1, PlanStays
  <2>4. /\ op'[c].plan = op[c].plan /\ op'[c].kind = op[c].kind
        /\ op'[c].todo = op[c].todo /\ op'[c].work = op[c].work /\ op'[c].staged = op[c].staged
        /\ op'[c].step = "own" /\ op'[c].id = op[c].id /\ op'[c].ino = n
    BY <2>1, <2>2 DEF Running
  <2>5. \A k \in Intents : scratch[k] # None => scratch'[k] # None
    BY <1>1 DEF Kept, Used
  <2>7. OpShape(op[c])'
    BY <2>1, <2>3, <2>4, <2>5 DEF OpShape, Used, Changed, Targets
  <2> QED BY <1>2, <1>8, <2>1, <2>2, <2>7 DEF StageCreate, stores
<1>9. ASSUME NEW c \in Procs, StageOwner(c) PROVE ShapeInv'
  <2>1. op[c] \in Running /\ OpShape(op[c]) /\ op[c] # Idle /\ op[c].step = "own"
    BY <1>9, RunningOp DEF StageOwner, Idle
  <2>2. op'[c] = [op[c] EXCEPT !.step = "write"] /\ \A d \in Procs \ {c} : op'[d] = op[d]
    BY <1>9, <2>1 DEF StageOwner, TypeOK
  <2>3. plan'[op[c].plan] = plan[op[c].plan]
    BY <1>1, <2>1, PlanStays
  <2>4. /\ op'[c].plan = op[c].plan /\ op'[c].kind = op[c].kind
        /\ op'[c].todo = op[c].todo /\ op'[c].work = op[c].work /\ op'[c].staged = op[c].staged
        /\ op'[c].step = "write" /\ op'[c].id = op[c].id /\ op'[c].ino = op[c].ino
    BY <2>1, <2>2 DEF Running
  <2>5. \A k \in Intents : scratch[k] # None => scratch'[k] # None
    BY <1>1 DEF Kept, Used
  <2>7. OpShape(op[c])'
    BY <2>1, <2>3, <2>4, <2>5 DEF OpShape, Used, Changed, Targets
  <2> QED BY <1>2, <1>9, <2>1, <2>2, <2>7 DEF StageOwner, stores
<1>11. ASSUME NEW c \in Procs, Recheck(c) PROVE ShapeInv'
  <2>1. op[c] \in Running /\ OpShape(op[c]) /\ op[c] # Idle /\ op[c].step = "recheck"
    BY <1>11, RunningOp DEF Recheck, Idle
  <2>2. op'[c] = [op[c] EXCEPT !.step = NextTarget(op[c].work)] /\ \A d \in Procs \ {c} : op'[d] = op[d]
    BY <1>11, <2>1 DEF Recheck, TypeOK
  <2>3. plan'[op[c].plan] = plan[op[c].plan]
    BY <1>1, <2>1, PlanStays
  <2>4. /\ op'[c].plan = op[c].plan /\ op'[c].kind = op[c].kind
        /\ op'[c].todo = op[c].todo /\ op'[c].work = op[c].work /\ op'[c].staged = op[c].staged
        /\ op'[c].step = NextTarget(op[c].work)
    BY <2>1, <2>2 DEF Running
  <2>5. \A k \in Intents : scratch[k] # None => scratch'[k] # None
    BY <1>1 DEF Kept, Used
  <2>7. OpShape(op[c])'
    BY <2>1, <2>3, <2>4, <2>5 DEF OpShape, Used, Changed, Targets, NextTarget
  <2> QED BY <1>2, <1>11, <2>1, <2>2, <2>7 DEF Recheck, stores
<1>12. ASSUME NEW c \in Procs, CheckTarget(c) PROVE ShapeInv'
  <2>1. op[c] \in Running /\ OpShape(op[c]) /\ op[c] # Idle /\ op[c].step = "rename"
    BY <1>12, RunningOp DEF CheckTarget, Idle
  <2>2. op'[c] = [op[c] EXCEPT !.step = "swap"] /\ \A d \in Procs \ {c} : op'[d] = op[d]
    BY <1>12, <2>1 DEF CheckTarget, TypeOK
  <2>3. plan'[op[c].plan] = plan[op[c].plan]
    BY <1>1, <2>1, PlanStays
  <2>4. /\ op'[c].plan = op[c].plan /\ op'[c].kind = op[c].kind
        /\ op'[c].todo = op[c].todo /\ op'[c].work = op[c].work /\ op'[c].staged = op[c].staged
        /\ op'[c].step = "swap"
    BY <2>1, <2>2 DEF Running
  <2>5. \A k \in Intents : scratch[k] # None => scratch'[k] # None
    BY <1>1 DEF Kept, Used
  <2>7. OpShape(op[c])'
    BY <2>1, <2>3, <2>4, <2>5 DEF OpShape, Used, Changed, Targets
  <2> QED BY <1>2, <1>12, <2>1, <2>2, <2>7 DEF CheckTarget, stores
<1>13. ASSUME NEW c \in Procs, Swap(c) PROVE ShapeInv'
  <2>1. op[c] \in Running /\ OpShape(op[c]) /\ op[c] # Idle /\ op[c].step = "swap"
    BY <1>13, RunningOp DEF Swap, Idle
  <2>2. op'[c] = [op[c] EXCEPT !.step = "replaced"] /\ \A d \in Procs \ {c} : op'[d] = op[d]
    BY <1>13, <2>1 DEF Swap, TypeOK
  <2>3. plan'[op[c].plan] = plan[op[c].plan]
    BY <1>1, <2>1, PlanStays
  <2>4. /\ op'[c].plan = op[c].plan /\ op'[c].kind = op[c].kind
        /\ op'[c].todo = op[c].todo /\ op'[c].work = op[c].work /\ op'[c].staged = op[c].staged
        /\ op'[c].step = "replaced"
    BY <2>1, <2>2 DEF Running
  <2>5. \A k \in Intents : scratch[k] # None => scratch'[k] # None
    BY <1>1 DEF Kept, Used
  <2>7. OpShape(op[c])'
    BY <2>1, <2>3, <2>4, <2>5 DEF OpShape, Used, Changed, Targets
  <2> QED BY <1>2, <1>13, <2>1, <2>2, <2>7 DEF Swap, stores
<1>14. ASSUME NEW c \in Procs, VerifyCompletion(c) PROVE ShapeInv'
  <2>1. op[c] \in Running /\ OpShape(op[c]) /\ op[c] # Idle /\ op[c].step = "verify"
    BY <1>14, RunningOp DEF VerifyCompletion, Idle
  <2>2. op'[c] = [op[c] EXCEPT !.step = "complete"] /\ \A d \in Procs \ {c} : op'[d] = op[d]
    BY <1>14, <2>1 DEF VerifyCompletion, TypeOK
  <2>3. plan'[op[c].plan] = plan[op[c].plan]
    BY <1>1, <2>1, PlanStays
  <2>4. /\ op'[c].plan = op[c].plan /\ op'[c].kind = op[c].kind
        /\ op'[c].todo = op[c].todo /\ op'[c].work = op[c].work /\ op'[c].staged = op[c].staged
        /\ op'[c].step = "complete"
    BY <2>1, <2>2 DEF Running
  <2>5. \A k \in Intents : scratch[k] # None => scratch'[k] # None
    BY <1>1 DEF Kept, Used
  <2>7. OpShape(op[c])'
    BY <2>1, <2>3, <2>4, <2>5 DEF OpShape, Used, Changed, Targets
  <2> QED BY <1>2, <1>14, <2>1, <2>2, <2>7 DEF VerifyCompletion, stores
<1>10. ASSUME NEW c \in Procs, StageWrite(c) PROVE ShapeInv'
  <2> DEFINE i == op[c].id  f == First(op[c].todo)  rest == op[c].todo \ {f}
             s == IF op[c].kind = "resume" THEN "repaired" ELSE AfterStaging("apply", rest)
             t == IF op[c].kind = "resume" THEN op[c].todo ELSE rest
             st == [op[c].staged EXCEPT ![f] = i]
  <2>1. /\ op[c] \in Running /\ OpShape(op[c]) /\ op[c] # Idle /\ op[c].step = "write"
        /\ f \in op[c].todo
    BY <1>10, RunningOp DEF StageWrite, Idle, OpShape
  <2>2. op'[c] = [op[c] EXCEPT !.step = s, !.todo = t, !.staged = st, !.id = None, !.ino = None]
        /\ \A d \in Procs \ {c} : op'[d] = op[d]
    BY <1>10, <2>1 DEF StageWrite, TypeOK
  <2>3. plan'[op[c].plan] = plan[op[c].plan]
    BY <1>1, <2>1, PlanStays
  <2> HIDE DEF s, t, st
  <2>4. /\ op'[c].plan = op[c].plan /\ op'[c].kind = op[c].kind /\ op'[c].work = op[c].work
        /\ op'[c].step = s /\ op'[c].todo = t /\ op'[c].staged = st
    BY <2>1, <2>2 DEF Running
  <2>5. \A k \in Intents : scratch[k] # None => scratch'[k] # None
    BY <1>1 DEF Kept, Used
  <2>6. DOMAIN st = DOMAIN op[c].staged /\ st[f] = i
        /\ \A g \in DOMAIN op[c].staged \ {f} : st[g] = op[c].staged[g]
    <3>1. PICK S \in SUBSET Files : op[c].staged \in [S -> Fates]
      BY <2>1 DEF Running
    <3>2. f \in DOMAIN op[c].staged
      BY <2>1 DEF OpShape, Changed
    <3> QED BY <3>1, <3>2 DEF st
  <2>7. i \in Intents /\ scratch'[i] # None
    BY <2>1, <2>5 DEF OpShape, Used
  <2>8. op[c].work \subseteq DOMAIN op[c].staged
    BY <2>1 DEF OpShape, Changed
  <2>9. CASE op[c].kind = "resume"
    <3>1. s = "repaired" /\ t = op[c].todo
      BY <2>9 DEF s, t
    <3>2. OpShape(op[c])'
      BY <2>1, <2>3, <2>4, <2>5, <2>6, <2>7, <2>8, <2>9, <3>1 DEF OpShape, Used, Changed, Targets
    <3> QED BY <1>2, <1>10, <2>1, <2>2, <3>2 DEF StageWrite
  <2>10. CASE op[c].kind # "resume"
    <3>1. s = AfterStaging("apply", rest) /\ t = rest /\ op[c].kind = "apply"
      BY <2>1, <2>10 DEF s, t, Running
    <3>2. /\ rest \subseteq op[c].todo /\ f \notin rest
          /\ s \in {"stage", "prepare"} /\ (s = "stage" <=> rest # {})
      BY <3>1 DEF AfterStaging
    <3>3. \A g \in op[c].work \ rest : st[g] \in Intents /\ scratch'[st[g]] # None
      BY <2>1, <2>5, <2>6, <2>7, <2>8 DEF OpShape, Used
    <3> HIDE DEF rest, f, i
    <3>4. OpShape(op[c])'
      BY <2>1, <2>3, <2>4, <2>6, <3>1, <3>2, <3>3 DEF OpShape, Used, Changed, Targets
    <3> QED BY <1>2, <1>10, <2>1, <2>2, <3>4 DEF StageWrite
  <2> QED BY <2>9, <2>10
<1>15. ASSUME NEW c \in Procs, RepairRecord(c) PROVE ShapeInv'
  <2> DEFINE f == First(op[c].todo)  rest == op[c].todo \ {f}
             r == [kind |-> "stage", file |-> f, intent |-> op[c].staged[f]]
  <2>1. /\ op[c] \in Running /\ OpShape(op[c]) /\ op[c] # Idle /\ op[c].step = "repaired"
        /\ op[c].plan \in Plans /\ f \in op[c].todo
    BY <1>15, RunningOp DEF RepairRecord, Idle, OpShape
  <2>2. op'[c] = [op[c] EXCEPT !.step = AfterStaging("resume", rest), !.todo = rest]
        /\ \A d \in Procs \ {c} : op'[d] = op[d]
    BY <1>15, <2>1 DEF RepairRecord, TypeOK
  <2>3. plan'[op[c].plan] = plan[op[c].plan]
    BY <1>1, <2>1, PlanStays
  <2> HIDE DEF rest
  <2>4. /\ op'[c].plan = op[c].plan /\ op'[c].kind = op[c].kind /\ op'[c].staged = op[c].staged
        /\ op'[c].step = AfterStaging("resume", rest) /\ op'[c].todo = rest
        /\ op'[c].work = op[c].work
    BY <2>1, <2>2 DEF Running
  <2>5. \A k \in Intents : scratch[k] # None => scratch'[k] # None
    BY <1>1 DEF Kept, Used
  <2>6. rest \subseteq op[c].todo
    BY DEF rest
  <2>7. Used(op[c].staged[f])
    BY <2>1 DEF OpShape
  <2>8. OpShape(op[c])'
    <3>1. op[c].kind = "resume"
      BY <2>1 DEF OpShape
    <3> QED BY <2>1, <2>3, <2>4, <2>5, <2>6, <3>1 DEF OpShape, Used, Changed, Targets, AfterStaging
  <2>9. ASSUME NEW p \in Plans, journal'[p] # journal[p] PROVE JournalShape(p)'
    <3>1. p = op[c].plan /\ journal'[p] = [journal[p] EXCEPT !.records = Append(@, r)]
      BY <1>15, <2>1, <2>9 DEF RepairRecord, TypeOK
    <3>2. journal[p] \in JournalRecord /\ JournalShape(p)
      BY <2>1, <3>1, OpenAtWork
    <3>3. r.intent = op[c].staged[f]
      OBVIOUS
    <3> HIDE DEF r, f
    <3> QED BY <1>1, <2>7, <3>1, <3>2, <3>3, AppendShape
  <2> QED BY <1>1, <2>2, <2>8, <2>9, ShapeFrame
<1>16. ASSUME NEW c \in Procs, RecordReplacement(c) PROVE ShapeInv'
  <2> DEFINE f == First(op[c].work)  rest == op[c].work \ {f}
             r == [kind |-> "replace", file |-> f, intent |-> op[c].staged[f]]
  <2>1. /\ op[c] \in Running /\ OpShape(op[c]) /\ op[c] # Idle /\ op[c].step = "replaced"
        /\ op[c].plan \in Plans /\ f \in op[c].work
    BY <1>16, RunningOp DEF RecordReplacement, Idle, OpShape
  <2>2. op'[c] = [op[c] EXCEPT !.step = NextTarget(rest), !.work = rest]
        /\ \A d \in Procs \ {c} : op'[d] = op[d]
    BY <1>16, <2>1 DEF RecordReplacement, TypeOK
  <2>3. plan'[op[c].plan] = plan[op[c].plan]
    BY <1>1, <2>1, PlanStays
  <2> HIDE DEF rest
  <2>4. /\ op'[c].plan = op[c].plan /\ op'[c].kind = op[c].kind /\ op'[c].staged = op[c].staged
        /\ op'[c].step = NextTarget(rest) /\ op'[c].work = rest
        /\ op'[c].todo = op[c].todo
    BY <2>1, <2>2 DEF Running
  <2>5. \A k \in Intents : scratch[k] # None => scratch'[k] # None
    BY <1>1 DEF Kept, Used
  <2>6. rest \subseteq op[c].work
    BY DEF rest
  <2>7. Used(op[c].staged[f])
    BY <2>1 DEF OpShape
  <2>8. OpShape(op[c])'
    BY <2>1, <2>3, <2>4, <2>5, <2>6 DEF OpShape, Used, Changed, Targets, NextTarget
  <2>9. ASSUME NEW p \in Plans, journal'[p] # journal[p] PROVE JournalShape(p)'
    <3>1. p = op[c].plan /\ journal'[p] = [journal[p] EXCEPT !.records = Append(@, r)]
      BY <1>16, <2>1, <2>9 DEF RecordReplacement, TypeOK
    <3>2. journal[p] \in JournalRecord /\ JournalShape(p)
      BY <2>1, <3>1, OpenAtWork
    <3>3. r.intent = op[c].staged[f]
      OBVIOUS
    <3> HIDE DEF r, f
    <3> QED BY <1>1, <2>7, <3>1, <3>2, <3>3, AppendShape
  <2> QED BY <1>1, <2>2, <2>8, <2>9, ShapeFrame
<1>17. ASSUME NEW c \in Procs, Prepare(c) PROVE ShapeInv'
  <2>1. /\ op[c] \in Running /\ OpShape(op[c]) /\ op[c] # Idle /\ op[c].step = "prepare"
        /\ op[c].plan \in Plans
    BY <1>17, RunningOp DEF Prepare, Idle
  <2>2. op'[c] = [op[c] EXCEPT !.step = "recheck"] /\ \A d \in Procs \ {c} : op'[d] = op[d]
    BY <1>17, <2>1 DEF Prepare, TypeOK
  <2>3. plan'[op[c].plan] = plan[op[c].plan]
    BY <1>1, <2>1, PlanStays
  <2>4. /\ op'[c].plan = op[c].plan /\ op'[c].kind = op[c].kind /\ op'[c].staged = op[c].staged
        /\ op'[c].step = "recheck" /\ op'[c].todo = op[c].todo /\ op'[c].work = op[c].work
    BY <2>1, <2>2 DEF Running
  <2>5. \A k \in Intents : scratch[k] # None => scratch'[k] # None
    BY <1>1 DEF Kept, Used
  <2>6. OpShape(op[c])'
    BY <2>1, <2>3, <2>4, <2>5 DEF OpShape, Used, Changed, Targets
  <2>7. op[c].kind = "apply" /\ op[c].work = Changed(op[c].plan) /\ op[c].todo = {}
    BY <2>1 DEF OpShape
  <2>8. ASSUME NEW p \in Plans, journal'[p] # journal[p] PROVE JournalShape(p)'
    <3>1. /\ p = op[c].plan
          /\ journal'[p] = [attempt |-> op[c].attempt, prepared |-> op[c].staged,
                            records |-> <<>>, done |-> FALSE]
      BY <1>17, <2>1, <2>8 DEF Prepare, TypeOK
    <3>2. plan'[p] = plan[p] /\ plan[p] # None
      BY <2>1, <2>3, <3>1 DEF OpShape
    <3>3. Changed(p)' = Changed(p) /\ Targets(p)' = Targets(p)
      BY <3>2 DEF Changed, Targets
    <3>4. \A f \in Changed(p) : op[c].staged[f] \in Intents /\ scratch'[op[c].staged[f]] # None
      BY <2>1, <2>5, <2>7, <3>1 DEF OpShape, Used
    <3> QED BY <2>1, <3>1, <3>2, <3>3, <3>4 DEF JournalShape, Used, OpShape
  <2> QED BY <1>1, <2>2, <2>6, <2>8, ShapeFrame
<1>18. ASSUME NEW c \in Procs, WriteCompletion(c) PROVE ShapeInv'
  <2>1. op[c] # Idle /\ op[c].plan \in Plans
        /\ journal[op[c].plan] \in JournalRecord /\ JournalShape(op[c].plan)
    BY <1>18, RunningOp, OpenAtWork DEF WriteCompletion, Idle
  <2>2. \A d \in Procs : op'[d] = op[d] \/ op'[d] = Idle
    BY <1>18 DEF WriteCompletion, Stop, TypeOK
  <2>3. ASSUME NEW p \in Plans, journal'[p] # journal[p] PROVE JournalShape(p)'
    <3>1. p = op[c].plan /\ journal'[p] = [journal[p] EXCEPT !.done = TRUE]
      BY <1>18, <2>1, <2>3 DEF WriteCompletion, TypeOK
    <3>2. journal'[p].prepared = journal[p].prepared /\ journal'[p].records = journal[p].records
      BY <2>1, <3>1 DEF JournalRecord
    <3>3. UNCHANGED <<plan, scratch>> /\ JournalShape(p)
      BY <1>18, <2>1, <3>1 DEF WriteCompletion
    <3> QED BY <3>2, <3>3 DEF JournalShape, Used, Changed, Targets
  <2> QED BY <1>1, <2>2, <2>3, ShapeFrame
<1>20. ASSUME NEW c \in Procs, Refuse(c) \/ Crash(c) PROVE ShapeInv'
  BY <1>3, <1>20 DEF Refuse, Crash, Stop, stores, TypeOK
<1>21. ASSUME NEW p \in Plans, BuildPlan(p) PROVE ShapeInv'
  BY <1>3, <1>21 DEF BuildPlan
<1>22. ASSUME NEW f \in Files, NEW v \in FileRecord \cup {None}, EditTarget(f, v) PROVE ShapeInv'
  BY <1>3, <1>22 DEF EditTarget, ForeignWrite
<1>23. ASSUME NEW i \in Intents, NEW d \in {"partial", "junk", "gone"}, EditStage(i, d) PROVE ShapeInv'
  BY <1>3, <1>23 DEF EditStage, ForeignWrite
<1>24. CASE EditInputs \/ UNCHANGED vars
  BY <1>3, <1>24 DEF EditInputs, ForeignWrite, vars
<1> QED
  BY <1>5, <1>6, <1>7, <1>8, <1>9, <1>10, <1>11, <1>12, <1>13, <1>14, <1>15,
     <1>16, <1>17, <1>18, <1>20, <1>21, <1>22, <1>23, <1>24
     DEF Next, Apply, Work, FileRecord

-----------------------------------------------------------------------------
Staging == {"stage", "create", "own", "write", "prepare"}

\* The phase of one invocation.
PhaseOf(c) ==
    LET o == op[c] IN
    /\ lock = c
    /\ \A q \in Plans \ {o.plan} : ~Open(q)
    /\ IF o.kind = "apply" /\ o.step \in Staging THEN journal[o.plan] = None ELSE Open(o.plan)

\* Every step keeps a single batch open, the one whose invocation has the lock.
LEMMA PhaseStep ==
    ASSUME IInv, [Next]_vars, TypeOK'
    PROVE  PhaseInv' /\ OneOpenJournal'
<1> USE DEF At
<1>1. TypeOK /\ ShapeInv /\ PhaseInv /\ OneOpenJournal
  BY DEF IInv
<1>2. \A c \in Procs : op[c] # Idle => PhaseOf(c)
  BY <1>1 DEF PhaseInv, PhaseOf, Staging
<1>3. ASSUME NEW c \in Procs, lock = None \/ op[c] # Idle PROVE \A d \in Procs \ {c} : op[d] = Idle
  BY <1>2, <1>3, ConstantsAssumption DEF PhaseOf
<1>4. ASSUME NEW c \in Procs, lock = None \/ op[c] # Idle, \A d \in Procs \ {c} : op'[d] = op[d],
             op'[c] # Idle => PhaseOf(c)'
      PROVE  PhaseInv'
  <2>1. \A d \in Procs \ {c} : op'[d] = Idle
    BY <1>3, <1>4
  <2> QED BY <1>4, <2>1 DEF PhaseInv, PhaseOf, Staging
<1>5. ASSUME UNCHANGED <<lock, op, journal>> PROVE PhaseInv' /\ OneOpenJournal'
  BY <1>1, <1>5 DEF PhaseInv, OneOpenJournal, Open
<1>6. ASSUME UNCHANGED journal PROVE OneOpenJournal'
  BY <1>1, <1>6 DEF OneOpenJournal, Open
<1>7. ASSUME NEW c \in Procs, NEW p \in Plans, NEW a \in Attempts, ApplyBegin(c, p, a)
      PROVE  PhaseInv' /\ OneOpenJournal'
  <2>1. UNCHANGED journal /\ lock' = c /\ lock = None /\ journal[p] = None
        /\ (\A q \in Plans \ {p} : ~Open(q)) /\ \A d \in Procs \ {c} : op'[d] = op[d]
    BY <1>1, <1>7 DEF ApplyBegin, Admissible, Begin, stores, TypeOK
  <2>2. op'[c].kind = "apply" /\ op'[c].plan = p /\ op'[c].step = AfterStaging("apply", Changed(p))
    BY <1>1, <1>7 DEF ApplyBegin, Begin, TypeOK
  <2>3. PhaseOf(c)'
    BY <2>1, <2>2 DEF PhaseOf, Open, AfterStaging, Staging
  <2> QED BY <1>4, <1>6, <2>1, <2>3
<1>8. ASSUME NEW c \in Procs, NEW p \in Plans, ResumeBegin(c, p) PROVE PhaseInv' /\ OneOpenJournal'
  <2>1. UNCHANGED journal /\ lock' = c /\ lock = None /\ Open(p)
        /\ (\A q \in Plans \ {p} : ~Open(q)) /\ \A d \in Procs \ {c} : op'[d] = op[d]
    BY <1>1, <1>8 DEF ResumeBegin, Admissible, Begin, stores, TypeOK
  <2>2. op'[c].kind = "resume" /\ op'[c].plan = p
    BY <1>1, <1>8 DEF ResumeBegin, Begin, TypeOK
  <2>3. PhaseOf(c)'
    BY <2>1, <2>2 DEF PhaseOf, Open
  <2> QED BY <1>4, <1>6, <2>1, <2>3
<1>9. ASSUME NEW c \in Procs, op[c] # Idle, UNCHANGED <<lock, journal>>,
             \A d \in Procs \ {c} : op'[d] = op[d],
             op'[c].plan = op[c].plan, op'[c].kind = op[c].kind,
             op[c].kind = "apply" => (op'[c].step \in Staging <=> op[c].step \in Staging)
      PROVE  PhaseInv' /\ OneOpenJournal'
  <2>1. PhaseOf(c)
    BY <1>2, <1>9
  <2>2. PhaseOf(c)'
    BY <1>9, <2>1 DEF PhaseOf, Open
  <2> QED BY <1>4, <1>6, <1>9, <2>2
<1>10. ASSUME NEW c \in Procs, NEW i \in Intents, StageIntent(c, i) PROVE PhaseInv' /\ OneOpenJournal'
  <2>1. op[c] \in Running /\ op[c] # Idle /\ op[c].step = "stage"
    BY <1>1, <1>10, RunningOp DEF StageIntent, Idle
  <2>2. op'[c] = [op[c] EXCEPT !.step = "create", !.id = i] /\ \A d \in Procs \ {c} : op'[d] = op[d]
    BY <1>1, <1>10, <2>1 DEF StageIntent, TypeOK
  <2>3. op'[c].plan = op[c].plan /\ op'[c].kind = op[c].kind /\ op'[c].step = "create"
    BY <2>1, <2>2 DEF Running
  <2>4. UNCHANGED <<lock, journal>>
    BY <1>10 DEF StageIntent, stores
  <2> QED BY <1>9, <2>1, <2>2, <2>3, <2>4 DEF Staging, NextTarget
<1>11. ASSUME NEW c \in Procs, NEW n \in Inodes, StageCreate(c, n) PROVE PhaseInv' /\ OneOpenJournal'
  <2>1. op[c] \in Running /\ op[c] # Idle /\ op[c].step = "create"
    BY <1>1, <1>11, RunningOp DEF StageCreate, Idle
  <2>2. op'[c] = [op[c] EXCEPT !.step = "own", !.ino = n] /\ \A d \in Procs \ {c} : op'[d] = op[d]
    BY <1>1, <1>11, <2>1 DEF StageCreate, TypeOK
  <2>3. op'[c].plan = op[c].plan /\ op'[c].kind = op[c].kind /\ op'[c].step = "own"
    BY <2>1, <2>2 DEF Running
  <2>4. UNCHANGED <<lock, journal>>
    BY <1>11 DEF StageCreate, stores
  <2> QED BY <1>9, <2>1, <2>2, <2>3, <2>4 DEF Staging, NextTarget
<1>12. ASSUME NEW c \in Procs, StageOwner(c) PROVE PhaseInv' /\ OneOpenJournal'
  <2>1. op[c] \in Running /\ op[c] # Idle /\ op[c].step = "own"
    BY <1>1, <1>12, RunningOp DEF StageOwner, Idle
  <2>2. op'[c] = [op[c] EXCEPT !.step = "write"] /\ \A d \in Procs \ {c} : op'[d] = op[d]
    BY <1>1, <1>12, <2>1 DEF StageOwner, TypeOK
  <2>3. op'[c].plan = op[c].plan /\ op'[c].kind = op[c].kind /\ op'[c].step = "write"
    BY <2>1, <2>2 DEF Running
  <2>4. UNCHANGED <<lock, journal>>
    BY <1>12 DEF StageOwner, stores
  <2> QED BY <1>9, <2>1, <2>2, <2>3, <2>4 DEF Staging, NextTarget
<1>13. ASSUME NEW c \in Procs, Recheck(c) PROVE PhaseInv' /\ OneOpenJournal'
  <2>1. op[c] \in Running /\ op[c] # Idle /\ op[c].step = "recheck"
    BY <1>1, <1>13, RunningOp DEF Recheck, Idle
  <2>2. op'[c] = [op[c] EXCEPT !.step = NextTarget(op[c].work)] /\ \A d \in Procs \ {c} : op'[d] = op[d]
    BY <1>1, <1>13, <2>1 DEF Recheck, TypeOK
  <2>3. op'[c].plan = op[c].plan /\ op'[c].kind = op[c].kind /\ op'[c].step = NextTarget(op[c].work)
    BY <2>1, <2>2 DEF Running
  <2>4. UNCHANGED <<lock, journal>>
    BY <1>13 DEF Recheck, stores
  <2> QED BY <1>9, <2>1, <2>2, <2>3, <2>4 DEF Staging, NextTarget
<1>14. ASSUME NEW c \in Procs, CheckTarget(c) PROVE PhaseInv' /\ OneOpenJournal'
  <2>1. op[c] \in Running /\ op[c] # Idle /\ op[c].step = "rename"
    BY <1>1, <1>14, RunningOp DEF CheckTarget, Idle
  <2>2. op'[c] = [op[c] EXCEPT !.step = "swap"] /\ \A d \in Procs \ {c} : op'[d] = op[d]
    BY <1>1, <1>14, <2>1 DEF CheckTarget, TypeOK
  <2>3. op'[c].plan = op[c].plan /\ op'[c].kind = op[c].kind /\ op'[c].step = "swap"
    BY <2>1, <2>2 DEF Running
  <2>4. UNCHANGED <<lock, journal>>
    BY <1>14 DEF CheckTarget, stores
  <2> QED BY <1>9, <2>1, <2>2, <2>3, <2>4 DEF Staging, NextTarget
<1>15. ASSUME NEW c \in Procs, Swap(c) PROVE PhaseInv' /\ OneOpenJournal'
  <2>1. op[c] \in Running /\ op[c] # Idle /\ op[c].step = "swap"
    BY <1>1, <1>15, RunningOp DEF Swap, Idle
  <2>2. op'[c] = [op[c] EXCEPT !.step = "replaced"] /\ \A d \in Procs \ {c} : op'[d] = op[d]
    BY <1>1, <1>15, <2>1 DEF Swap, TypeOK
  <2>3. op'[c].plan = op[c].plan /\ op'[c].kind = op[c].kind /\ op'[c].step = "replaced"
    BY <2>1, <2>2 DEF Running
  <2>4. UNCHANGED <<lock, journal>>
    BY <1>15 DEF Swap, stores
  <2> QED BY <1>9, <2>1, <2>2, <2>3, <2>4 DEF Staging, NextTarget
<1>16. ASSUME NEW c \in Procs, VerifyCompletion(c) PROVE PhaseInv' /\ OneOpenJournal'
  <2>1. op[c] \in Running /\ op[c] # Idle /\ op[c].step = "verify"
    BY <1>1, <1>16, RunningOp DEF VerifyCompletion, Idle
  <2>2. op'[c] = [op[c] EXCEPT !.step = "complete"] /\ \A d \in Procs \ {c} : op'[d] = op[d]
    BY <1>1, <1>16, <2>1 DEF VerifyCompletion, TypeOK
  <2>3. op'[c].plan = op[c].plan /\ op'[c].kind = op[c].kind /\ op'[c].step = "complete"
    BY <2>1, <2>2 DEF Running
  <2>4. UNCHANGED <<lock, journal>>
    BY <1>16 DEF VerifyCompletion, stores
  <2> QED BY <1>9, <2>1, <2>2, <2>3, <2>4 DEF Staging, NextTarget
<1>17. ASSUME NEW c \in Procs, StageWrite(c) PROVE PhaseInv' /\ OneOpenJournal'
  <2> DEFINE f == First(op[c].todo)  rest == op[c].todo \ {f}
             s == IF op[c].kind = "resume" THEN "repaired" ELSE AfterStaging("apply", rest)
             t == IF op[c].kind = "resume" THEN op[c].todo ELSE rest
             st == [op[c].staged EXCEPT ![f] = op[c].id]
  <2>1. op[c] \in Running /\ op[c] # Idle /\ op[c].step = "write"
    BY <1>1, <1>17, RunningOp DEF StageWrite, Idle
  <2>2. op'[c] = [op[c] EXCEPT !.step = s, !.todo = t, !.staged = st, !.id = None, !.ino = None]
        /\ \A d \in Procs \ {c} : op'[d] = op[d]
    BY <1>1, <1>17, <2>1 DEF StageWrite, TypeOK
  <2>3. op[c].kind = "apply" => s \in Staging
    BY DEF AfterStaging, Staging
  <2> HIDE DEF s, t, st
  <2>4. op'[c].plan = op[c].plan /\ op'[c].kind = op[c].kind /\ op'[c].step = s
    BY <2>1, <2>2 DEF Running
  <2>5. UNCHANGED <<lock, journal>>
    BY <1>17 DEF StageWrite
  <2> QED BY <1>9, <2>1, <2>2, <2>3, <2>4, <2>5 DEF Staging
\* A record leaves every journal as open as it was.
<1>18. ASSUME NEW c \in Procs, op[c] # Idle, op[c].plan \in Plans, UNCHANGED lock,
              Open(op[c].plan), Open(op[c].plan)',
              \A q \in Plans \ {op[c].plan} : journal'[q] = journal[q],
              \A d \in Procs \ {c} : op'[d] = op[d], op'[c].plan = op[c].plan,
              op'[c].kind = "apply" => op'[c].step \notin Staging
       PROVE  PhaseInv' /\ OneOpenJournal'
  <2>1. lock = c /\ \A q \in Plans \ {op[c].plan} : ~Open(q)
    BY <1>2, <1>18 DEF PhaseOf
  <2>2. \A q \in Plans \ {op[c].plan} : (journal'[q] = None \/ journal'[q].done)
    BY <1>18, <2>1 DEF Open
  <2>3. journal'[op[c].plan] # None /\ ~journal'[op[c].plan].done
    BY <1>18 DEF Open
  <2> QED
    <3>1. OneOpenJournal'
      BY <2>2 DEF OneOpenJournal, Open
    <3>2. PhaseOf(c)'
      BY <1>18, <2>1, <2>2, <2>3 DEF PhaseOf, Open
    <3> QED BY <1>4, <1>18, <3>1, <3>2
<1>19. ASSUME NEW c \in Procs, RepairRecord(c) PROVE PhaseInv' /\ OneOpenJournal'
  <2>1. /\ op[c] \in Running /\ op[c] # Idle /\ op[c].step = "repaired" /\ op[c].plan \in Plans
        /\ OpShape(op[c])
        /\ Open(op[c].plan) /\ journal[op[c].plan] \in JournalRecord
    BY <1>1, <1>19, RunningOp, OpenAtWork DEF RepairRecord, Idle
  <2>2. /\ op'[c] = [op[c] EXCEPT !.step = AfterStaging("resume", op[c].todo \ {First(op[c].todo)}), !.todo = op[c].todo \ {First(op[c].todo)}]
        /\ \A d \in Procs \ {c} : op'[d] = op[d]
        /\ lock' = lock
        /\ \A q \in Plans \ {op[c].plan} : journal'[q] = journal[q]
    BY <1>1, <1>19, <2>1 DEF RepairRecord, TypeOK
  <2>3. op'[c].plan = op[c].plan /\ op'[c].kind = op[c].kind /\ op'[c].step = AfterStaging("resume", op[c].todo \ {First(op[c].todo)})
    BY <2>1, <2>2 DEF Running
  <2>4. journal'[op[c].plan].done = journal[op[c].plan].done /\ journal'[op[c].plan] # None
    <3> DEFINE f == First(op[c].todo)
               j == [journal[op[c].plan] EXCEPT !.records =
                       Append(@, [kind |-> "stage", file |-> f, intent |-> op[c].staged[f]])]
    <3>1. f \in Files /\ op[c].staged[f] \in Intents
      BY <1>1, <2>1, RunningOp DEF OpShape, Used
    <3>2. j \in JournalRecord
      BY <2>1, <3>1, AppendType
    <3>3. journal'[op[c].plan] = j
      BY <1>1, <1>19, <2>1 DEF RepairRecord, TypeOK
    <3>4. j.done = journal[op[c].plan].done
      BY <2>1 DEF JournalRecord
    <3> QED BY <3>2, <3>3, <3>4, NoneAssumption
  <2> QED BY <1>18, <2>1, <2>2, <2>3, <2>4 DEF Open, Staging, OpShape, AfterStaging
<1>20. ASSUME NEW c \in Procs, RecordReplacement(c) PROVE PhaseInv' /\ OneOpenJournal'
  <2>1. /\ op[c] \in Running /\ op[c] # Idle /\ op[c].step = "replaced" /\ op[c].plan \in Plans
        /\ OpShape(op[c])
        /\ Open(op[c].plan) /\ journal[op[c].plan] \in JournalRecord
    BY <1>1, <1>20, RunningOp, OpenAtWork DEF RecordReplacement, Idle
  <2>2. /\ op'[c] = [op[c] EXCEPT !.step = NextTarget(op[c].work \ {First(op[c].work)}), !.work = op[c].work \ {First(op[c].work)}]
        /\ \A d \in Procs \ {c} : op'[d] = op[d]
        /\ lock' = lock
        /\ \A q \in Plans \ {op[c].plan} : journal'[q] = journal[q]
    BY <1>1, <1>20, <2>1 DEF RecordReplacement, TypeOK
  <2>3. op'[c].plan = op[c].plan /\ op'[c].kind = op[c].kind /\ op'[c].step = NextTarget(op[c].work \ {First(op[c].work)})
    BY <2>1, <2>2 DEF Running
  <2>4. journal'[op[c].plan].done = journal[op[c].plan].done /\ journal'[op[c].plan] # None
    <3> DEFINE f == First(op[c].work)
               j == [journal[op[c].plan] EXCEPT !.records =
                       Append(@, [kind |-> "replace", file |-> f, intent |-> op[c].staged[f]])]
    <3>1. f \in Files /\ op[c].staged[f] \in Intents
      BY <1>1, <2>1, RunningOp DEF OpShape, Used
    <3>2. j \in JournalRecord
      BY <2>1, <3>1, AppendType
    <3>3. journal'[op[c].plan] = j
      BY <1>1, <1>20, <2>1 DEF RecordReplacement, TypeOK
    <3>4. j.done = journal[op[c].plan].done
      BY <2>1 DEF JournalRecord
    <3> QED BY <3>2, <3>3, <3>4, NoneAssumption
  <2> QED BY <1>18, <2>1, <2>2, <2>3, <2>4 DEF Open, Staging, NextTarget
<1>21. ASSUME NEW c \in Procs, Prepare(c) PROVE PhaseInv' /\ OneOpenJournal'
  <2>1. /\ op[c] \in Running /\ op[c] # Idle /\ op[c].step = "prepare" /\ op[c].plan \in Plans
        /\ PhaseOf(c)
    BY <1>1, <1>2, <1>21, RunningOp DEF Prepare, Idle
  <2>2. /\ op'[c] = [op[c] EXCEPT !.step = "recheck"]
        /\ \A d \in Procs \ {c} : op'[d] = op[d]
        /\ lock' = lock
        /\ \A q \in Plans \ {op[c].plan} : journal'[q] = journal[q]
    BY <1>1, <1>21, <2>1 DEF Prepare, TypeOK
  <2>3. op'[c].plan = op[c].plan /\ op'[c].kind = op[c].kind /\ op'[c].step = "recheck"
    BY <2>1, <2>2 DEF Running
  <2> DEFINE j == [attempt |-> op[c].attempt, prepared |-> op[c].staged, records |-> <<>>, done |-> FALSE]
  <2>4. journal'[op[c].plan] = j
    BY <1>1, <1>21, <2>1 DEF Prepare, TypeOK
  <2>5. j \in JournalRecord
    BY <2>1 DEF Running, JournalRecord
  <2>6. journal'[op[c].plan] # None /\ ~journal'[op[c].plan].done
    <3>1. j # None
      BY <2>5, NoneAssumption
    <3>2. ~j.done
      OBVIOUS
    <3> HIDE DEF j
    <3> QED BY <2>4, <3>1, <3>2
  <2>7. \A q \in Plans \ {op[c].plan} : ~Open(q)'
    BY <2>1, <2>2 DEF PhaseOf, Open
  <2>8. OneOpenJournal'
    BY <2>7 DEF OneOpenJournal
  <2>9. PhaseOf(c)'
    BY <2>1, <2>2, <2>3, <2>6, <2>7 DEF PhaseOf, Open, Staging
  <2> QED BY <1>4, <2>1, <2>2, <2>8, <2>9
<1>22. ASSUME NEW c \in Procs, WriteCompletion(c) PROVE PhaseInv' /\ OneOpenJournal'
  <2>1. /\ op[c] # Idle /\ op[c].plan \in Plans /\ Open(op[c].plan)
        /\ journal[op[c].plan] \in JournalRecord /\ PhaseOf(c)
    BY <1>1, <1>2, <1>22, RunningOp, OpenAtWork DEF WriteCompletion, Idle
  <2>2. op'[c] = Idle /\ (\A d \in Procs \ {c} : op'[d] = op[d])
        /\ \A q \in Plans \ {op[c].plan} : journal'[q] = journal[q]
    BY <1>1, <1>22, <2>1 DEF WriteCompletion, Stop, TypeOK
  <2>3. journal'[op[c].plan].done
    BY <1>1, <1>22, <2>1 DEF WriteCompletion, TypeOK, JournalRecord
  <2>4. OneOpenJournal'
    BY <2>1, <2>2, <2>3 DEF OneOpenJournal, Open, PhaseOf
  <2> QED BY <1>4, <2>1, <2>2, <2>4
<1>23. ASSUME NEW c \in Procs, Refuse(c) \/ Crash(c) PROVE PhaseInv' /\ OneOpenJournal'
  <2>1. op[c] # Idle /\ op'[c] = Idle /\ (\A d \in Procs \ {c} : op'[d] = op[d]) /\ UNCHANGED journal
    BY <1>1, <1>23 DEF Refuse, Crash, Stop, stores, TypeOK
  <2> QED BY <1>4, <1>6, <2>1
<1>24. ASSUME NEW p \in Plans, BuildPlan(p) PROVE PhaseInv' /\ OneOpenJournal'
  BY <1>5, <1>24 DEF BuildPlan
<1>25. ASSUME NEW f \in Files, NEW v \in FileRecord \cup {None}, EditTarget(f, v)
       PROVE  PhaseInv' /\ OneOpenJournal'
  BY <1>5, <1>25 DEF EditTarget, ForeignWrite
<1>26. ASSUME NEW i \in Intents, NEW d \in {"partial", "junk", "gone"}, EditStage(i, d)
       PROVE  PhaseInv' /\ OneOpenJournal'
  BY <1>5, <1>26 DEF EditStage, ForeignWrite
<1>27. CASE EditInputs \/ UNCHANGED vars
  BY <1>5, <1>27 DEF EditInputs, ForeignWrite, vars
<1> QED
  BY <1>7, <1>8, <1>10, <1>11, <1>12, <1>13, <1>14, <1>15, <1>16, <1>17, <1>19, <1>20, <1>21, <1>22,
     <1>23, <1>24, <1>25, <1>26, <1>27 DEF Next, Apply, Work, FileRecord

-----------------------------------------------------------------------------
\* The strengthened invariant holds at the start and after every step.
LEMMA InductiveInvariant == Spec => []IInv
<1>1. Init => IInv
  <2> SUFFICES ASSUME Init PROVE IInv
    OBVIOUS
  <2>1. file \in [Files -> FileRecord]
    BY ConstantsAssumption DEF Init, FileRecord
  <2>2. TypeOK
    <3>1. file \in [Files -> FileRecord \cup {None}] /\ op \in [Procs -> Running \cup {Idle}]
      BY <2>1 DEF Init
    <3>2. plan \in [Plans -> PlanRecord \cup {None}]
      BY DEF Init
    <3>4. scratch \in [Intents -> ScratchRecord \cup {None}]
      BY DEF Init
    <3>5. journal \in [Plans -> JournalRecord \cup {None}]
      BY DEF Init
    <3>3. swapped \in Seq([plan : Plans, file : Files, over : FileRecord \cup {None}, raced : BOOLEAN])
      BY DEF Init
    <3> QED BY <3>1, <3>2, <3>3, <3>4, <3>5 DEF Init, TypeOK
  <2>3. ShapeInv /\ PhaseInv /\ OneOpenJournal
    BY DEF Init, ShapeInv, PhaseInv, OneOpenJournal, Open
  <2> QED BY <2>2, <2>3 DEF IInv
<1>2. IInv /\ [Next]_vars => IInv'
  <2> SUFFICES ASSUME IInv, [Next]_vars PROVE IInv'
    OBVIOUS
  <2>1. TypeOK' /\ ShapeInv'
    BY TypeStep, ShapeStep DEF IInv
  <2> QED BY <2>1, PhaseStep DEF IInv
<1> QED BY <1>1, <1>2, PTL DEF Spec

\* Type correctness of plan, apply, resume and every journal they write
\* (changeset_journal.py), for any number of plans, files and crashes.
THEOREM TypeCorrect == Spec => []TypeOK
<1>1. IInv => TypeOK
  BY DEF IInv
<1> QED BY <1>1, InductiveInvariant, PTL

\* However many invocations compete for the workspace, crash, resume and meet
\* foreign writes, at most one batch is committed and not completed.
THEOREM OneOpenBatch == Spec => []OneOpenJournal
<1>1. IInv => OneOpenJournal
  BY DEF IInv
<1> QED BY <1>1, InductiveInvariant, PTL

-----------------------------------------------------------------------------
(***************************************************************************)
(* What a step makes of the invocation that takes it.                      *)
(***************************************************************************)
Became(c, step, todo, work, staged, id, ino) ==
    /\ op[c] \in Running /\ op[c] # Idle
    /\ op'[c] \in Running
    /\ op'[c].step = step
    /\ op'[c].kind = op[c].kind /\ op'[c].plan = op[c].plan /\ op'[c].attempt = op[c].attempt
    /\ op'[c].todo = todo /\ op'[c].work = work /\ op'[c].staged = staged
    /\ op'[c].id = id /\ op'[c].ino = ino
    /\ \A d \in Procs \ {c} : op'[d] = op[d]

\* It goes on to another step, with another stage file at most.
GoesOn(c, step, id, ino) == Became(c, step, op[c].todo, op[c].work, op[c].staged, id, ino)

\* What the work of one operation leaves of its own record, of the journals and of the log.
LEMMA Advances ==
    ASSUME TypeOK, TypeOK', ShapeInv, NEW c \in Procs
    PROVE  /\ \A i \in Intents : StageIntent(c, i) =>
                 op[c].step = "stage" /\ GoesOn(c, "create", i, op[c].ino)
           /\ \A n \in Inodes : StageCreate(c, n) =>
                 op[c].step = "create" /\ GoesOn(c, "own", op[c].id, n)
           /\ StageOwner(c) => op[c].step = "own" /\ GoesOn(c, "write", op[c].id, op[c].ino)
           /\ StageWrite(c) =>
                 /\ op[c].step = "write"
                 /\ LET f == First(op[c].todo)
                        staged == [op[c].staged EXCEPT ![f] = op[c].id]
                        rest == op[c].todo \ {f}
                    IN  IF op[c].kind = "resume"
                        THEN Became(c, "repaired", op[c].todo, op[c].work, staged, None, None)
                        ELSE Became(c, AfterStaging("apply", rest), rest, op[c].work, staged, None, None)
           /\ RepairRecord(c) =>
                 /\ op[c].step = "repaired"
                 /\ LET rest == op[c].todo \ {First(op[c].todo)}
                    IN  Became(c, AfterStaging("resume", rest), rest, op[c].work, op[c].staged,
                               op[c].id, op[c].ino)
           /\ Prepare(c) => op[c].step = "prepare" /\ GoesOn(c, "recheck", op[c].id, op[c].ino)
           /\ Recheck(c) =>
                 op[c].step = "recheck" /\ GoesOn(c, NextTarget(op[c].work), op[c].id, op[c].ino)
           /\ CheckTarget(c) => op[c].step = "rename" /\ GoesOn(c, "swap", op[c].id, op[c].ino)
           /\ Swap(c) => op[c].step = "swap" /\ GoesOn(c, "replaced", op[c].id, op[c].ino)
           /\ RecordReplacement(c) =>
                 /\ op[c].step = "replaced"
                 /\ LET rest == op[c].work \ {First(op[c].work)}
                    IN  Became(c, NextTarget(rest), op[c].todo, rest, op[c].staged, op[c].id, op[c].ino)
           /\ VerifyCompletion(c) =>
                 op[c].step = "verify" /\ GoesOn(c, "complete", op[c].id, op[c].ino)
<1> USE DEF At
<1>1. op \in [Procs -> Running \cup {Idle}] /\ op' \in [Procs -> Running \cup {Idle}]
  BY DEF TypeOK
\* A step of a running invocation that replaces some of its fields.
<1>2. ASSUME NEW step, step # "idle", NEW todo, NEW work, NEW staged, NEW id, NEW ino, op[c].step # "idle",
             op' = [op EXCEPT ![c] = [op[c] EXCEPT !.step = step, !.todo = todo, !.work = work,
                                                   !.staged = staged, !.id = id, !.ino = ino]]
      PROVE  Became(c, step, todo, work, staged, id, ino)
  <2>1. op[c] \in Running /\ op[c] # Idle
    BY <1>1, <1>2 DEF Idle
  <2> DEFINE o == [op[c] EXCEPT !.step = step, !.todo = todo, !.work = work, !.staged = staged,
                                !.id = id, !.ino = ino]
  <2>2. o.step = step /\ o.kind = op[c].kind /\ o.plan = op[c].plan /\ o.attempt = op[c].attempt
        /\ o.todo = todo /\ o.work = work /\ o.staged = staged /\ o.id = id /\ o.ino = ino
    BY <2>1 DEF Running
  <2>3. op'[c] = o /\ \A d \in Procs \ {c} : op'[d] = op[d]
    BY <1>1, <1>2
  <2> HIDE DEF o
  <2>4. op'[c] \in Running
    <3>1. op'[c].step # "idle" /\ op'[c] \in Running \cup {Idle}
      BY <1>1, <1>2, <2>2, <2>3
    <3> QED BY <3>1 DEF Idle
  <2> QED BY <2>1, <2>2, <2>3, <2>4 DEF Became
\* The same record, with the fields that stay written out.
<1>3. ASSUME op[c].step # "idle" PROVE op[c] \in Running
  BY <1>1, <1>3 DEF Idle
<1>4. ASSUME NEW i \in Intents, StageIntent(c, i)
      PROVE  op[c].step = "stage" /\ GoesOn(c, "create", i, op[c].ino)
  <2>1. op[c].step = "stage" /\ op[c] \in Running
    BY <1>3, <1>4 DEF StageIntent
  <2>2. [op[c] EXCEPT !.step = "create", !.id = i]
          = [op[c] EXCEPT !.step = "create", !.todo = op[c].todo, !.work = op[c].work,
                          !.staged = op[c].staged, !.id = i, !.ino = op[c].ino]
    BY <2>1 DEF Running
  <2>3. op' = [op EXCEPT ![c] = [op[c] EXCEPT !.step = "create", !.id = i]]
    BY <1>4 DEF StageIntent
  <2> QED BY <1>2, <2>1, <2>2, <2>3 DEF GoesOn
<1>5. ASSUME NEW n \in Inodes, StageCreate(c, n)
      PROVE  op[c].step = "create" /\ GoesOn(c, "own", op[c].id, n)
  <2>1. op[c].step = "create" /\ op[c] \in Running
    BY <1>3, <1>5 DEF StageCreate
  <2>2. [op[c] EXCEPT !.step = "own", !.ino = n]
          = [op[c] EXCEPT !.step = "own", !.todo = op[c].todo, !.work = op[c].work,
                          !.staged = op[c].staged, !.id = op[c].id, !.ino = n]
    BY <2>1 DEF Running
  <2>3. op' = [op EXCEPT ![c] = [op[c] EXCEPT !.step = "own", !.ino = n]]
    BY <1>5 DEF StageCreate
  <2> QED BY <1>2, <2>1, <2>2, <2>3 DEF GoesOn
<1>6. ASSUME StageOwner(c)
      PROVE  op[c].step = "own" /\ GoesOn(c, "write", op[c].id, op[c].ino)
  <2>1. op[c].step = "own" /\ op[c] \in Running
    BY <1>3, <1>6 DEF StageOwner
  <2>2. [op[c] EXCEPT !.step = "write"]
          = [op[c] EXCEPT !.step = "write", !.todo = op[c].todo, !.work = op[c].work,
                          !.staged = op[c].staged, !.id = op[c].id, !.ino = op[c].ino]
    BY <2>1 DEF Running
  <2>3. op' = [op EXCEPT ![c] = [op[c] EXCEPT !.step = "write"]]
    BY <1>6 DEF StageOwner
  <2> QED BY <1>2, <2>1, <2>2, <2>3 DEF GoesOn
<1>7. ASSUME Prepare(c)
      PROVE  op[c].step = "prepare" /\ GoesOn(c, "recheck", op[c].id, op[c].ino)
  <2>1. op[c].step = "prepare" /\ op[c] \in Running
    BY <1>3, <1>7 DEF Prepare
  <2>2. [op[c] EXCEPT !.step = "recheck"]
          = [op[c] EXCEPT !.step = "recheck", !.todo = op[c].todo, !.work = op[c].work,
                          !.staged = op[c].staged, !.id = op[c].id, !.ino = op[c].ino]
    BY <2>1 DEF Running
  <2>3. op' = [op EXCEPT ![c] = [op[c] EXCEPT !.step = "recheck"]]
    BY <1>7 DEF Prepare
  <2> QED BY <1>2, <2>1, <2>2, <2>3 DEF GoesOn
<1>8. ASSUME Recheck(c)
      PROVE  op[c].step = "recheck" /\ GoesOn(c, NextTarget(op[c].work), op[c].id, op[c].ino)
  <2>1. op[c].step = "recheck" /\ op[c] \in Running
    BY <1>3, <1>8 DEF Recheck
  <2>2. [op[c] EXCEPT !.step = NextTarget(op[c].work)]
          = [op[c] EXCEPT !.step = NextTarget(op[c].work), !.todo = op[c].todo, !.work = op[c].work,
                          !.staged = op[c].staged, !.id = op[c].id, !.ino = op[c].ino]
    BY <2>1 DEF Running
  <2>3. op' = [op EXCEPT ![c] = [op[c] EXCEPT !.step = NextTarget(op[c].work)]]
    BY <1>8 DEF Recheck
  <2>4. NextTarget(op[c].work) # "idle"
    BY DEF NextTarget
  <2> QED BY <1>2, <2>1, <2>2, <2>3, <2>4 DEF GoesOn
<1>9. ASSUME CheckTarget(c)
      PROVE  op[c].step = "rename" /\ GoesOn(c, "swap", op[c].id, op[c].ino)
  <2>1. op[c].step = "rename" /\ op[c] \in Running
    BY <1>3, <1>9 DEF CheckTarget
  <2>2. [op[c] EXCEPT !.step = "swap"]
          = [op[c] EXCEPT !.step = "swap", !.todo = op[c].todo, !.work = op[c].work,
                          !.staged = op[c].staged, !.id = op[c].id, !.ino = op[c].ino]
    BY <2>1 DEF Running
  <2>3. op' = [op EXCEPT ![c] = [op[c] EXCEPT !.step = "swap"]]
    BY <1>9 DEF CheckTarget
  <2> QED BY <1>2, <2>1, <2>2, <2>3 DEF GoesOn
<1>10. ASSUME Swap(c)
      PROVE  op[c].step = "swap" /\ GoesOn(c, "replaced", op[c].id, op[c].ino)
  <2>1. op[c].step = "swap" /\ op[c] \in Running
    BY <1>3, <1>10 DEF Swap
  <2>2. [op[c] EXCEPT !.step = "replaced"]
          = [op[c] EXCEPT !.step = "replaced", !.todo = op[c].todo, !.work = op[c].work,
                          !.staged = op[c].staged, !.id = op[c].id, !.ino = op[c].ino]
    BY <2>1 DEF Running
  <2>3. op' = [op EXCEPT ![c] = [op[c] EXCEPT !.step = "replaced"]]
    BY <1>10 DEF Swap
  <2> QED BY <1>2, <2>1, <2>2, <2>3 DEF GoesOn
<1>11. ASSUME VerifyCompletion(c)
      PROVE  op[c].step = "verify" /\ GoesOn(c, "complete", op[c].id, op[c].ino)
  <2>1. op[c].step = "verify" /\ op[c] \in Running
    BY <1>3, <1>11 DEF VerifyCompletion
  <2>2. [op[c] EXCEPT !.step = "complete"]
          = [op[c] EXCEPT !.step = "complete", !.todo = op[c].todo, !.work = op[c].work,
                          !.staged = op[c].staged, !.id = op[c].id, !.ino = op[c].ino]
    BY <2>1 DEF Running
  <2>3. op' = [op EXCEPT ![c] = [op[c] EXCEPT !.step = "complete"]]
    BY <1>11 DEF VerifyCompletion
  <2> QED BY <1>2, <2>1, <2>2, <2>3 DEF GoesOn
<1> DEFINE f == First(op[c].todo)
           left == op[c].todo \ {f}
           filled == [op[c].staged EXCEPT ![f] = op[c].id]
           rest == op[c].work \ {First(op[c].work)}
<1>12. ASSUME StageWrite(c), op[c].kind = "resume"
       PROVE  op[c].step = "write"
              /\ Became(c, "repaired", op[c].todo, op[c].work, filled, None, None)
  <2>1. op[c].step = "write" /\ op[c] \in Running
    BY <1>3, <1>12 DEF StageWrite
  <2> DEFINE e == [op[c] EXCEPT !.step = "repaired", !.todo = op[c].todo, !.staged = filled,
                                !.id = None, !.ino = None]
  <2>2. e = [op[c] EXCEPT !.step = "repaired", !.todo = op[c].todo, !.work = op[c].work,
                          !.staged = filled, !.id = None, !.ino = None]
    BY <2>1 DEF Running
  <2>3. op' = [op EXCEPT ![c] = e]
    BY <1>12 DEF StageWrite
  <2> QED BY <1>2, <2>1, <2>2, <2>3
<1>13. ASSUME StageWrite(c), op[c].kind # "resume"
       PROVE  op[c].step = "write"
              /\ Became(c, AfterStaging("apply", left), left, op[c].work, filled, None, None)
  <2>1. op[c].step = "write" /\ op[c] \in Running
    BY <1>3, <1>13 DEF StageWrite
  <2> DEFINE s == AfterStaging("apply", left)
             e == [op[c] EXCEPT !.step = s, !.todo = left, !.staged = filled, !.id = None, !.ino = None]
  <2>2. e = [op[c] EXCEPT !.step = s, !.todo = left, !.work = op[c].work,
                          !.staged = filled, !.id = None, !.ino = None]
    BY <2>1 DEF Running
  <2>3. op' = [op EXCEPT ![c] = e]
    BY <1>13 DEF StageWrite
  <2>4. s # "idle"
    BY DEF AfterStaging
  <2> QED BY <1>2, <2>1, <2>2, <2>3, <2>4
<1>14. ASSUME RepairRecord(c)
       PROVE  op[c].step = "repaired"
              /\ Became(c, AfterStaging("resume", left), left, op[c].work, op[c].staged, op[c].id, op[c].ino)
  <2>1. op[c].step = "repaired" /\ op[c] \in Running
    BY <1>3, <1>14 DEF RepairRecord
  <2> DEFINE s == AfterStaging("resume", left)
             e == [op[c] EXCEPT !.step = s, !.todo = left]
  <2>2. e = [op[c] EXCEPT !.step = s, !.todo = left, !.work = op[c].work,
                          !.staged = op[c].staged, !.id = op[c].id, !.ino = op[c].ino]
    BY <2>1 DEF Running
  <2>3. op' = [op EXCEPT ![c] = e]
    BY <1>14 DEF RepairRecord
  <2>4. s # "idle"
    BY DEF AfterStaging
  <2> QED BY <1>2, <2>1, <2>2, <2>3, <2>4
<1>15. ASSUME RecordReplacement(c)
       PROVE  op[c].step = "replaced"
              /\ Became(c, NextTarget(rest), op[c].todo, rest, op[c].staged, op[c].id, op[c].ino)
  <2>1. op[c].step = "replaced" /\ op[c] \in Running
    BY <1>3, <1>15 DEF RecordReplacement
  <2> DEFINE s == NextTarget(rest)
             e == [op[c] EXCEPT !.step = s, !.work = rest]
  <2>2. e = [op[c] EXCEPT !.step = s, !.todo = op[c].todo, !.work = rest,
                          !.staged = op[c].staged, !.id = op[c].id, !.ino = op[c].ino]
    BY <2>1 DEF Running
  <2>3. op' = [op EXCEPT ![c] = e]
    BY <1>15 DEF RecordReplacement
  <2>4. s # "idle"
    BY DEF NextTarget
  <2> QED BY <1>2, <2>1, <2>2, <2>3, <2>4
<1> HIDE DEF f, left, filled, rest
<1> QED BY <1>4, <1>5, <1>6, <1>7, <1>8, <1>9, <1>10, <1>11, <1>12, <1>13, <1>14, <1>15
        DEF f, left, filled, rest

-----------------------------------------------------------------------------
(***************************************************************************)
(* What a rename discards, whoever else writes.                            *)
(***************************************************************************)
\* Between the last check and the rename the target is the file its plan
\* pins, or somebody else has written it in this window.
RenameInv ==
    /\ OverwritesOnlyInWindow
    /\ \A k \in DOMAIN swapped : plan[swapped[k].plan] # None
    /\ \A c \in Procs : op[c].step = "swap" =>
          raced \/ file[First(op[c].work)] = plan[op[c].plan][First(op[c].work)]

\* Every step keeps RenameInv.
LEMMA RenameStep ==
    ASSUME IInv, RenameInv, [Next]_vars, TypeOK'
    PROVE  RenameInv'
<1>1. TypeOK /\ ShapeInv /\ PhaseInv /\ Kept
  BY KeptStep DEF IInv
<1>2. /\ Len(swapped) \in Nat /\ DOMAIN swapped = 1..Len(swapped)
      /\ \A k \in DOMAIN swapped : swapped[k].plan \in Plans
  <2> DEFINE R == [plan : Plans, file : Files, over : FileRecord \cup {None}, raced : BOOLEAN]
  <2>1. swapped \in Seq(R)
    BY <1>1 DEF TypeOK
  <2>2. Len(swapped) \in Nat /\ DOMAIN swapped = 1..Len(swapped)
    BY <2>1
  <2>3. ASSUME NEW k \in DOMAIN swapped PROVE swapped[k] \in R
    BY <2>1, <2>2, ElementOfSeq
  <2> QED BY <2>2, <2>3
<1>3. \A k \in DOMAIN swapped :
         plan[swapped[k].plan] # None /\ plan'[swapped[k].plan] = plan[swapped[k].plan]
  BY <1>1, <1>2 DEF RenameInv, Kept
<1>4. \A c \in Procs : op[c].step = "swap" =>
         op[c] # Idle /\ plan'[op[c].plan] = plan[op[c].plan]
  BY <1>1, PlanStays DEF Idle
\* A step that renames nothing and brings nobody to a rename.
<1>5. ASSUME UNCHANGED swapped,
             \A c \in Procs : op'[c].step = "swap" =>
                /\ op'[c] = op[c] /\ (raced => raced')
                /\ raced' \/ file'[First(op[c].work)] = file[First(op[c].work)]
      PROVE  RenameInv'
  <2>1. OverwritesOnlyInWindow'
    BY <1>3, <1>5 DEF RenameInv, OverwritesOnlyInWindow
  <2>2. \A k \in DOMAIN swapped' : plan'[swapped'[k].plan] # None
    BY <1>3, <1>5
  <2>3. ASSUME NEW c \in Procs, op'[c].step = "swap"
        PROVE  raced' \/ file'[First(op'[c].work)] = plan'[op'[c].plan][First(op'[c].work)]
    BY <1>4, <1>5, <2>3 DEF RenameInv
  <2> QED BY <2>1, <2>2, <2>3 DEF RenameInv
<1>6. ASSUME NEW c \in Procs, op[c] # Idle PROVE \A d \in Procs \ {c} : op[d] = Idle
  BY <1>1, <1>6 DEF PhaseInv
<1>7. ASSUME NEW c \in Procs, UNCHANGED <<file, raced, swapped>>, op'[c].step # "swap",
             \A d \in Procs \ {c} : op'[d] = op[d]
      PROVE  RenameInv'
  BY <1>5, <1>7
<1>8. ASSUME NEW c \in Procs, Apply(c) PROVE RenameInv'
  <2>1. ASSUME NEW p, NEW kind, NEW a, NEW todo, NEW work, NEW staged,
               Begin(c, p, kind, a, todo, work, staged)
        PROVE  RenameInv'
    <3>1. op'[c].step # "swap" /\ \A d \in Procs \ {c} : op'[d] = op[d]
      BY <1>1, <2>1 DEF Begin, AfterStaging, TypeOK
    <3> QED BY <1>7, <2>1, <3>1 DEF Begin
  <2> QED BY <1>8, <2>1 DEF Apply, ApplyBegin, ResumeBegin
<1>9. ASSUME NEW c \in Procs, Refuse(c) \/ Crash(c) \/ WriteCompletion(c) PROVE RenameInv'
  <2>1. op'[c] = Idle /\ \A d \in Procs \ {c} : op'[d] = op[d]
    BY <1>1, <1>9 DEF Refuse, Crash, WriteCompletion, Stop, TypeOK
  <2> QED BY <1>7, <1>9, <2>1 DEF Refuse, Crash, WriteCompletion, Idle
<1>10. ASSUME NEW c \in Procs,
              \/ \E i \in Intents : StageIntent(c, i)
              \/ \E n \in Inodes : StageCreate(c, n)
              \/ StageOwner(c) \/ StageWrite(c) \/ RepairRecord(c) \/ Prepare(c) \/ Recheck(c)
              \/ RecordReplacement(c) \/ VerifyCompletion(c)
       PROVE  RenameInv'
  <2>1. UNCHANGED <<file, raced, swapped>>
    BY <1>10 DEF StageIntent, StageCreate, StageOwner, StageWrite, RepairRecord, Prepare, Recheck,
                 RecordReplacement, VerifyCompletion, stores
  <2>2. op'[c].step # "swap" /\ \A d \in Procs \ {c} : op'[d] = op[d]
    BY <1>1, <1>10, Advances DEF GoesOn, Became, AfterStaging, NextTarget
  <2> QED BY <1>7, <2>1, <2>2
<1>11. ASSUME NEW c \in Procs, CheckTarget(c) PROVE RenameInv'
  <2>1. /\ op[c].step = "rename" /\ op[c] # Idle /\ op'[c].work = op[c].work
        /\ op'[c].plan = op[c].plan /\ \A d \in Procs \ {c} : op'[d] = Idle
    <3>1. /\ op[c].step = "rename" /\ op[c] # Idle /\ op'[c].work = op[c].work
          /\ op'[c].plan = op[c].plan /\ \A d \in Procs \ {c} : op'[d] = op[d]
      BY <1>1, <1>11, Advances DEF GoesOn, Became
    <3> QED BY <1>6, <3>1
  <2>2. file[First(op[c].work)] = plan[op[c].plan][First(op[c].work)]
    BY <1>11, <2>1 DEF CheckTarget, Passes, Ready, original
  <2>3. plan'[op[c].plan] = plan[op[c].plan] /\ UNCHANGED <<file, swapped>>
    BY <1>1, <1>11, <2>1, PlanStays DEF CheckTarget, stores
  <2>4. \A d \in Procs : op'[d].step = "swap" =>
           file'[First(op'[d].work)] = plan'[op'[d].plan][First(op'[d].work)]
    BY <2>1, <2>2, <2>3 DEF Idle
  <2>5. OverwritesOnlyInWindow' /\ \A k \in DOMAIN swapped' : plan'[swapped'[k].plan] # None
    BY <1>3, <2>3 DEF RenameInv, OverwritesOnlyInWindow
  <2> QED BY <2>4, <2>5 DEF RenameInv
<1>12. ASSUME NEW c \in Procs, Swap(c) PROVE RenameInv'
  <2> DEFINE o == op[c]  f == First(o.work)
             r == [plan |-> o.plan, file |-> f, over |-> file[f], raced |-> raced]
  <2>1. /\ o.step = "swap" /\ o # Idle /\ op'[c].step = "replaced"
        /\ \A d \in Procs \ {c} : op'[d] = Idle
    <3>1. /\ o.step = "swap" /\ o # Idle /\ op'[c].step = "replaced"
          /\ \A d \in Procs \ {c} : op'[d] = op[d]
      BY <1>1, <1>12, Advances DEF GoesOn, Became
    <3> QED BY <1>6, <3>1
  <2>2. o.plan \in Plans /\ plan[o.plan] # None /\ plan'[o.plan] = plan[o.plan]
    BY <1>1, <2>1, RunningOp, PlanStays DEF OpShape
  <2>3. r.raced \/ r.over = plan[r.plan][r.file]
    BY <2>1 DEF RenameInv
  <2>4. \A d \in Procs : op'[d].step # "swap"
    BY <2>1 DEF Idle
  <2>5. swapped' = Append(swapped, r)
    BY <1>12 DEF Swap
  <2>6. r.plan = o.plan
    OBVIOUS
  <2> HIDE DEF r
  <2>7. \A k \in DOMAIN swapped' : swapped'[k] = r \/ (k \in DOMAIN swapped /\ swapped'[k] = swapped[k])
    BY <1>2, <2>5
  <2>8. OverwritesOnlyInWindow' /\ \A k \in DOMAIN swapped' : plan'[swapped'[k].plan] # None
    BY <1>3, <2>2, <2>3, <2>6, <2>7 DEF RenameInv, OverwritesOnlyInWindow
  <2> QED BY <2>4, <2>8 DEF RenameInv
<1>13. ASSUME NEW f \in Files, NEW v \in FileRecord \cup {None}, EditTarget(f, v) PROVE RenameInv'
  <2>1. UNCHANGED <<op, swapped>> /\ (raced => raced')
    BY <1>13 DEF EditTarget, ForeignWrite
  <2>2. ASSUME NEW c \in Procs, op[c].step = "swap"
        PROVE  raced' \/ file'[First(op[c].work)] = file[First(op[c].work)]
    <3>1. op[c] # Idle /\ First(op[c].work) \in Files
      <4>1. op[c] # Idle
        BY <2>2 DEF Idle
      <4> QED BY <1>1, <2>2, <4>1, RunningOp DEF OpShape
    <3>2. CASE First(op[c].work) = f
      BY <1>13, <2>2, <3>2 DEF EditTarget, At
    <3>3. CASE First(op[c].work) # f
      BY <1>1, <1>13, <3>1, <3>3 DEF EditTarget, TypeOK
    <3> QED BY <3>2, <3>3
  <2> QED BY <1>5, <2>1, <2>2
<1>14. CASE \/ \E p \in Plans : BuildPlan(p)
            \/ \E i \in Intents, d \in {"partial", "junk", "gone"} : EditStage(i, d)
            \/ EditInputs \/ UNCHANGED vars
  <2>1. UNCHANGED <<op, file, raced, swapped>>
    BY <1>14 DEF BuildPlan, EditStage, EditInputs, ForeignWrite, vars
  <2> QED BY <1>5, <2>1
<1> QED
  BY <1>8, <1>9, <1>10, <1>11, <1>12, <1>13, <1>14 DEF Next, Work, FileRecord

\* RenameInv holds throughout.
LEMMA RenameInvariant == Spec => [](IInv /\ RenameInv)
<1>1. Init => RenameInv
  BY DEF Init, RenameInv, OverwritesOnlyInWindow, Idle
<1>2. IInv /\ IInv' /\ RenameInv /\ [Next]_vars => RenameInv'
  BY RenameStep DEF IInv
<1> QED BY <1>1, <1>2, InductiveInvariant, PTL DEF Spec

\* _rename_target: a rename only ever discards the file the plan was built on,
\* except for what somebody else wrote after its last check.
THEOREM OverwritesInWindow == Spec => []OverwritesOnlyInWindow
<1>1. RenameInv => OverwritesOnlyInWindow
  BY DEF RenameInv
<1> QED BY <1>1, RenameInvariant, PTL

-----------------------------------------------------------------------------
(***************************************************************************)
(* Inodes and the log of renames, whoever else writes.                     *)
(***************************************************************************)
\* No stage file shares its inode with a file of the workspace or with another.
StagesApart ==
    /\ \A i \in StageFiles, f \in Files :
          file[f] # None => scratch[i].sfile.ino # file[f].ino
    /\ \A i, k \in StageFiles : scratch[i].sfile.ino = scratch[k].sfile.ino => i = k

\* Only a committed batch renames.
CommittedRenames == \A k \in DOMAIN swapped : journal[swapped[k].plan] # None

\* A stage whose owner record or file is replaced keeps what it was staged for.
Restaged(i, owner, sfile) ==
    /\ scratch[i] # None /\ scratch'[i] # None
    /\ scratch'[i].plan = scratch[i].plan
    /\ scratch'[i].attempt = scratch[i].attempt
    /\ scratch'[i].file = scratch[i].file
    /\ scratch'[i].owner = owner /\ scratch'[i].sfile = sfile
    /\ \A k \in Intents \ {i} : scratch'[k] = scratch[k]

NewStage(i, p, a, f) ==
    /\ scratch[i] = None /\ scratch'[i] # None
    /\ scratch'[i].plan = p /\ scratch'[i].attempt = a /\ scratch'[i].file = f
    /\ scratch'[i].owner = None /\ scratch'[i].sfile = None
    /\ \A k \in Intents \ {i} : scratch'[k] = scratch[k]

\* A record with another owner and another file.
LEMMA Restaging ==
    ASSUME TypeOK, Kept, NEW i \in Intents, scratch[i] # None, NEW owner, NEW sfile,
           scratch' = [scratch EXCEPT ![i] = [scratch[i] EXCEPT !.owner = owner, !.sfile = sfile]]
    PROVE  Restaged(i, owner, sfile)
<1>1. scratch[i] \in ScratchRecord /\ scratch'[i] # None
  BY DEF TypeOK, Kept, Used
<1> DEFINE s == [scratch[i] EXCEPT !.owner = owner, !.sfile = sfile]
<1>2. s.plan = scratch[i].plan /\ s.attempt = scratch[i].attempt /\ s.file = scratch[i].file
      /\ s.owner = owner /\ s.sfile = sfile
  BY <1>1 DEF ScratchRecord
<1>3. scratch'[i] = s /\ \A k \in Intents \ {i} : scratch'[k] = scratch[k]
  BY DEF TypeOK
<1> HIDE DEF s
<1> QED BY <1>1, <1>2, <1>3 DEF Restaged

\* A stage file that somebody edits keeps its inode or goes.
LEMMA StageEdited ==
    ASSUME TypeOK, Kept, NEW i \in Intents, NEW d \in {"partial", "junk", "gone"}, EditStage(i, d)
    PROVE  /\ scratch[i] # None /\ scratch[i].sfile # None /\ scratch'[i] # None
           /\ scratch'[i].sfile # None => scratch'[i].sfile.ino = scratch[i].sfile.ino
           /\ \A k \in Intents \ {i} : scratch'[k] = scratch[k]
<1> DEFINE v == IF d = "gone" THEN None ELSE [scratch[i].sfile EXCEPT !.data = d]
<1>1. scratch[i] \in ScratchRecord /\ scratch[i] # None /\ scratch[i].sfile # None
  BY DEF EditStage, StageFiles, TypeOK
<1>2. scratch' = [scratch EXCEPT ![i] = [scratch[i] EXCEPT !.sfile = v]]
  BY DEF EditStage
<1>3. v # None => v.ino = scratch[i].sfile.ino
  BY <1>1 DEF ScratchRecord
<1> HIDE DEF v
<1>4. [scratch[i] EXCEPT !.sfile = v] = [scratch[i] EXCEPT !.owner = scratch[i].owner, !.sfile = v]
  BY <1>1 DEF ScratchRecord
<1>5. Restaged(i, scratch[i].owner, v)
  BY <1>1, <1>2, <1>4, Restaging
<1> QED BY <1>1, <1>3, <1>5 DEF Restaged

\* What the steps of an application make of the stages.
LEMMA StageChanges ==
    ASSUME IInv, TypeOK', Kept, NEW c \in Procs
    PROVE  /\ \A i \in Intents : StageIntent(c, i) =>
                 NewStage(i, op[c].plan, op[c].attempt, First(op[c].todo))
           /\ \A n \in Inodes : StageCreate(c, n) =>
                 /\ op[c].id \in Intents
                 /\ Restaged(op[c].id, scratch[op[c].id].owner, [ino |-> n, data |-> "partial"])
           /\ StageOwner(c) =>
                 /\ op[c].id \in Intents
                 /\ Restaged(op[c].id, op[c].ino, scratch[op[c].id].sfile)
           /\ StageWrite(c) =>
                 /\ op[c].id \in Intents
                 /\ \/ /\ stage_state(op[c].id) = "partial"
                       /\ scratch[op[c].id].sfile # None
                       /\ Restaged(op[c].id, scratch[op[c].id].owner,
                                   [ino |-> scratch[op[c].id].sfile.ino, data |-> "ready"])
                    \/ stage_state(op[c].id) # "partial" /\ UNCHANGED scratch
           /\ Swap(c) =>
                 LET i == op[c].staged[First(op[c].work)]
                 IN  i \in Intents /\ scratch[i].sfile # None /\ Restaged(i, scratch[i].owner, None)
<1> USE DEF At
<1>1. TypeOK /\ ShapeInv /\ PhaseInv
  BY DEF IInv
<1>3. ASSUME NEW i \in Intents, StageIntent(c, i)
      PROVE  NewStage(i, op[c].plan, op[c].attempt, First(op[c].todo))
  <2> DEFINE s == [plan |-> op[c].plan, attempt |-> op[c].attempt, file |-> First(op[c].todo),
                   owner |-> None, sfile |-> None]
  <2>1. scratch[i] = None
    BY <1>3 DEF StageIntent, Unused
  <2>2. s \in ScratchRecord
    <3>1. op[c] \in Running /\ op[c].todo # {}
      BY <1>1, <1>3, RunningOp DEF StageIntent, Idle, OpShape
    <3>2. First(op[c].todo) \in Files
      BY <3>1, FirstIn DEF Running
    <3> QED BY <3>1, <3>2 DEF Running, ScratchRecord
  <2>3. scratch'[i] = s /\ \A k \in Intents \ {i} : scratch'[k] = scratch[k]
    BY <1>1, <1>3 DEF TypeOK, StageIntent
  <2>4. s # None
    BY <2>2, NoneAssumption
  <2>5. s.plan = op[c].plan /\ s.attempt = op[c].attempt /\ s.file = First(op[c].todo)
        /\ s.owner = None /\ s.sfile = None
    OBVIOUS
  <2> HIDE DEF s
  <2> QED BY <2>1, <2>3, <2>4, <2>5 DEF NewStage
<1>4. ASSUME NEW n \in Inodes, StageCreate(c, n)
      PROVE  /\ op[c].id \in Intents
             /\ Restaged(op[c].id, scratch[op[c].id].owner, [ino |-> n, data |-> "partial"])
  <2> DEFINE i == op[c].id  v == [ino |-> n, data |-> "partial"]
  <2>1. i \in Intents /\ scratch[i] # None
    BY <1>1, <1>4, RunningOp DEF StageCreate, Idle, OpShape, Used
  <2>2. scratch[i] \in ScratchRecord
    BY <1>1, <2>1 DEF TypeOK
  <2>3. scratch' = [scratch EXCEPT ![i] = [scratch[i] EXCEPT !.sfile = v]]
    BY <1>4 DEF StageCreate
  <2> HIDE DEF v
  <2>4. [scratch[i] EXCEPT !.sfile = v] = [scratch[i] EXCEPT !.owner = scratch[i].owner, !.sfile = v]
    BY <2>2 DEF ScratchRecord
  <2> HIDE DEF i
  <2>5. Restaged(i, scratch[i].owner, v)
    BY <1>1, <2>1, <2>3, <2>4, Restaging
  <2> QED BY <2>1, <2>5 DEF i, v
<1>5. ASSUME StageOwner(c)
      PROVE  op[c].id \in Intents /\ Restaged(op[c].id, op[c].ino, scratch[op[c].id].sfile)
  <2> DEFINE i == op[c].id
  <2>1. i \in Intents /\ scratch[i] # None
    BY <1>1, <1>5, RunningOp DEF StageOwner, Idle, OpShape, Used
  <2>2. scratch[i] \in ScratchRecord
    BY <1>1, <2>1 DEF TypeOK
  <2>3. scratch' = [scratch EXCEPT ![i] = [scratch[i] EXCEPT !.owner = op[c].ino]]
    BY <1>5 DEF StageOwner
  <2>4. [scratch[i] EXCEPT !.owner = op[c].ino]
          = [scratch[i] EXCEPT !.owner = op[c].ino, !.sfile = scratch[i].sfile]
    BY <2>2 DEF ScratchRecord
  <2> HIDE DEF i
  <2>5. Restaged(i, op[c].ino, scratch[i].sfile)
    BY <1>1, <2>1, <2>3, <2>4, Restaging
  <2> QED BY <2>1, <2>5 DEF i
<1>6. ASSUME StageWrite(c)
      PROVE  /\ op[c].id \in Intents
             /\ \/ /\ stage_state(op[c].id) = "partial"
                   /\ scratch[op[c].id].sfile # None
                   /\ Restaged(op[c].id, scratch[op[c].id].owner,
                               [ino |-> scratch[op[c].id].sfile.ino, data |-> "ready"])
                \/ stage_state(op[c].id) # "partial" /\ UNCHANGED scratch
  <2> DEFINE i == op[c].id  v == [ino |-> scratch[i].sfile.ino, data |-> "ready"]
  <2>1. i \in Intents /\ scratch[i] # None
    BY <1>1, <1>6, RunningOp DEF StageWrite, Idle, OpShape, Used
  <2>2. scratch[i] \in ScratchRecord
    BY <1>1, <2>1 DEF TypeOK
  <2>3. CASE stage_state(i) = "partial"
    <3>1. scratch[i].sfile # None
      BY <2>3 DEF stage_state
    <3>2. [scratch[i].sfile EXCEPT !.data = "ready"] = v
      BY <2>2, <3>1 DEF ScratchRecord
    <3>3. scratch' = [scratch EXCEPT ![i] =
                        [scratch[i] EXCEPT !.sfile = [scratch[i].sfile EXCEPT !.data = "ready"]]]
      BY <1>6, <2>3 DEF StageWrite
    <3> HIDE DEF v
    <3>4. [scratch[i] EXCEPT !.sfile = v] = [scratch[i] EXCEPT !.owner = scratch[i].owner, !.sfile = v]
      BY <2>2 DEF ScratchRecord
    <3> HIDE DEF i
    <3>5. Restaged(i, scratch[i].owner, v)
      BY <1>1, <2>1, <3>2, <3>3, <3>4, Restaging
    <3> QED BY <2>1, <2>3, <3>1, <3>5 DEF i, v
  <2>4. CASE stage_state(i) # "partial"
    BY <1>6, <2>1, <2>4 DEF StageWrite
  <2> QED BY <2>3, <2>4
<1>7. ASSUME Swap(c)
      PROVE  LET i == op[c].staged[First(op[c].work)]
             IN  i \in Intents /\ scratch[i].sfile # None /\ Restaged(i, scratch[i].owner, None)
  <2> DEFINE i == op[c].staged[First(op[c].work)]
  <2>1. i \in Intents /\ scratch[i] # None
    BY <1>1, <1>7, RunningOp DEF Swap, Idle, OpShape, Used
  <2>2. scratch[i] \in ScratchRecord
    BY <1>1, <2>1 DEF TypeOK
  <2>3. scratch[i].sfile # None
    <3>1. op[c].step = "swap" /\ Passes(c)
      BY <1>7 DEF Swap
    <3> QED BY <3>1 DEF Passes
  <2>4. scratch' = [scratch EXCEPT ![i] = [scratch[i] EXCEPT !.sfile = None]]
    BY <1>7 DEF Swap
  <2>5. [scratch[i] EXCEPT !.sfile = None] = [scratch[i] EXCEPT !.owner = scratch[i].owner, !.sfile = None]
    BY <2>2 DEF ScratchRecord
  <2> HIDE DEF i
  <2>6. Restaged(i, scratch[i].owner, None)
    BY <1>1, <2>1, <2>4, <2>5, Restaging
  <2> QED BY <2>1, <2>3, <2>6 DEF i
<1> QED BY <1>3, <1>4, <1>5, <1>6, <1>7

\* What the steps of a committed application make of its journal.
JournalBecame(p, attempt, prepared, records, done) ==
    /\ journal'[p] # None
    /\ journal'[p].attempt = attempt /\ journal'[p].prepared = prepared
    /\ journal'[p].records = records /\ journal'[p].done = done
    /\ \A q \in Plans \ {p} : journal'[q] = journal[q]

\* A journal comes to be, is marked, or is completed; each writer changes its own alone.
LEMMA JournalChanges ==
    ASSUME IInv, TypeOK', NEW c \in Procs
    PROVE  LET p == op[c].plan  j == journal[p]
           IN  /\ Prepare(c) => JournalBecame(p, op[c].attempt, op[c].staged, <<>>, FALSE)
               /\ RepairRecord(c) => j # None /\ \E records :
                     JournalBecame(p, j.attempt, j.prepared, records, j.done)
               /\ RecordReplacement(c) =>
                     LET f == First(op[c].work)
                         r == [kind |-> "replace", file |-> f, intent |-> op[c].staged[f]]
                     IN  j # None /\ JournalBecame(p, j.attempt, j.prepared, Append(j.records, r), j.done)
               /\ WriteCompletion(c) =>
                     j # None /\ JournalBecame(p, j.attempt, j.prepared, j.records, TRUE)
<1> USE DEF At
<1> DEFINE p == op[c].plan  j == journal[p]
<1>1. TypeOK /\ ShapeInv /\ PhaseInv
  BY DEF IInv
<1>2. ASSUME NEW v \in JournalRecord, p \in Plans, journal' = [journal EXCEPT ![p] = v]
      PROVE  JournalBecame(p, v.attempt, v.prepared, v.records, v.done)
  <2>1. journal'[p] = v /\ \A q \in Plans \ {p} : journal'[q] = journal[q]
    BY <1>1, <1>2 DEF TypeOK
  <2>2. v # None
    BY NoneAssumption
  <2> QED BY <2>1, <2>2 DEF JournalBecame
<1>3. ASSUME Prepare(c) PROVE JournalBecame(p, op[c].attempt, op[c].staged, <<>>, FALSE)
  <2>1. op[c] \in Running /\ p \in Plans
    BY <1>1, <1>3, RunningOp DEF Prepare, Idle
  <2> DEFINE v == [attempt |-> op[c].attempt, prepared |-> op[c].staged, records |-> <<>>, done |-> FALSE]
  <2>2. v \in JournalRecord
    BY <2>1 DEF JournalRecord, Running
  <2>3. journal' = [journal EXCEPT ![p] = v]
    BY <1>3 DEF Prepare
  <2>4. v.attempt = op[c].attempt /\ v.prepared = op[c].staged /\ v.records = <<>> /\ v.done = FALSE
    OBVIOUS
  <2> HIDE DEF v, p
  <2>5. JournalBecame(p, v.attempt, v.prepared, v.records, v.done)
    BY <1>2, <2>1, <2>2, <2>3
  <2> QED BY <2>4, <2>5
\* A committed journal.
<1>4. ASSUME op[c].step \in {"repaired", "replaced", "complete"}
      PROVE  op[c] \in Running /\ p \in Plans /\ j # None /\ j \in JournalRecord
  <2>1. op[c] # Idle
    BY <1>4 DEF Idle
  <2>2. op[c] \in Running /\ p \in Plans
    BY <1>1, <2>1, RunningOp
  <2>3. Open(p) /\ j \in JournalRecord
    BY <1>1, <1>4, <2>1, OpenAtWork
  <2> QED BY <2>2, <2>3 DEF Open
\* One more record.
<1>5. ASSUME op[c].step \in {"repaired", "replaced"}, NEW kind \in {"stage", "replace"},
             NEW f \in Files, NEW i \in Intents,
             journal' = [journal EXCEPT ![p].records = Append(@, [kind |-> kind, file |-> f, intent |-> i])]
      PROVE  JournalBecame(p, j.attempt, j.prepared,
                           Append(j.records, [kind |-> kind, file |-> f, intent |-> i]), j.done)
  <2> DEFINE r == [kind |-> kind, file |-> f, intent |-> i]
             v == [j EXCEPT !.records = Append(@, r)]
  <2>1. p \in Plans /\ j \in JournalRecord
    BY <1>4, <1>5
  <2>2. v \in JournalRecord
    BY <2>1, AppendType
  <2>3. journal' = [journal EXCEPT ![p] = v]
    BY <1>5
  <2> HIDE DEF r
  <2>4. v.attempt = j.attempt /\ v.prepared = j.prepared /\ v.records = Append(j.records, r)
        /\ v.done = j.done
    BY <2>1 DEF JournalRecord
  <2> HIDE DEF v, p
  <2>5. JournalBecame(p, v.attempt, v.prepared, v.records, v.done)
    BY <1>2, <2>1, <2>2, <2>3
  <2> QED BY <2>4, <2>5 DEF r
<1>6. ASSUME RepairRecord(c)
      PROVE  j # None /\ \E records : JournalBecame(p, j.attempt, j.prepared, records, j.done)
  <2> DEFINE f == First(op[c].todo)  i == op[c].staged[f]
  <2>1. op[c].step = "repaired" /\ f \in Files /\ i \in Intents
    BY <1>1, <1>6, RunningOp DEF RepairRecord, Idle, OpShape, Used
  <2>2. journal' = [journal EXCEPT ![p].records = Append(@, [kind |-> "stage", file |-> f, intent |-> i])]
    BY <1>6 DEF RepairRecord
  <2>3. j # None
    BY <1>4, <2>1
  <2> HIDE DEF p, j, f, i
  <2> QED BY <1>5, <2>1, <2>2, <2>3
<1>7. ASSUME RecordReplacement(c)
      PROVE  LET f == First(op[c].work)
                 r == [kind |-> "replace", file |-> f, intent |-> op[c].staged[f]]
             IN  j # None /\ JournalBecame(p, j.attempt, j.prepared, Append(j.records, r), j.done)
  <2> DEFINE f == First(op[c].work)  i == op[c].staged[f]
  <2>1. op[c].step = "replaced" /\ f \in Files /\ i \in Intents
    BY <1>1, <1>7, RunningOp DEF RecordReplacement, Idle, OpShape, Used
  <2>2. journal' = [journal EXCEPT ![p].records = Append(@, [kind |-> "replace", file |-> f, intent |-> i])]
    BY <1>7 DEF RecordReplacement
  <2>3. j # None
    BY <1>4, <2>1
  <2>4. JournalBecame(p, j.attempt, j.prepared,
                      Append(j.records, [kind |-> "replace", file |-> f, intent |-> i]), j.done)
    <3> HIDE DEF p, j, f, i
    <3> QED BY <1>5, <2>1, <2>2
  <2> QED BY <2>3, <2>4
<1>8. ASSUME WriteCompletion(c)
      PROVE  j # None /\ JournalBecame(p, j.attempt, j.prepared, j.records, TRUE)
  <2> DEFINE v == [j EXCEPT !.done = TRUE]
  <2>1. op[c].step = "complete" /\ journal' = [journal EXCEPT ![p] = v]
    BY <1>8 DEF WriteCompletion
  <2>2. p \in Plans /\ j # None /\ j \in JournalRecord
    BY <1>4, <2>1
  <2>3. v \in JournalRecord /\ v.attempt = j.attempt /\ v.prepared = j.prepared
        /\ v.records = j.records /\ v.done = TRUE
    BY <2>2 DEF JournalRecord
  <2> HIDE DEF v, p
  <2>4. JournalBecame(p, v.attempt, v.prepared, v.records, v.done)
    BY <1>2, <2>1, <2>2, <2>3
  <2> QED BY <2>2, <2>3, <2>4
<1> QED BY <1>3, <1>6, <1>7, <1>8

\* No step takes a journal back.
LEMMA JournalsStay ==
    ASSUME IInv, TypeOK', [Next]_vars, NEW p \in Plans, journal[p] # None
    PROVE  journal'[p] # None
<1>1. ASSUME NEW c \in Procs,
             Prepare(c) \/ RepairRecord(c) \/ RecordReplacement(c) \/ WriteCompletion(c)
      PROVE  journal'[p] # None
  BY <1>1, JournalChanges DEF JournalBecame
<1>2. ASSUME UNCHANGED journal PROVE journal'[p] # None
  BY <1>2
<1>3. ASSUME NEW c \in Procs,
             \/ Apply(c) \/ Recheck(c) \/ CheckTarget(c) \/ Swap(c) \/ VerifyCompletion(c)
             \/ Refuse(c) \/ Crash(c) \/ StageOwner(c) \/ StageWrite(c)
             \/ \E i \in Intents : StageIntent(c, i)
             \/ \E n \in Inodes : StageCreate(c, n)
      PROVE  UNCHANGED journal
  BY <1>3 DEF Apply, ApplyBegin, ResumeBegin, Begin, Recheck, CheckTarget, Swap, VerifyCompletion,
              Refuse, Crash, StageOwner, StageWrite, StageIntent, StageCreate, stores
<1>4. CASE \/ \E q \in Plans : BuildPlan(q)
           \/ \E f \in Files, v \in [ino : Inodes, data : Contents] \cup {None} : EditTarget(f, v)
           \/ \E i \in Intents, d \in {"partial", "junk", "gone"} : EditStage(i, d)
           \/ EditInputs \/ UNCHANGED vars
  <2>1. UNCHANGED journal
    BY <1>4 DEF BuildPlan, EditTarget, EditStage, EditInputs, ForeignWrite, vars
  <2> QED BY <1>2, <2>1
<1> QED BY <1>1, <1>2, <1>3, <1>4 DEF Next, Work

\* Stages lie in inodes of their own, and only committed batches rename.
ApartInv == StagesApart /\ CommittedRenames

\* Every step keeps ApartInv.
LEMMA ApartStep ==
    ASSUME IInv, IInv', Kept, ApartInv, [Next]_vars
    PROVE  ApartInv'
<1>1. TypeOK /\ ShapeInv /\ PhaseInv /\ TypeOK'
  BY DEF IInv
\* Only these steps put an inode where it was not.
<1>2. ASSUME UNCHANGED file,
             \A i \in Intents : (Used(i) /\ scratch[i].sfile # None)' =>
                /\ Used(i) /\ scratch[i].sfile # None
                /\ scratch'[i].sfile.ino = scratch[i].sfile.ino
      PROVE  StagesApart'
  BY <1>2 DEF ApartInv, StagesApart, StageFiles, Used
<1>3. ASSUME UNCHANGED <<file, scratch>> PROVE StagesApart'
  BY <1>3 DEF ApartInv, StagesApart, StageFiles
<1>4. ASSUME NEW c \in Procs, NEW n \in Inodes, StageCreate(c, n) PROVE StagesApart'
  <2> DEFINE i == op[c].id
  <2>1. /\ i \in Intents /\ scratch'[i] # None /\ scratch'[i].sfile = [ino |-> n, data |-> "partial"]
        /\ \A k \in Intents \ {i} : scratch'[k] = scratch[k]
    BY <1>1, <1>4, StageChanges DEF Restaged
  <2>2. scratch'[i].sfile.ino = n
    BY <2>1
  <2>3. n \notin LiveInodes /\ UNCHANGED file
    BY <1>4 DEF StageCreate
  <2>4. (\A f \in Files : file[f] # None => file[f].ino # n)
        /\ \A k \in StageFiles : scratch[k].sfile.ino # n
    BY <2>3 DEF LiveInodes
  <2>5. StageFiles' \subseteq StageFiles \cup {i}
    BY <2>1 DEF StageFiles
  <2> HIDE DEF i
  <2>6. ASSUME NEW k \in StageFiles', k # i
        PROVE  k \in StageFiles /\ scratch'[k].sfile = scratch[k].sfile
    BY <2>1, <2>5, <2>6 DEF StageFiles
  <2> QED BY <2>2, <2>3, <2>4, <2>5, <2>6 DEF ApartInv, StagesApart
<1>5. ASSUME NEW c \in Procs, Swap(c) PROVE StagesApart'
  <2> DEFINE f == First(op[c].work)  i == op[c].staged[f]
  <2>1. /\ i \in Intents /\ scratch[i] # None /\ scratch[i].sfile # None
        /\ scratch'[i].sfile = None /\ \A k \in Intents \ {i} : scratch'[k] = scratch[k]
    BY <1>1, <1>5, StageChanges DEF Restaged
  <2>2. i \in StageFiles /\ i \notin StageFiles' /\ StageFiles' \subseteq StageFiles
    BY <2>1 DEF StageFiles
  <2>3. file' = [file EXCEPT ![f] =
                   [ino |-> scratch[i].sfile.ino,
                    data |-> IF scratch[i].sfile.data = "ready" THEN Proposed[op[c].plan][f] ELSE Alien]]
    BY <1>5 DEF Swap
  <2> HIDE DEF f, i
  <2>4. ASSUME NEW k \in StageFiles'
        PROVE  k \in StageFiles /\ k # i /\ scratch'[k].sfile = scratch[k].sfile
    BY <2>1, <2>2 DEF StageFiles
  <2>5. \A g \in Files : file'[g] = file[g] \/ file'[g].ino = scratch[i].sfile.ino
    BY <1>1, <2>3 DEF TypeOK
  <2>6. ASSUME NEW k \in StageFiles', NEW g \in Files, file'[g] # None
        PROVE  scratch'[k].sfile.ino # file'[g].ino
    <3>1. scratch[k].sfile.ino # scratch[i].sfile.ino
      BY <2>2, <2>4 DEF ApartInv, StagesApart
    <3> QED BY <2>4, <2>5, <2>6, <3>1 DEF ApartInv, StagesApart
  <2>7. ASSUME NEW k \in StageFiles', NEW m \in StageFiles', scratch'[k].sfile.ino = scratch'[m].sfile.ino
        PROVE  k = m
    BY <2>4, <2>7 DEF ApartInv, StagesApart
  <2> QED BY <2>6, <2>7 DEF StagesApart
<1>6. ASSUME NEW f \in Files, NEW v \in FileRecord \cup {None}, EditTarget(f, v) PROVE StagesApart'
  <2>1. /\ UNCHANGED scratch /\ file' = [file EXCEPT ![f] = v]
        /\ v # None => v.ino \notin LiveInodes \ (IF file[f] = None THEN {} ELSE {file[f].ino})
    BY <1>6 DEF EditTarget
  <2>2. ASSUME v # None, NEW i \in StageFiles PROVE scratch[i].sfile.ino # v.ino
    <3>1. scratch[i].sfile.ino \in LiveInodes
      BY DEF LiveInodes
    <3>2. file[f] # None => scratch[i].sfile.ino # file[f].ino
      BY DEF ApartInv, StagesApart
    <3> QED BY <2>1, <2>2, <3>1, <3>2
  <2>3. \A g \in Files : file'[g] = IF g = f THEN v ELSE file[g]
    BY <1>1, <2>1 DEF TypeOK
  <2>4. StageFiles' = StageFiles
    BY <2>1 DEF StageFiles
  <2> QED BY <2>1, <2>2, <2>3, <2>4 DEF ApartInv, StagesApart
<1>7. ASSUME NEW c \in Procs, NEW i \in Intents, StageIntent(c, i) PROVE StagesApart'
  <2>1. /\ scratch'[i].sfile = None /\ UNCHANGED file
        /\ \A k \in Intents \ {i} : scratch'[k] = scratch[k]
    BY <1>1, <1>7, StageChanges DEF NewStage, StageIntent
  <2> QED BY <1>2, <2>1 DEF Used
<1>8. ASSUME NEW c \in Procs, StageOwner(c) PROVE StagesApart'
  <2> DEFINE i == op[c].id
  <2>1. /\ i \in Intents /\ scratch[i] # None /\ scratch'[i].sfile = scratch[i].sfile /\ UNCHANGED file
        /\ \A k \in Intents \ {i} : scratch'[k] = scratch[k]
    BY <1>1, <1>8, StageChanges DEF Restaged, StageOwner
  <2> HIDE DEF i
  <2> QED BY <1>2, <2>1 DEF Used
<1>9. ASSUME NEW c \in Procs, StageWrite(c) PROVE StagesApart'
  <2> DEFINE i == op[c].id
  <2>1. UNCHANGED file
    BY <1>9 DEF StageWrite
  <2>2. CASE /\ i \in Intents /\ scratch[i].sfile # None
             /\ Restaged(i, scratch[i].owner, [ino |-> scratch[i].sfile.ino, data |-> "ready"])
    <3>1. /\ scratch[i] # None /\ scratch'[i].sfile.ino = scratch[i].sfile.ino
          /\ \A k \in Intents \ {i} : scratch'[k] = scratch[k]
      BY <2>2 DEF Restaged
    <3> HIDE DEF i
    <3> QED BY <1>2, <2>1, <2>2, <3>1 DEF Used
  <2>3. CASE UNCHANGED scratch
    BY <1>3, <2>1, <2>3
  <2> QED BY <1>1, <1>9, <2>2, <2>3, StageChanges
<1>10. ASSUME NEW i \in Intents, NEW d \in {"partial", "junk", "gone"}, EditStage(i, d)
       PROVE  StagesApart'
  <2>1. UNCHANGED file
    BY <1>10 DEF EditStage
  <2> QED BY <1>1, <1>2, <1>10, <2>1, StageEdited DEF Used
<1>11. ASSUME NEW c \in Procs,
              \/ Apply(c) \/ RepairRecord(c) \/ Prepare(c) \/ Recheck(c) \/ CheckTarget(c)
              \/ RecordReplacement(c) \/ VerifyCompletion(c) \/ WriteCompletion(c)
              \/ Refuse(c) \/ Crash(c)
       PROVE  UNCHANGED <<file, scratch, swapped>>
  BY <1>11 DEF Apply, ApplyBegin, ResumeBegin, Begin, RepairRecord, Prepare, Recheck, CheckTarget,
               RecordReplacement, VerifyCompletion, WriteCompletion, Refuse, Crash, stores
<1>12. ASSUME (\E p \in Plans : BuildPlan(p)) \/ EditInputs \/ UNCHANGED vars PROVE StagesApart'
  <2>1. UNCHANGED <<file, scratch>>
    BY <1>12 DEF BuildPlan, EditInputs, ForeignWrite, vars
  <2> QED BY <1>3, <2>1
<1>13. StagesApart'
  <2>1. ASSUME NEW c \in Procs, Apply(c) \/ Work(c) \/ Crash(c) PROVE StagesApart'
    BY <1>3, <1>4, <1>5, <1>7, <1>8, <1>9, <1>11, <2>1 DEF Work
  <2> QED BY <1>6, <1>10, <1>12, <2>1 DEF Next, FileRecord
\* A rename is of an open batch.
<1>14. Len(swapped) \in Nat /\ DOMAIN swapped = 1..Len(swapped)
       /\ \A k \in DOMAIN swapped : swapped[k].plan \in Plans
  <2> DEFINE R == [plan : Plans, file : Files, over : FileRecord \cup {None}, raced : BOOLEAN]
  <2>1. swapped \in Seq(R)
    BY <1>1 DEF TypeOK
  <2>2. Len(swapped) \in Nat /\ DOMAIN swapped = 1..Len(swapped)
    BY <2>1
  <2>3. ASSUME NEW k \in DOMAIN swapped PROVE swapped[k] \in R
    BY <2>1, <2>2, ElementOfSeq
  <2> QED BY <2>2, <2>3
<1>15. \A k \in DOMAIN swapped : journal'[swapped[k].plan] # None
  BY <1>1, <1>14, JournalsStay DEF ApartInv, CommittedRenames
<1>16. ASSUME UNCHANGED swapped PROVE CommittedRenames'
  BY <1>15, <1>16 DEF CommittedRenames
<1>17. ASSUME NEW c \in Procs, Swap(c) PROVE CommittedRenames'
  <2> DEFINE p == op[c].plan
             r == [plan |-> p, file |-> First(op[c].work), over |-> file[First(op[c].work)], raced |-> raced]
  <2>1. op[c].step = "swap" /\ op[c] # Idle
    BY <1>17 DEF Swap, At, Idle
  <2>2. p \in Plans /\ journal[p] # None /\ journal'[p] # None
    BY <1>1, <1>17, <2>1, OpenAtWork, RunningOp DEF Open, Swap
  <2>3. swapped' = Append(swapped, r) /\ r.plan = p
    BY <1>17 DEF Swap
  <2> HIDE DEF p, r
  <2>4. ASSUME NEW k \in DOMAIN swapped' PROVE swapped'[k] = r \/ (k \in DOMAIN swapped /\ swapped'[k] = swapped[k])
    BY <1>14, <2>3
  <2> QED BY <1>15, <2>2, <2>3, <2>4 DEF CommittedRenames
<1>18. ASSUME NEW c \in Procs,
              \/ StageOwner(c) \/ StageWrite(c)
              \/ \E i \in Intents : StageIntent(c, i)
              \/ \E n \in Inodes : StageCreate(c, n)
       PROVE  UNCHANGED swapped
  BY <1>18 DEF StageOwner, StageWrite, StageIntent, StageCreate
<1>19. ASSUME \/ \E p \in Plans : BuildPlan(p)
              \/ \E f \in Files, v \in [ino : Inodes, data : Contents] \cup {None} : EditTarget(f, v)
              \/ \E i \in Intents, d \in {"partial", "junk", "gone"} : EditStage(i, d)
              \/ EditInputs \/ UNCHANGED vars
       PROVE  CommittedRenames'
  <2>1. UNCHANGED swapped
    BY <1>19 DEF BuildPlan, EditTarget, EditStage, EditInputs, ForeignWrite, vars
  <2> QED BY <1>16, <2>1
<1>20. CommittedRenames'
  <2>1. ASSUME NEW c \in Procs, Apply(c) \/ Work(c) \/ Crash(c) PROVE CommittedRenames'
    BY <1>11, <1>16, <1>17, <1>18, <2>1 DEF Work
  <2> QED BY <1>19, <2>1 DEF Next
<1> QED BY <1>13, <1>20 DEF ApartInv

-----------------------------------------------------------------------------
(***************************************************************************)
(* Batches that nobody else disturbs.                                      *)
(***************************************************************************)
\* A stage that is there is complete and its own, whatever became of its file.
Sound(i) == scratch[i].owner # None /\ stage_state(i) \in {"missing", "ready"}

\* The stage i is in use and was made by attempt a for the target f.
OfTarget(i, a, f) == Used(i) /\ scratch[i].attempt = a /\ scratch[i].file = f

\* The operation is making a stage; the batch of an apply is not committed yet.
Making(o) == o.step \in {"create", "own", "write"}

\* Before its commit an application has staged the targets it is done with, and
\* what bears its attempt is its own.
StagingOf(o) ==
    /\ \A f \in Targets(o.plan) \ Changed(o.plan) : o.staged[f] = None
    /\ \A f \in o.work \ o.todo :
          OfTarget(o.staged[f], o.attempt, f) /\ stage_state(o.staged[f]) = "ready"
    /\ Making(o) => OfTarget(o.id, o.attempt, First(o.todo))
    /\ o.step \in {"own", "write"} => scratch[o.id].sfile = [ino |-> o.ino, data |-> "partial"]
    /\ o.step = "write" => scratch[o.id].owner = o.ino
    /\ \A i \in Intents : Used(i) /\ scratch[i].attempt = o.attempt =>
          (Making(o) /\ i = o.id) \/ Sound(i)
    /\ \A p \in Plans : journal[p] # None => journal[p].attempt # o.attempt

\* From its commit on an invocation works on what the batch has not replaced yet.
WorkOf(o) ==
    /\ o.todo = {}
    /\ \A f \in Targets(o.plan) : o.staged[f] = journal[o.plan].prepared[f]
    /\ o.step \in {"recheck", "rename", "swap"} => o.work \cap ReplacedBy(o.plan) = {}
    /\ o.step = "replaced" => (o.work \ {First(o.work)}) \cap ReplacedBy(o.plan) = {}
    /\ o.step = "complete" => Changed(o.plan) \subseteq ReplacedBy(o.plan)

Uncommitted(o) == o.kind = "apply" /\ o.step \in Staging

\* A target of an open batch is exactly before, with its stage, or exactly after.
OneSide(p, f) ==
    LET i == journal[p].prepared[f] IN
    IF f \in ReplacedBy(p)
    THEN i # None /\ after(p, f, i) /\ stage_state(i) = "missing"
    ELSE original(p, f) /\ (i # None => stage_state(i) = "ready")

\* A journal names the stages of its own application and never repaired one.
BatchOf(p) ==
    /\ \A k \in DOMAIN journal[p].records : journal[p].records[k].kind = "replace"
    /\ \A f \in Targets(p) \ Changed(p) : journal[p].prepared[f] = None
    /\ \A f \in Changed(p) : OfTarget(journal[p].prepared[f], journal[p].attempt, f)
    /\ \A i \in Intents : Used(i) /\ scratch[i].attempt = journal[p].attempt => Sound(i)
    /\ Open(p) => \A f \in Targets(p) : OneSide(p, f)

\* As long as nobody else writes: operations, batches and stages fit together.
Undisturbed ==
    /\ pinned
    /\ \A c \in Procs : op[c] # Idle =>
          IF Uncommitted(op[c]) THEN StagingOf(op[c]) ELSE WorkOf(op[c])
    /\ \A p \in Plans : journal[p] # None => BatchOf(p)

QuietInv == foreign = 0 => Undisturbed

\* The source and the changes of a plan that is built stay the same.
LEMMA PlanFrame ==
    ASSUME Kept, NEW p \in Plans, plan[p] # None
    PROVE  /\ plan'[p] = plan[p] /\ Changed(p)' = Changed(p) /\ Targets(p)' = Targets(p)
           /\ Changed(p) \subseteq Targets(p)
<1>1. plan'[p] = plan[p]
  BY DEF Kept
<1> QED BY <1>1 DEF Changed, Targets

\* A batch is as it was after a step that only concerns stages of others.
LEMMA BatchFrame ==
    ASSUME ShapeInv, Kept, NEW p \in Plans, journal[p] # None, BatchOf(p),
           journal'[p] = journal[p], UNCHANGED <<file, swapped>>,
           \A i \in Intents : scratch'[i] # scratch[i] =>
              /\ Used(i) => scratch[i].attempt # journal[p].attempt
              /\ (Used(i) => scratch[i].attempt # journal[p].attempt)'
    PROVE  BatchOf(p)'
<1>1. /\ plan'[p] = plan[p] /\ Changed(p)' = Changed(p) /\ Targets(p)' = Targets(p)
      /\ ReplacedBy(p)' = ReplacedBy(p)
  BY PlanFrame DEF ShapeInv, JournalShape, ReplacedBy
<1>2. \A f \in Changed(p) : scratch'[journal[p].prepared[f]] = scratch[journal[p].prepared[f]]
  BY DEF BatchOf, OfTarget, Used
<1>3. \A f \in Targets(p) : journal[p].prepared[f] # None =>
         scratch'[journal[p].prepared[f]] = scratch[journal[p].prepared[f]]
  BY <1>2 DEF BatchOf
<1>4. ASSUME NEW f \in Targets(p), OneSide(p, f) PROVE OneSide(p, f)'
  <2>1. CASE f \in ReplacedBy(p)
    BY <1>1, <1>3, <1>4, <2>1 DEF OneSide, after, stage_state
  <2>2. CASE f \notin ReplacedBy(p)
    BY <1>1, <1>3, <1>4, <2>2 DEF OneSide, original, stage_state
  <2> QED BY <2>1, <2>2
<1>5. Open(p)' => \A f \in Targets(p)' : OneSide(p, f)'
  BY <1>1, <1>4 DEF BatchOf, Open
<1>6. \A f \in Changed(p)' : OfTarget(journal[p].prepared[f], journal[p].attempt, f)'
  BY <1>1, <1>2 DEF BatchOf, OfTarget, Used
<1>7. \A i \in Intents : (Used(i) /\ scratch[i].attempt = journal[p].attempt => Sound(i))'
  BY DEF BatchOf, Used, Sound, stage_state
<1>8. /\ \A k \in DOMAIN journal'[p].records : journal'[p].records[k].kind = "replace"
      /\ \A f \in (Targets(p) \ Changed(p))' : journal'[p].prepared[f] = None
  BY <1>1 DEF BatchOf
<1> QED BY <1>5, <1>6, <1>7, <1>8 DEF BatchOf

\* What has to be looked at after a step of one invocation.
OpOf(c) == op[c] # Idle => IF Uncommitted(op[c]) THEN StagingOf(op[c]) ELSE WorkOf(op[c])

\* Without a foreign write, Undisturbed is the whole of the invariant.
LEMMA QuietWhen ==
    ASSUME PhaseInv, NEW c \in Procs, lock = None \/ op[c] # Idle,
           \A d \in Procs \ {c} : op'[d] = op[d],
           pinned', OpOf(c)', \A p \in Plans : journal'[p] # None => BatchOf(p)'
    PROVE  Undisturbed'
<1>1. \A d \in Procs \ {c} : op'[d] = Idle
  BY ConstantsAssumption DEF PhaseInv
<1> QED BY <1>1 DEF Undisturbed, OpOf

\* In a batch that nobody disturbs a stage is never repaired.
LEMMA EntryIsPrepared ==
    ASSUME TypeOK, NEW p \in Plans, journal[p] # None, BatchOf(p), NEW f
    PROVE  Entry(p, f) = journal[p].prepared[f]
<1>1. journal[p] \in JournalRecord
  BY DEF TypeOK
<1>2. journal[p].records \in Seq([kind : {"stage", "replace"}, file : Files, intent : Intents])
  BY <1>1 DEF JournalRecord
<1>3. DOMAIN journal[p].records = 1..Len(journal[p].records)
  BY <1>2
<1>4. {k \in 1..Len(journal[p].records) :
         journal[p].records[k].kind = "stage" /\ journal[p].records[k].file = f} = {}
  BY <1>3 DEF BatchOf
<1> QED BY <1>4 DEF Entry, StageOf

\* Which side of the rename a target is on shows in its inode.
LEMMA SideOf ==
    ASSUME NEW p \in Plans, NEW f, OneSide(p, f)
    PROVE  /\ original(p, f) <=> f \notin ReplacedBy(p)
           /\ \A i : after(p, f, i) => f \in ReplacedBy(p)
  BY DEF OneSide, original, after

\* Stages are only made for an application, before its commit.
LEMMA StagesOfApply ==
    ASSUME IInv, Undisturbed, NEW c \in Procs,
           op[c].step \in {"stage", "create", "own", "write", "repaired"}
    PROVE  /\ op[c] # Idle /\ op[c].kind = "apply" /\ op[c].step # "repaired"
           /\ Uncommitted(op[c]) /\ StagingOf(op[c]) /\ journal[op[c].plan] = None
           /\ OpShape(op[c])
<1>1. op[c] # Idle
  BY DEF Idle
<1>2. op[c] \in Running /\ OpShape(op[c])
  BY <1>1, RunningOp DEF IInv
<1>3. op[c].todo # {}
  BY <1>2 DEF OpShape
<1>4. Uncommitted(op[c]) /\ StagingOf(op[c])
  BY <1>1, <1>3 DEF Undisturbed, WorkOf
<1>5. journal[op[c].plan] = None
  BY <1>1, <1>4 DEF IInv, PhaseInv, Uncommitted, Staging
<1> QED BY <1>1, <1>2, <1>4, <1>5 DEF Uncommitted, Staging

\* Steps that only move their invocation on.
LEMMA QuietMoves ==
    ASSUME IInv, TypeOK', Kept, Undisturbed, NEW c \in Procs,
           Apply(c) \/ Recheck(c) \/ CheckTarget(c) \/ VerifyCompletion(c) \/ Refuse(c) \/ Crash(c)
    PROVE  Undisturbed'
<1>1. TypeOK /\ ShapeInv /\ PhaseInv
  BY DEF IInv
<1>2. UNCHANGED <<file, plan, scratch, journal, pinned, swapped>>
  BY DEF Apply, ApplyBegin, ResumeBegin, Begin, Recheck, CheckTarget, VerifyCompletion, Refuse,
         Crash, stores
<1>3. \A p \in Plans : journal'[p] # None => BatchOf(p)'
  BY <1>1, <1>2, BatchFrame DEF Undisturbed
<1>4. pinned'
  BY <1>2 DEF Undisturbed
<1>5. \A p \in Plans : ReplacedBy(p)' = ReplacedBy(p) /\ Changed(p)' = Changed(p) /\ Targets(p)' = Targets(p)
  BY <1>2 DEF ReplacedBy, Changed, Targets
<1>6. ASSUME NEW p \in Plans, NEW a \in Attempts, ApplyBegin(c, p, a) PROVE Undisturbed'
  <2> DEFINE o == [step |-> AfterStaging("apply", Changed(p)), kind |-> "apply", plan |-> p,
                   attempt |-> a, todo |-> Changed(p), work |-> Changed(p),
                   staged |-> [f \in Targets(p) |-> None], id |-> None, ino |-> None]
  <2>1. /\ lock = None /\ op'[c] = o /\ \A d \in Procs \ {c} : op'[d] = op[d]
    BY <1>1, <1>6 DEF ApplyBegin, Admissible, Begin, TypeOK
  <2>2. /\ \A i \in Intents : Used(i) => scratch[i].attempt # a
        /\ \A q \in Plans : journal[q] # None => journal[q].attempt # a
    BY <1>6 DEF ApplyBegin, Unused, Used
  <2>3. /\ o.step \in {"stage", "prepare"} /\ o.kind = "apply" /\ o.plan = p /\ o.attempt = a
        /\ o.todo = Changed(p) /\ o.work = Changed(p) /\ o.staged = [f \in Targets(p) |-> None]
    BY DEF AfterStaging
  <2> HIDE DEF o
  <2>4. Uncommitted(op[c])' /\ StagingOf(op[c])'
    BY <1>2, <1>5, <2>1, <2>2, <2>3 DEF Uncommitted, Staging, StagingOf, Making, Used
  <2> QED BY <1>1, <1>3, <1>4, <2>1, <2>4, QuietWhen DEF OpOf
<1>7. ASSUME NEW p \in Plans, ResumeBegin(c, p) PROVE Undisturbed'
  <2> DEFINE work == {f \in Changed(p) : original(p, f)}
             repairs == {f \in work : stage_state(Entry(p, f)) = "partial"}
             staged == [f \in Targets(p) |-> Entry(p, f)]
             o == [step |-> AfterStaging("resume", repairs), kind |-> "resume", plan |-> p,
                   attempt |-> journal[p].attempt, todo |-> repairs, work |-> work,
                   staged |-> staged, id |-> None, ino |-> None]
  <2>1. /\ lock = None /\ op'[c] = o /\ \A d \in Procs \ {c} : op'[d] = op[d]
    BY <1>1, <1>7 DEF ResumeBegin, Admissible, Begin, TypeOK
  <2>2. /\ Open(p) /\ journal[p] # None /\ BatchOf(p) /\ JournalShape(p)
        /\ \A f \in Targets(p) : OneSide(p, f)
    BY <1>1, <1>7 DEF ResumeBegin, Open, Undisturbed, BatchOf, ShapeInv
  <2>3. \A f : Entry(p, f) = journal[p].prepared[f]
    BY <1>1, <2>2, EntryIsPrepared
  <2>4. work \cap ReplacedBy(p) = {}
    BY <2>2, SideOf DEF Changed
  <2>5. repairs = {}
    <3> SUFFICES ASSUME NEW f \in work PROVE stage_state(Entry(p, f)) # "partial"
      OBVIOUS
    <3>1. f \in Changed(p) /\ f \in Targets(p) /\ f \notin ReplacedBy(p)
      BY <2>4 DEF Changed
    <3>2. journal[p].prepared[f] \in Intents
      BY <2>2, <3>1 DEF JournalShape, Used
    <3>3. stage_state(journal[p].prepared[f]) = "ready"
      BY <2>2, <3>1, <3>2, ConstantsAssumption DEF OneSide
    <3> QED BY <2>3, <3>3
  <2>6. /\ o.step = "recheck" /\ o.kind = "resume" /\ o.plan = p /\ o.todo = {} /\ o.work = work
        /\ o.staged = staged
    BY <2>5 DEF AfterStaging
  <2>7. \A f \in Targets(p) : staged[f] = journal[p].prepared[f]
    BY <2>3
  <2> HIDE DEF o, work, staged, repairs
  <2>8. ~Uncommitted(op[c])' /\ WorkOf(op[c])'
    BY <1>2, <1>5, <2>1, <2>4, <2>6, <2>7 DEF Uncommitted, WorkOf
  <2> QED BY <1>1, <1>3, <1>4, <2>1, <2>8, QuietWhen DEF OpOf
\* A committed invocation whose plan, stages and targets stay.
<1>8. ASSUME op[c] # Idle, ~Uncommitted(op[c]), NEW step, GoesOn(c, step, op[c].id, op[c].ino),
             step \notin Staging,
             step \in {"rename", "swap"} => op[c].work \cap ReplacedBy(op[c].plan) = {},
             step \notin {"recheck", "replaced"},
             step = "complete" => Changed(op[c].plan) \subseteq ReplacedBy(op[c].plan)
      PROVE  Undisturbed'
  <2>1. op[c].plan \in Plans /\ WorkOf(op[c])
    BY <1>1, <1>8, RunningOp DEF Undisturbed
  <2>2. /\ op'[c].step = step /\ op'[c].plan = op[c].plan /\ op'[c].todo = op[c].todo
        /\ op'[c].work = op[c].work /\ op'[c].staged = op[c].staged
        /\ \A d \in Procs \ {c} : op'[d] = op[d]
    BY <1>8 DEF GoesOn, Became
  <2>3. ~Uncommitted(op[c])' /\ WorkOf(op[c])'
    BY <1>2, <1>5, <1>8, <2>1, <2>2 DEF Uncommitted, WorkOf
  <2> QED BY <1>1, <1>3, <1>4, <1>8, <2>2, <2>3, QuietWhen DEF OpOf
<1>9. ASSUME op[c].step \in {"recheck", "rename", "verify"}
      PROVE  op[c] # Idle /\ ~Uncommitted(op[c]) /\ op[c].plan \in Plans /\ WorkOf(op[c])
  <2>1. op[c] # Idle
    BY <1>9 DEF Idle
  <2>2. ~Uncommitted(op[c])
    BY <1>9 DEF Uncommitted, Staging
  <2> QED BY <1>1, <2>1, <2>2, RunningOp DEF Undisturbed
<1>10. CASE Recheck(c)
  <2>1. op[c].step = "recheck" /\ GoesOn(c, NextTarget(op[c].work), op[c].id, op[c].ino)
    BY <1>1, <1>10, Advances
  <2>2. op[c].work \cap ReplacedBy(op[c].plan) = {}
    BY <1>9, <2>1 DEF WorkOf
  <2>3. NextTarget(op[c].work) \in {"rename", "verify"}
    BY DEF NextTarget
  <2> QED BY <1>8, <1>9, <2>1, <2>2, <2>3 DEF Staging
<1>11. CASE CheckTarget(c)
  <2>1. op[c].step = "rename" /\ GoesOn(c, "swap", op[c].id, op[c].ino)
    BY <1>1, <1>11, Advances
  <2>2. op[c].work \cap ReplacedBy(op[c].plan) = {}
    BY <1>9, <2>1 DEF WorkOf
  <2> QED BY <1>8, <1>9, <2>1, <2>2 DEF Staging
<1>12. CASE VerifyCompletion(c)
  <2> DEFINE p == op[c].plan
  <2>1. op[c].step = "verify" /\ GoesOn(c, "complete", op[c].id, op[c].ino) /\ Passes(c)
    BY <1>1, <1>12, Advances DEF VerifyCompletion
  <2>2. \A f \in Targets(p) : f \in Changed(p) => after(p, f, Entry(p, f))
    BY <2>1 DEF Passes
  <2>3. p \in Plans /\ Open(p)
    BY <1>1, <1>9, <2>1, OpenAtWork
  <2>4. \A f \in Targets(p) : OneSide(p, f)
    BY <2>3 DEF Open, Undisturbed, BatchOf
  <2>5. Changed(p) \subseteq ReplacedBy(p)
    BY <2>2, <2>3, <2>4, SideOf DEF Changed
  <2> QED BY <1>8, <1>9, <2>1, <2>5 DEF Staging
<1>13. CASE Refuse(c) \/ Crash(c)
  <2>1. op[c] # Idle /\ op'[c] = Idle /\ \A d \in Procs \ {c} : op'[d] = op[d]
    BY <1>1, <1>13 DEF Refuse, Crash, Stop, TypeOK
  <2> QED BY <1>1, <1>3, <1>4, <2>1, QuietWhen DEF OpOf
<1> QED BY <1>6, <1>7, <1>10, <1>11, <1>12, <1>13 DEF Apply

\* Staging touches no journal's stages and keeps what the application has staged.
LEMMA QuietStages ==
    ASSUME IInv, IInv', Kept, Undisturbed, NEW c \in Procs,
           NEW p, p = op[c].plan, NEW f, f = First(op[c].todo),
           \/ \E i \in Intents : StageIntent(c, i)
           \/ \E n \in Inodes : StageCreate(c, n)
           \/ StageOwner(c) \/ StageWrite(c)
    PROVE  Undisturbed'
<1> USE DEF At
<1> DEFINE o == op[c]
<1>1. TypeOK /\ ShapeInv /\ PhaseInv /\ TypeOK' /\ ShapeInv'
  BY DEF IInv
<1>2. UNCHANGED <<file, plan, journal, pinned, swapped>>
  BY DEF StageIntent, StageCreate, StageOwner, StageWrite
<1>3. o.step \in {"stage", "create", "own", "write"}
  BY DEF StageIntent, StageCreate, StageOwner, StageWrite
<1>4. /\ o # Idle /\ o.kind = "apply" /\ Uncommitted(o) /\ StagingOf(o) /\ OpShape(o)
      /\ o \in Running /\ p \in Plans /\ f \in o.todo /\ o.todo \subseteq o.work
      /\ o.work \subseteq Changed(p)
  <2>1. o # Idle /\ o.kind = "apply" /\ Uncommitted(o) /\ StagingOf(o) /\ OpShape(o)
    BY <1>3, StagesOfApply
  <2>2. o.todo # {} /\ o.todo \subseteq o.work /\ o.work \subseteq Changed(p)
    BY <1>3, <2>1 DEF OpShape
  <2> QED BY <1>1, <2>1, <2>2, RunningOp
<1>5. Changed(p)' = Changed(p) /\ Targets(p)' = Targets(p)
  BY <1>2 DEF Changed, Targets
\* The one stage that such a step touches is the application's own.
<1>6. ASSUME NEW i \in Intents,
             \A k \in Intents \ {i} : scratch'[k] = scratch[k],
             Used(i) => scratch[i].attempt = o.attempt, scratch'[i].attempt = o.attempt
      PROVE  \A q \in Plans : journal'[q] # None => BatchOf(q)'
  <2> SUFFICES ASSUME NEW q \in Plans, journal'[q] # None PROVE BatchOf(q)'
    OBVIOUS
  <2>1. journal[q] # None /\ journal'[q] = journal[q] /\ BatchOf(q) /\ journal[q].attempt # o.attempt
    BY <1>2, <1>4 DEF Undisturbed, StagingOf
  <2>2. \A k \in Intents : scratch'[k] # scratch[k] =>
          /\ Used(k) => scratch[k].attempt # journal[q].attempt
          /\ (Used(k) => scratch[k].attempt # journal[q].attempt)'
    BY <1>6, <2>1
  <2> QED BY <1>1, <1>2, <2>1, <2>2, BatchFrame
<1>7. pinned'
  BY <1>2 DEF Undisturbed
\* The invocation goes on with the stage i of its first target.
<1>8. ASSUME NEW i \in Intents, NEW step \in {"create", "own", "write"}, NEW ino,
             GoesOn(c, step, i, ino), scratch'[i] # None,
             \A k \in Intents \ {i} : scratch'[k] = scratch[k],
             scratch'[i].attempt = o.attempt, scratch'[i].file = f,
             step \in {"own", "write"} => scratch'[i].sfile = [ino |-> ino, data |-> "partial"],
             step = "write" => scratch'[i].owner = ino,
             \A g \in o.work \ o.todo : o.staged[g] # i,
             \A k \in Intents \ {i} : Used(k) /\ scratch[k].attempt = o.attempt => Sound(k)
      PROVE  StagingOf(op[c])' /\ Uncommitted(op[c])'
  <2>1. /\ op'[c].step = step /\ op'[c].kind = o.kind /\ op'[c].plan = p /\ op'[c].attempt = o.attempt
        /\ op'[c].todo = o.todo /\ op'[c].work = o.work /\ op'[c].staged = o.staged
        /\ op'[c].id = i /\ op'[c].ino = ino
    BY <1>8 DEF GoesOn, Became
  <2>2. ASSUME NEW g \in o.work \ o.todo
        PROVE  (OfTarget(o.staged[g], o.attempt, g) /\ stage_state(o.staged[g]) = "ready")'
    <3>1. OfTarget(o.staged[g], o.attempt, g) /\ stage_state(o.staged[g]) = "ready"
      BY <1>4 DEF StagingOf
    <3>2. o.staged[g] \in Intents /\ scratch'[o.staged[g]] = scratch[o.staged[g]]
      BY <1>8, <3>1 DEF OfTarget, Used
    <3> QED BY <3>1, <3>2, <2>1 DEF OfTarget, Used, stage_state
  <2>3. ASSUME NEW k \in Intents, (Used(k) /\ scratch[k].attempt = o.attempt)', k # i PROVE Sound(k)'
    <3>1. scratch'[k] = scratch[k] /\ Sound(k)
      BY <1>8, <2>1, <2>3 DEF Used
    <3> QED BY <3>1 DEF Sound, stage_state
  <2>4. OfTarget(i, o.attempt, f)'
    BY <1>8, <2>1 DEF OfTarget, Used
  <2>5. \A g \in Targets(p) \ Changed(p) : o.staged[g] = None
    BY <1>4 DEF StagingOf
  <2>6. \A q \in Plans : journal'[q] # None => journal'[q].attempt # o.attempt
    BY <1>2, <1>4 DEF StagingOf
  <2>7. Uncommitted(op[c])'
    BY <1>4, <2>1 DEF Uncommitted, Staging
  <2>8. StagingOf(op[c])'
    <3>1. \A g \in (op[c].work \ op[c].todo)' :
             (OfTarget(op[c].staged[g], op[c].attempt, g) /\ stage_state(op[c].staged[g]) = "ready")'
      BY <2>1, <2>2
    <3>2. \A k \in Intents : (Used(k) /\ scratch[k].attempt = op[c].attempt)' =>
             (Making(op[c]) /\ k = op[c].id)' \/ Sound(k)'
      BY <1>8, <2>1, <2>3 DEF Making
    <3> QED BY <1>5, <1>8, <2>1, <2>4, <2>5, <2>6, <3>1, <3>2 DEF StagingOf
  <2> QED BY <2>7, <2>8
<1>9. ASSUME NEW i \in Intents, StageIntent(c, i) PROVE Undisturbed'
  <2>1. o.step = "stage" /\ GoesOn(c, "create", i, o.ino)
    BY <1>1, <1>9, Advances
  <2>2. /\ scratch[i] = None /\ scratch'[i] # None /\ scratch'[i].attempt = o.attempt
        /\ scratch'[i].file = f /\ \A k \in Intents \ {i} : scratch'[k] = scratch[k]
    BY <1>1, <1>9, StageChanges DEF NewStage
  <2>3. \A g \in o.work \ o.todo : o.staged[g] # i
    BY <1>4, <2>2 DEF StagingOf, OfTarget, Used
  <2>4. \A k \in Intents : Used(k) /\ scratch[k].attempt = o.attempt => Sound(k)
    BY <1>4, <2>1 DEF StagingOf, Making
  <2>5. StagingOf(op[c])' /\ Uncommitted(op[c])'
    BY <1>8, <2>1, <2>2, <2>3, <2>4
  <2>6. \A q \in Plans : journal'[q] # None => BatchOf(q)'
    BY <1>6, <2>2 DEF Used
  <2>7. \A d \in Procs \ {c} : op'[d] = op[d]
    BY <2>1 DEF GoesOn, Became
  <2> QED BY <1>1, <1>4, <1>7, <2>5, <2>6, <2>7, QuietWhen DEF OpOf
\* The stage that is being made.
<1>10. ASSUME Making(o)
       PROVE  /\ o.id \in Intents /\ scratch[o.id] # None /\ scratch[o.id].attempt = o.attempt
              /\ scratch[o.id].file = f /\ \A g \in o.work \ o.todo : o.staged[g] # o.id
              /\ \A k \in Intents \ {o.id} : Used(k) /\ scratch[k].attempt = o.attempt => Sound(k)
  <2>1. OfTarget(o.id, o.attempt, f)
    BY <1>4, <1>10 DEF StagingOf
  <2>2. \A g \in o.work \ o.todo : OfTarget(o.staged[g], o.attempt, g) /\ g # f
    BY <1>4 DEF StagingOf
  <2> QED BY <1>4, <2>1, <2>2 DEF OfTarget, Used, StagingOf
<1>11. ASSUME NEW n \in Inodes, StageCreate(c, n) PROVE Undisturbed'
  <2>1. o.step = "create" /\ GoesOn(c, "own", o.id, n)
    BY <1>1, <1>11, Advances
  <2>2. /\ scratch'[o.id] # None /\ scratch'[o.id].attempt = scratch[o.id].attempt
        /\ scratch'[o.id].file = scratch[o.id].file
        /\ scratch'[o.id].sfile = [ino |-> n, data |-> "partial"]
        /\ \A k \in Intents \ {o.id} : scratch'[k] = scratch[k]
    BY <1>1, <1>11, StageChanges DEF Restaged
  <2>3. Making(o)
    BY <2>1 DEF Making
  <2>4. StagingOf(op[c])' /\ Uncommitted(op[c])'
    BY <1>8, <1>10, <2>1, <2>2, <2>3
  <2>5. \A q \in Plans : journal'[q] # None => BatchOf(q)'
    BY <1>6, <1>10, <2>2, <2>3
  <2>6. \A d \in Procs \ {c} : op'[d] = op[d]
    BY <2>1 DEF GoesOn, Became
  <2> QED BY <1>1, <1>4, <1>7, <2>4, <2>5, <2>6, QuietWhen DEF OpOf
<1>12. ASSUME StageOwner(c) PROVE Undisturbed'
  <2>1. o.step = "own" /\ GoesOn(c, "write", o.id, o.ino)
    BY <1>1, <1>12, Advances
  <2>2. /\ scratch'[o.id] # None /\ scratch'[o.id].attempt = scratch[o.id].attempt
        /\ scratch'[o.id].file = scratch[o.id].file /\ scratch'[o.id].owner = o.ino
        /\ scratch'[o.id].sfile = scratch[o.id].sfile
        /\ \A k \in Intents \ {o.id} : scratch'[k] = scratch[k]
    BY <1>1, <1>12, StageChanges DEF Restaged
  <2>3. Making(o) /\ scratch[o.id].sfile = [ino |-> o.ino, data |-> "partial"]
    BY <1>4, <2>1 DEF Making, StagingOf
  <2>4. StagingOf(op[c])' /\ Uncommitted(op[c])'
    BY <1>8, <1>10, <2>1, <2>2, <2>3
  <2>5. \A q \in Plans : journal'[q] # None => BatchOf(q)'
    BY <1>6, <1>10, <2>2, <2>3
  <2>6. \A d \in Procs \ {c} : op'[d] = op[d]
    BY <2>1 DEF GoesOn, Became
  <2> QED BY <1>1, <1>4, <1>7, <2>4, <2>5, <2>6, QuietWhen DEF OpOf
<1>13. ASSUME StageWrite(c), NEW i, i = o.id, NEW a, a = o.attempt, NEW work, work = o.work,
              NEW rest, rest = o.todo \ {f}, NEW staged, staged = [o.staged EXCEPT ![f] = i]
       PROVE  Undisturbed'
  <2>1. o.step = "write" /\ Making(o)
    BY <1>13 DEF StageWrite, Making
  <2>2. Became(c, AfterStaging("apply", rest), rest, work, staged, None, None)
    BY <1>1, <1>4, <1>13, Advances
  <2>3. /\ op'[c].step = AfterStaging("apply", rest) /\ op'[c].kind = "apply" /\ op'[c].plan = p
        /\ op'[c].attempt = a /\ op'[c].todo = rest /\ op'[c].work = work
        /\ op'[c].staged = staged /\ \A d \in Procs \ {c} : op'[d] = op[d]
    BY <1>4, <1>13, <2>2 DEF Became
  <2>4. op'[c].step \in {"stage", "prepare"}
    BY <2>3 DEF AfterStaging
  <2>5. scratch[i].sfile = [ino |-> o.ino, data |-> "partial"] /\ scratch[i].owner = o.ino
        /\ o.ino \in Inodes
    BY <1>4, <1>13, <2>1 DEF StagingOf, OpShape
  <2>6. [ino |-> o.ino, data |-> "partial"] # None /\ [ino |-> o.ino, data |-> "ready"] # None
        /\ o.ino # None
    BY <2>5, ConstantsAssumption
  <2>7. stage_state(i) = "partial"
    BY <2>5, <2>6 DEF stage_state
  <2>8. Restaged(i, scratch[i].owner, [ino |-> scratch[i].sfile.ino, data |-> "ready"])
    BY <1>1, <1>13, <2>7, StageChanges
  <2>9. scratch[i].sfile.ino = o.ino
    BY <2>5
  <2>10. /\ i \in Intents /\ scratch'[i] # None /\ scratch'[i].attempt = a
         /\ scratch'[i].file = f /\ scratch'[i].owner = o.ino
         /\ scratch'[i].sfile = [ino |-> o.ino, data |-> "ready"]
         /\ \A k \in Intents \ {i} : scratch'[k] = scratch[k]
    BY <1>10, <1>13, <2>1, <2>5, <2>8, <2>9 DEF Restaged
  <2>11. stage_state(i)' = "ready" /\ Sound(i)'
    <3>1. scratch'[i].sfile # None /\ scratch'[i].sfile.ino = scratch'[i].owner
          /\ scratch'[i].sfile.data = "ready" /\ scratch'[i].owner # None
      BY <2>6, <2>10
    <3> QED BY <3>1 DEF stage_state, Sound
  <2>12. DOMAIN o.staged = Targets(p) /\ f \in Targets(p) /\ f \in Changed(p)
    BY <1>4 DEF OpShape, Changed
  <2>13. staged[f] = i /\ \A g \in Targets(p) \ {f} : staged[g] = o.staged[g]
    <3>1. \E S : o.staged \in [S -> Fates]
      BY <1>4 DEF Running
    <3> QED BY <1>13, <2>12, <3>1
  <2>14. ASSUME NEW g \in work \ rest
         PROVE  (OfTarget(staged[g], a, g) /\ stage_state(staged[g]) = "ready")'
    <3>1. CASE g = f
      BY <2>10, <2>11, <2>13, <3>1 DEF OfTarget, Used
    <3>2. CASE g # f
      <4>1. g \in Targets(p) /\ staged[g] = o.staged[g] /\ g \in o.work \ o.todo
        BY <1>4, <1>13, <2>13, <3>2 DEF Changed
      <4>2. OfTarget(staged[g], a, g) /\ stage_state(staged[g]) = "ready" /\ staged[g] # i
        BY <1>4, <1>10, <1>13, <2>1, <4>1 DEF StagingOf
      <4>3. scratch'[staged[g]] = scratch[staged[g]]
        BY <2>10, <4>2 DEF OfTarget, Used
      <4> QED BY <4>2, <4>3 DEF OfTarget, Used, stage_state
    <3> QED BY <3>1, <3>2
  <2>15. ASSUME NEW k \in Intents, (Used(k) /\ scratch[k].attempt = a)' PROVE Sound(k)'
    <3>1. CASE k = i
      BY <2>11, <3>1
    <3>2. CASE k # i
      <4>1. scratch'[k] = scratch[k] /\ Sound(k)
        BY <1>10, <1>13, <2>1, <2>10, <2>15, <3>2 DEF Used
      <4> QED BY <4>1 DEF Sound, stage_state
    <3> QED BY <3>1, <3>2
  <2>16. \A g \in Targets(p) \ Changed(p) : staged[g] = None
    BY <1>4, <2>12, <2>13 DEF StagingOf
  <2>17. \A q \in Plans : journal'[q] # None => journal'[q].attempt # a
    BY <1>2, <1>4, <1>13 DEF StagingOf
  <2>18. StagingOf(op[c])' /\ Uncommitted(op[c])'
    <3>1. \A g \in (op[c].work \ op[c].todo)' :
             (OfTarget(op[c].staged[g], op[c].attempt, g) /\ stage_state(op[c].staged[g]) = "ready")'
      BY <2>3, <2>14
    <3>2. \A k \in Intents : (Used(k) /\ scratch[k].attempt = op[c].attempt)' => Sound(k)'
      BY <2>3, <2>15
    <3>3. ~Making(op[c])' /\ op'[c].step \notin {"own", "write"} /\ Uncommitted(op[c])'
      BY <2>3, <2>4 DEF Making, Uncommitted, Staging
    <3> QED BY <1>5, <2>3, <2>16, <2>17, <3>1, <3>2, <3>3 DEF StagingOf
  <2>19. \A q \in Plans : journal'[q] # None => BatchOf(q)'
    BY <1>6, <1>10, <1>13, <2>1, <2>10
  <2> QED BY <1>1, <1>4, <1>7, <2>3, <2>18, <2>19, QuietWhen DEF OpOf
<1> QED BY <1>9, <1>11, <1>12, <1>13

\* Another record, or the completion, leaves a batch as it is.
LEMMA BatchRecords ==
    ASSUME NEW p \in Plans, journal[p] # None, BatchOf(p),
           UNCHANGED <<file, plan, scratch, swapped>>,
           journal'[p] # None,
           journal'[p].attempt = journal[p].attempt, journal'[p].prepared = journal[p].prepared,
           journal[p].done => journal'[p].done,
           \A k \in DOMAIN journal'[p].records : journal'[p].records[k].kind = "replace"
    PROVE  BatchOf(p)'
<1>1. Changed(p)' = Changed(p) /\ Targets(p)' = Targets(p) /\ ReplacedBy(p)' = ReplacedBy(p)
  BY DEF Changed, Targets, ReplacedBy
<1>2. Open(p)' => Open(p)
  BY DEF Open
<1>3. \A f \in Targets(p) : OneSide(p, f) => OneSide(p, f)'
  BY <1>1 DEF OneSide, after, original, stage_state
<1>4. \A f \in Changed(p) : OfTarget(journal[p].prepared[f], journal[p].attempt, f)'
  BY DEF BatchOf, OfTarget, Used
<1>5. \A i \in Intents : (Used(i) /\ scratch[i].attempt = journal[p].attempt => Sound(i))'
  BY DEF BatchOf, Used, Sound, stage_state
<1> QED BY <1>1, <1>2, <1>3, <1>4, <1>5 DEF BatchOf

\* The commit: every target is as planned, and has its stage.
LEMMA QuietPrepare ==
    ASSUME IInv, IInv', Kept, ApartInv, Undisturbed, NEW c \in Procs, Prepare(c),
           NEW p, p = op[c].plan
    PROVE  Undisturbed'
<1> DEFINE o == op[c]
<1>1. TypeOK /\ ShapeInv /\ PhaseInv /\ TypeOK'
  BY DEF IInv
<1>2. UNCHANGED <<file, plan, scratch, pinned, swapped>>
  BY DEF Prepare
<1>3. o.step = "prepare" /\ GoesOn(c, "recheck", o.id, o.ino)
  BY <1>1, Advances
<1>4. /\ o # Idle /\ p \in Plans /\ OpShape(o) /\ o.kind = "apply" /\ Uncommitted(o)
      /\ StagingOf(o) /\ journal[p] = None /\ o.todo = {} /\ o.work = Changed(p)
  <2>1. o # Idle
    BY <1>3 DEF Idle
  <2>2. OpShape(o) /\ p \in Plans
    BY <1>1, <2>1, RunningOp
  <2>3. o.kind = "apply" /\ o.todo = {} /\ o.work = Changed(p)
    BY <1>3, <2>2 DEF OpShape
  <2>4. Uncommitted(o) /\ StagingOf(o)
    BY <1>3, <2>1, <2>3 DEF Uncommitted, Staging, Undisturbed
  <2>5. journal[p] = None
    BY <1>1, <1>3, <2>1, <2>3 DEF PhaseInv
  <2> QED BY <2>1, <2>2, <2>3, <2>4, <2>5
<1>5. /\ journal'[p] # None /\ journal'[p].attempt = o.attempt /\ journal'[p].prepared = o.staged
      /\ journal'[p].records = <<>> /\ \A q \in Plans \ {p} : journal'[q] = journal[q]
  BY <1>1, JournalChanges DEF JournalBecame
<1>6. ReplacedBy(p) = {}
  BY <1>4 DEF ApartInv, CommittedRenames, ReplacedBy
<1>7. Changed(p)' = Changed(p) /\ Targets(p)' = Targets(p) /\ ReplacedBy(p)' = {}
      /\ Changed(p) \subseteq Targets(p)
  BY <1>2, <1>6 DEF Changed, Targets, ReplacedBy
<1>8. \A f \in Targets(p) : Ready(p, f, o.staged[f])
  BY <1>3, <1>4 DEF Prepare, Passes
<1>9. BatchOf(p)'
  <2>1. \A f \in Targets(p) : OneSide(p, f)'
    BY <1>2, <1>5, <1>7, <1>8 DEF OneSide, Ready, original, stage_state
  <2>2. \A f \in Changed(p) : OfTarget(o.staged[f], o.attempt, f)
    BY <1>4 DEF StagingOf
  <2>3. \A f \in Changed(p)' : OfTarget(journal[p].prepared[f], journal[p].attempt, f)'
    BY <1>2, <1>5, <1>7, <2>2 DEF OfTarget, Used
  <2>4. \A i \in Intents : Used(i) /\ scratch[i].attempt = o.attempt => Sound(i)
    BY <1>3, <1>4 DEF StagingOf, Making
  <2>5. \A i \in Intents : (Used(i) /\ scratch[i].attempt = journal[p].attempt => Sound(i))'
    BY <1>2, <1>5, <2>4 DEF Used, Sound, stage_state
  <2>6. \A f \in (Targets(p) \ Changed(p))' : journal'[p].prepared[f] = None
    BY <1>4, <1>5, <1>7 DEF StagingOf
  <2> QED BY <1>5, <1>7, <2>1, <2>3, <2>5, <2>6 DEF BatchOf
<1>10. ASSUME NEW q \in Plans, journal'[q] # None PROVE BatchOf(q)'
  <2>1. CASE q = p
    BY <1>9, <2>1
  <2>2. CASE q # p
    <3>1. journal[q] # None /\ BatchOf(q) /\ journal'[q] = journal[q]
      BY <1>5, <1>10, <2>2 DEF Undisturbed
    <3> QED BY <1>1, <1>2, <3>1, BatchFrame
  <2> QED BY <2>1, <2>2
<1>11. /\ op'[c].step = "recheck" /\ op'[c].plan = p /\ op'[c].todo = {} /\ op'[c].staged = o.staged
       /\ \A d \in Procs \ {c} : op'[d] = op[d]
  BY <1>3, <1>4 DEF GoesOn, Became
<1>12. ~Uncommitted(op[c])' /\ WorkOf(op[c])'
  BY <1>5, <1>7, <1>11 DEF Uncommitted, Staging, WorkOf
<1>13. pinned'
  BY <1>2 DEF Undisturbed
<1> QED BY <1>1, <1>4, <1>10, <1>11, <1>12, <1>13, QuietWhen DEF OpOf

\* A committed invocation and its batch.
LEMMA AtWork ==
    ASSUME IInv, Undisturbed, NEW c \in Procs, op[c].step \in {"swap", "replaced", "complete"}
    PROVE  /\ op[c] # Idle /\ op[c].plan \in Plans /\ OpShape(op[c]) /\ WorkOf(op[c])
           /\ Open(op[c].plan) /\ journal[op[c].plan] # None /\ JournalShape(op[c].plan)
           /\ journal[op[c].plan] \in JournalRecord /\ BatchOf(op[c].plan)
           /\ \A f \in Targets(op[c].plan) : OneSide(op[c].plan, f)
           /\ \A q \in Plans \ {op[c].plan} : ~Open(q)
           /\ op[c].work # {} => First(op[c].work) \in op[c].work
<1>1. TypeOK /\ ShapeInv /\ PhaseInv
  BY DEF IInv
<1>2. op[c] # Idle
  BY DEF Idle
<1>3. op[c].plan \in Plans /\ OpShape(op[c]) /\ (op[c].work # {} => First(op[c].work) \in op[c].work)
  BY <1>1, <1>2, RunningOp
<1>4. WorkOf(op[c])
  BY <1>2 DEF Undisturbed, Uncommitted, Staging
<1>5. Open(op[c].plan) /\ journal[op[c].plan] \in JournalRecord /\ JournalShape(op[c].plan)
  BY <1>1, <1>2, OpenAtWork
<1>6. journal[op[c].plan] # None /\ BatchOf(op[c].plan)
  BY <1>3, <1>5 DEF Open, Undisturbed
<1>7. \A f \in Targets(op[c].plan) : OneSide(op[c].plan, f)
  BY <1>5, <1>6 DEF BatchOf
<1>8. \A q \in Plans \ {op[c].plan} : ~Open(q)
  BY <1>1, <1>2 DEF PhaseInv
<1> QED BY <1>2, <1>3, <1>4, <1>5, <1>6, <1>7, <1>8

\* The record of a replacement and the completion of a batch keep Undisturbed.
LEMMA QuietRecords ==
    ASSUME IInv, IInv', Kept, Undisturbed, NEW c \in Procs,
           RecordReplacement(c) \/ WriteCompletion(c), NEW p, p = op[c].plan
    PROVE  Undisturbed'
<1> DEFINE o == op[c]
<1>1. TypeOK /\ ShapeInv /\ PhaseInv /\ TypeOK'
  BY DEF IInv
<1>2. UNCHANGED <<file, plan, scratch, pinned, swapped>>
  BY DEF RecordReplacement, WriteCompletion
<1>3. o.step \in {"replaced", "complete"}
  BY DEF RecordReplacement, WriteCompletion, At
<1>4. /\ o # Idle /\ p \in Plans /\ OpShape(o) /\ WorkOf(o) /\ journal[p] # None
      /\ journal[p] \in JournalRecord /\ BatchOf(p)
  BY <1>3, AtWork
<1>5. Changed(p)' = Changed(p) /\ Targets(p)' = Targets(p) /\ ReplacedBy(p)' = ReplacedBy(p)
  BY <1>2 DEF Changed, Targets, ReplacedBy
<1>6. ASSUME journal'[p] # None, \A q \in Plans \ {p} : journal'[q] = journal[q],
             journal'[p].attempt = journal[p].attempt, journal'[p].prepared = journal[p].prepared,
             journal[p].done => journal'[p].done,
             \A k \in DOMAIN journal'[p].records : journal'[p].records[k].kind = "replace",
             NEW q \in Plans, journal'[q] # None
      PROVE  BatchOf(q)'
  <2>1. CASE q = p
    BY <1>2, <1>4, <1>6, <2>1, BatchRecords
  <2>2. CASE q # p
    <3>1. journal[q] # None /\ BatchOf(q) /\ journal'[q] = journal[q]
      BY <1>6, <2>2 DEF Undisturbed
    <3> QED BY <1>1, <1>2, <3>1, BatchFrame
  <2> QED BY <2>1, <2>2
<1>7. pinned'
  BY <1>2 DEF Undisturbed
<1>8. CASE RecordReplacement(c)
  <2> DEFINE rest == o.work \ {First(o.work)}
             r == [kind |-> "replace", file |-> First(o.work), intent |-> o.staged[First(o.work)]]
             records == journal[p].records
  <2>1. o.step = "replaced"
        /\ Became(c, NextTarget(rest), o.todo, rest, o.staged, o.id, o.ino)
    BY <1>1, <1>8, Advances
  <2>2. /\ journal'[p] # None /\ \A q \in Plans \ {p} : journal'[q] = journal[q]
        /\ journal'[p].attempt = journal[p].attempt /\ journal'[p].prepared = journal[p].prepared
        /\ journal'[p].records = Append(records, r) /\ journal'[p].done = journal[p].done
    BY <1>1, <1>8, JournalChanges DEF JournalBecame
  <2>3. records \in Seq([kind : {"stage", "replace"}, file : Files, intent : Intents])
    BY <1>4 DEF JournalRecord
  <2>4. (\A k \in DOMAIN records : records[k].kind = "replace") /\ r.kind = "replace"
    BY <1>4 DEF BatchOf
  <2> HIDE DEF r, records
  <2>5. \A k \in DOMAIN Append(records, r) :
           Append(records, r)[k] = r \/ (k \in DOMAIN records /\ Append(records, r)[k] = records[k])
    BY <2>3
  <2>6. \A k \in DOMAIN journal'[p].records : journal'[p].records[k].kind = "replace"
    BY <2>2, <2>4, <2>5
  <2>7. \A q \in Plans : journal'[q] # None => BatchOf(q)'
    BY <1>6, <2>2, <2>6
  <2>8. /\ op'[c].step = NextTarget(rest) /\ op'[c].plan = p /\ op'[c].todo = o.todo
        /\ op'[c].work = rest /\ op'[c].staged = o.staged
        /\ \A d \in Procs \ {c} : op'[d] = op[d]
    BY <2>1 DEF Became
  <2>9. NextTarget(rest) \in {"rename", "verify"} /\ rest \cap ReplacedBy(p) = {}
    BY <1>4, <2>1 DEF NextTarget, WorkOf
  <2> HIDE DEF rest
  <2>10. ~Uncommitted(op[c])' /\ WorkOf(op[c])'
    BY <1>4, <1>5, <2>2, <2>8, <2>9 DEF Uncommitted, Staging, WorkOf
  <2> QED BY <1>1, <1>4, <1>7, <2>7, <2>8, <2>10, QuietWhen DEF OpOf
<1>9. CASE WriteCompletion(c)
  <2>1. /\ journal'[p] # None /\ \A q \in Plans \ {p} : journal'[q] = journal[q]
        /\ journal'[p].attempt = journal[p].attempt /\ journal'[p].prepared = journal[p].prepared
        /\ journal'[p].records = journal[p].records /\ journal'[p].done = TRUE
    BY <1>1, <1>9, JournalChanges DEF JournalBecame
  <2>2. \A q \in Plans : journal'[q] # None => BatchOf(q)'
    BY <1>4, <1>6, <2>1 DEF BatchOf
  <2>3. op'[c] = Idle /\ \A d \in Procs \ {c} : op'[d] = op[d]
    BY <1>1, <1>9 DEF WriteCompletion, Stop, TypeOK
  <2> QED BY <1>1, <1>4, <1>7, <2>2, <2>3, QuietWhen DEF OpOf
<1> QED BY <1>8, <1>9

\* What a rename adds to the log.
LEMMA RenameLogged ==
    ASSUME TypeOK, NEW c \in Procs, Swap(c)
    PROVE  \A p \in Plans :
              ReplacedBy(p)' = IF p = op[c].plan THEN ReplacedBy(p) \cup {First(op[c].work)}
                                                 ELSE ReplacedBy(p)
<1> SUFFICES ASSUME NEW p \in Plans
             PROVE  ReplacedBy(p)' = IF p = op[c].plan THEN ReplacedBy(p) \cup {First(op[c].work)}
                                                       ELSE ReplacedBy(p)
  OBVIOUS
<1> DEFINE R == [plan : Plans, file : Files, over : FileRecord \cup {None}, raced : BOOLEAN]
           r == [plan |-> op[c].plan, file |-> First(op[c].work), over |-> file[First(op[c].work)],
                 raced |-> raced]
           n == Len(swapped)
<1>1. swapped \in Seq(R)
  BY DEF TypeOK
<1>2. swapped' = Append(swapped, r) /\ r.plan = op[c].plan /\ r.file = First(op[c].work)
  BY DEF Swap
<1> HIDE DEF R, r
<1>3. /\ n \in Nat /\ DOMAIN swapped = 1..n /\ DOMAIN swapped' = 1..(n + 1)
      /\ swapped'[n + 1] = r /\ \A k \in 1..n : swapped'[k] = swapped[k]
  BY <1>1, <1>2
<1> HIDE DEF n
<1>4. DOMAIN swapped' = DOMAIN swapped \cup {n + 1} /\ n + 1 \notin DOMAIN swapped
  BY <1>3
<1>5. ReplacedBy(p)' = {swapped'[k].file : k \in {m \in DOMAIN swapped' : swapped'[m].plan = p}}
  BY DEF ReplacedBy
<1>6. ASSUME NEW f PROVE f \in ReplacedBy(p)' <=> f \in ReplacedBy(p) \/ (p = op[c].plan /\ f = First(op[c].work))
  <2>1. f \in ReplacedBy(p)' <=> \E k \in DOMAIN swapped' : swapped'[k].plan = p /\ swapped'[k].file = f
    BY <1>5
  <2>2. f \in ReplacedBy(p) <=> \E k \in DOMAIN swapped : swapped[k].plan = p /\ swapped[k].file = f
    BY DEF ReplacedBy
  <2>3. (\E k \in DOMAIN swapped' : swapped'[k].plan = p /\ swapped'[k].file = f)
        <=> \/ \E k \in DOMAIN swapped : swapped[k].plan = p /\ swapped[k].file = f
            \/ r.plan = p /\ r.file = f
    BY <1>3, <1>4
  <2> QED BY <1>2, <2>1, <2>2, <2>3
<1> QED BY <1>6

\* The rename: its target passes from exactly before to exactly after.
LEMMA QuietSwap ==
    ASSUME IInv, IInv', Kept, ApartInv, Undisturbed, NEW c \in Procs, Swap(c),
           NEW p, p = op[c].plan, NEW f, f = First(op[c].work), NEW i, i = op[c].staged[f]
    PROVE  Undisturbed'
<1> DEFINE o == op[c]
<1>1. TypeOK /\ ShapeInv /\ PhaseInv /\ TypeOK'
  BY DEF IInv
<1>2. UNCHANGED <<plan, journal, pinned>>
  BY DEF Swap
<1>3. o.step = "swap" /\ GoesOn(c, "replaced", o.id, o.ino)
  BY <1>1, Advances
<1>4. /\ o # Idle /\ p \in Plans /\ OpShape(o) /\ WorkOf(o) /\ Open(p) /\ journal[p] # None
      /\ JournalShape(p) /\ BatchOf(p) /\ (\A g \in Targets(p) : OneSide(p, g))
      /\ (\A q \in Plans \ {p} : ~Open(q)) /\ (o.work # {} => f \in o.work)
  BY <1>3, AtWork
<1>5. f \in o.work /\ f \in Changed(p) /\ f \in Targets(p) /\ f \in Files
  <2>1. f \in o.work /\ f \in Changed(p)
    BY <1>3, <1>4 DEF OpShape
  <2> QED BY <1>4, <2>1, TargetFiles DEF Changed
<1>6. i = journal[p].prepared[f] /\ f \notin ReplacedBy(p)
  BY <1>3, <1>4, <1>5 DEF WorkOf
<1>7. /\ i \in Intents /\ scratch[i] # None /\ scratch[i].sfile # None /\ scratch'[i] # None
      /\ scratch'[i].attempt = scratch[i].attempt /\ scratch'[i].file = scratch[i].file
      /\ scratch'[i].owner = scratch[i].owner /\ scratch'[i].sfile = None
      /\ \A k \in Intents \ {i} : scratch'[k] = scratch[k]
  BY <1>1, StageChanges DEF Restaged
<1>8. i # None /\ stage_state(i) = "ready" /\ original(p, f)
  <2>1. i # None
    BY <1>7, ConstantsAssumption
  <2> QED BY <1>4, <1>5, <1>6, <2>1 DEF OneSide
<1>9. /\ scratch[i].sfile.ino = scratch[i].owner /\ scratch[i].sfile.data = "ready"
      /\ scratch[i].owner # None
  <2>1. scratch[i].sfile.ino = scratch[i].owner /\ scratch[i].sfile.data = "ready"
    BY <1>7, <1>8 DEF stage_state
  <2>2. scratch[i].sfile.ino \in Inodes
    BY <1>1, <1>7 DEF TypeOK, ScratchRecord
  <2> QED BY <2>1, <2>2, ConstantsAssumption
<1>10. file'[f] = [ino |-> scratch[i].sfile.ino, data |-> Proposed[p][f]]
       /\ \A g \in Files \ {f} : file'[g] = file[g]
  BY <1>1, <1>5, <1>9 DEF Swap, TypeOK
<1>11. file'[f] # None /\ file'[f].ino = scratch[i].owner /\ file'[f].data = Proposed[p][f]
       /\ file'[f].ino # plan[p][f].ino
  <2>1. scratch[i].sfile.ino \in Inodes /\ Proposed[p][f] \in Contents
    BY <1>1, <1>4, <1>5, <1>7, TargetFiles DEF TypeOK, ScratchRecord
  <2>2. [ino |-> scratch[i].sfile.ino, data |-> Proposed[p][f]] # None
    BY <2>1, ConstantsAssumption
  <2>3. scratch[i].sfile.ino # file[f].ino
    BY <1>5, <1>7, <1>8 DEF ApartInv, StagesApart, StageFiles, original
  <2> QED BY <1>8, <1>9, <1>10, <2>2, <2>3 DEF original
<1>12. /\ \A q \in Plans : Changed(q)' = Changed(q) /\ Targets(q)' = Targets(q)
       /\ \A q \in Plans \ {p} : ReplacedBy(q)' = ReplacedBy(q)
       /\ ReplacedBy(p)' = ReplacedBy(p) \cup {f}
  BY <1>1, <1>2, <1>4, RenameLogged DEF Changed, Targets
<1>13. \A k \in Intents : Sound(k) => Sound(k)'
  <2> SUFFICES ASSUME NEW k \in Intents, Sound(k) PROVE Sound(k)'
    OBVIOUS
  <2>1. CASE k = i
    BY <1>7, <1>9, <2>1 DEF Sound, stage_state
  <2>2. CASE k # i
    BY <1>7, <2>2 DEF Sound, stage_state
  <2> QED BY <2>1, <2>2
<1>14. \A k \in Intents : scratch[k] # None <=> scratch'[k] # None
  BY <1>7
<1>15. \A k \in Intents : scratch'[k].attempt = scratch[k].attempt /\ scratch'[k].file = scratch[k].file
  BY <1>7
<1>16. ASSUME NEW g \in Targets(p) PROVE OneSide(p, g)'
  <2>1. CASE g = f
    <3>1. after(p, f, i)'
      BY <1>2, <1>7, <1>11 DEF after
    <3>2. stage_state(i)' = "missing"
      BY <1>7 DEF stage_state
    <3> QED BY <1>2, <1>6, <1>8, <1>12, <2>1, <3>1, <3>2 DEF OneSide
  <2>2. CASE g # f
    <3>1. g \in Files /\ OneSide(p, g) /\ (g \in ReplacedBy(p)' <=> g \in ReplacedBy(p))
      BY <1>4, <1>12, <2>2, TargetFiles
    <3>2. journal[p].prepared[g] # None =>
             journal[p].prepared[g] \in Intents /\ journal[p].prepared[g] # i
      BY <1>4, <1>5, <1>6, <2>2 DEF BatchOf, OfTarget, Used
    <3>3. journal[p].prepared[g] # None =>
             scratch'[journal[p].prepared[g]] = scratch[journal[p].prepared[g]]
      BY <1>7, <3>2
    <3>4. file'[g] = file[g]
      BY <1>10, <2>2, <3>1
    <3>5. CASE g \in ReplacedBy(p)
      BY <1>2, <3>1, <3>3, <3>4, <3>5 DEF OneSide, after, stage_state
    <3>6. CASE g \notin ReplacedBy(p)
      BY <1>2, <3>1, <3>3, <3>4, <3>6 DEF OneSide, original, stage_state
    <3> QED BY <3>5, <3>6
  <2> QED BY <2>1, <2>2
<1>17. ASSUME NEW q \in Plans, journal'[q] # None PROVE BatchOf(q)'
  <2>1. journal[q] # None /\ journal'[q] = journal[q] /\ BatchOf(q)
    BY <1>2, <1>17 DEF Undisturbed
  <2>2. \A g \in Changed(q) : OfTarget(journal[q].prepared[g], journal[q].attempt, g)'
    BY <1>14, <1>15, <2>1 DEF BatchOf, OfTarget, Used
  <2>3. \A k \in Intents : (Used(k) /\ scratch[k].attempt = journal[q].attempt => Sound(k))'
    BY <1>13, <1>14, <1>15, <2>1 DEF BatchOf, Used
  <2>4. Open(q)' => \A g \in Targets(q)' : OneSide(q, g)'
    <3>1. CASE q = p
      BY <1>12, <1>16, <3>1
    <3>2. CASE q # p
      BY <1>4, <2>1, <3>2 DEF Open
    <3> QED BY <3>1, <3>2
  <2>5. /\ \A k \in DOMAIN journal'[q].records : journal'[q].records[k].kind = "replace"
        /\ \A g \in (Targets(q) \ Changed(q))' : journal'[q].prepared[g] = None
    BY <1>12, <2>1 DEF BatchOf
  <2> QED BY <1>12, <2>1, <2>2, <2>3, <2>4, <2>5 DEF BatchOf
<1>18. /\ op'[c].step = "replaced" /\ op'[c].plan = p /\ op'[c].todo = o.todo /\ op'[c].work = o.work
       /\ op'[c].staged = o.staged /\ \A d \in Procs \ {c} : op'[d] = op[d]
  BY <1>3 DEF GoesOn, Became
<1>19. (o.work \ {f}) \cap (ReplacedBy(p) \cup {f}) = {} /\ First(op'[c].work) = f
  BY <1>3, <1>4, <1>18 DEF WorkOf
<1>20. ~Uncommitted(op[c])' /\ WorkOf(op[c])'
  BY <1>2, <1>4, <1>12, <1>18, <1>19 DEF Uncommitted, Staging, WorkOf
<1>21. pinned'
  BY <1>2 DEF Undisturbed
<1> QED BY <1>1, <1>4, <1>17, <1>18, <1>20, <1>21, QuietWhen DEF OpOf

\* Every step keeps QuietInv.
LEMMA QuietStep ==
    ASSUME IInv, IInv', ApartInv, QuietInv, [Next]_vars
    PROVE  QuietInv'
<1>1. TypeOK /\ ShapeInv /\ PhaseInv /\ TypeOK' /\ Kept
  BY KeptStep DEF IInv
<1>2. SUFFICES ASSUME foreign' = 0 PROVE Undisturbed'
  BY DEF QuietInv
<1>3. foreign \in Nat
  BY <1>1 DEF TypeOK
<1>4. ASSUME ForeignWrite PROVE FALSE
  BY <1>2, <1>3, <1>4 DEF ForeignWrite
<1>5. ASSUME NEW c \in Procs, Apply(c) \/ Work(c) \/ Crash(c) PROVE Undisturbed'
  <2>1. UNCHANGED foreign
    BY <1>5 DEF Apply, ApplyBegin, ResumeBegin, Begin, Work, Crash, StageIntent, StageCreate,
                StageOwner, StageWrite, RepairRecord, Prepare, Recheck, CheckTarget, Swap,
                RecordReplacement, VerifyCompletion, WriteCompletion, Refuse, bounds
  <2>2. Undisturbed
    BY <1>2, <2>1 DEF QuietInv
  <2>3. ~RepairRecord(c)
    BY <2>2, StagesOfApply DEF RepairRecord, At
  <2> QED BY <1>1, <1>5, <2>2, <2>3, QuietMoves, QuietStages, QuietPrepare, QuietSwap, QuietRecords
          DEF Work
<1>6. ASSUME UNCHANGED <<file, scratch, journal, op, pinned, swapped, foreign>> PROVE Undisturbed'
  <2>1. Undisturbed
    BY <1>2, <1>6 DEF QuietInv
  <2>2. \A p \in Plans : journal'[p] # None => BatchOf(p)'
    BY <1>1, <1>6, <2>1, BatchFrame DEF Undisturbed
  <2>3. ASSUME NEW c \in Procs, op[c] # Idle
        PROVE  (IF Uncommitted(op[c]) THEN StagingOf(op[c]) ELSE WorkOf(op[c]))'
    <3>1. op[c].plan \in Plans /\ plan[op[c].plan] # None
      BY <1>1, <2>3, RunningOp DEF OpShape
    <3>2. Changed(op[c].plan)' = Changed(op[c].plan) /\ Targets(op[c].plan)' = Targets(op[c].plan)
          /\ ReplacedBy(op[c].plan)' = ReplacedBy(op[c].plan)
      BY <1>1, <1>6, <3>1, PlanFrame DEF Targets, Changed, ReplacedBy, Kept
    <3>3. CASE Uncommitted(op[c])
      <4>1. StagingOf(op[c]) /\ Uncommitted(op[c])'
        BY <1>6, <2>1, <2>3, <3>3 DEF Undisturbed, Uncommitted
      <4>2. StagingOf(op[c])'
        BY <1>6, <3>2, <4>1 DEF StagingOf, OfTarget, Used, Sound, Making, stage_state
      <4> QED BY <4>1, <4>2
    <3>4. CASE ~Uncommitted(op[c])
      <4>1. WorkOf(op[c]) /\ ~Uncommitted(op[c])'
        BY <1>6, <2>1, <2>3, <3>4 DEF Undisturbed, Uncommitted
      <4>2. WorkOf(op[c])'
        BY <1>6, <3>2, <4>1 DEF WorkOf
      <4> QED BY <4>1, <4>2
    <3> QED BY <3>3, <3>4
  <2>4. pinned'
    BY <1>6, <2>1 DEF Undisturbed
  <2> QED BY <1>6, <2>2, <2>3, <2>4 DEF Undisturbed
<1>7. ASSUME (\E p \in Plans : BuildPlan(p)) \/ UNCHANGED vars PROVE Undisturbed'
  <2>1. UNCHANGED <<file, scratch, journal, op, pinned, swapped, foreign>>
    BY <1>7 DEF BuildPlan, bounds, vars
  <2> QED BY <1>6, <2>1
<1>8. ASSUME \/ \E f \in Files, v \in [ino : Inodes, data : Contents] \cup {None} : EditTarget(f, v)
             \/ \E i \in Intents, d \in {"partial", "junk", "gone"} : EditStage(i, d)
             \/ EditInputs
      PROVE  FALSE
  BY <1>4, <1>8 DEF EditTarget, EditStage, EditInputs
<1> QED BY <1>5, <1>7, <1>8 DEF Next

\* QuietInv holds throughout, with the two invariants it rests on.
LEMMA QuietInvariant == Spec => [](IInv /\ ApartInv /\ QuietInv)
<1>1. Init => ApartInv /\ QuietInv
  <2> SUFFICES ASSUME Init PROVE ApartInv /\ QuietInv
    OBVIOUS
  <2>1. ApartInv
    BY DEF Init, ApartInv, StagesApart, StageFiles, CommittedRenames
  <2>2. Undisturbed
    BY DEF Init, Undisturbed
  <2> QED BY <2>1, <2>2 DEF QuietInv
<1>2. IInv /\ IInv' /\ ApartInv /\ QuietInv /\ [Next]_vars => ApartInv' /\ QuietInv'
  <2> SUFFICES ASSUME IInv, IInv', ApartInv, QuietInv, [Next]_vars PROVE ApartInv' /\ QuietInv'
    OBVIOUS
  <2>1. Kept
    BY KeptStep DEF IInv
  <2> QED BY <2>1, ApartStep, QuietStep
<1> QED BY <1>1, <1>2, InductiveInvariant, PTL DEF Spec

\* audit after a crash (_audit_chain): wherever the invocation died, and however
\* often it did, an open batch that nobody else touched is eligible for resume.
THEOREM BatchesResumable == Spec => []Resumable
<1>1. IInv /\ QuietInv => Resumable
  <2> SUFFICES ASSUME IInv, QuietInv, foreign = 0, NEW p \in Plans, Open(p) PROVE eligible(p)
    BY DEF Resumable
  <2>1. TypeOK /\ pinned /\ journal[p] # None /\ BatchOf(p) /\ \A f \in Targets(p) : OneSide(p, f)
    BY DEF IInv, QuietInv, Undisturbed, Open, BatchOf
  <2>2. \A f \in Targets(p) : ValidTarget(p, f)
    <3> SUFFICES ASSUME NEW f \in Targets(p) PROVE ValidTarget(p, f)
      OBVIOUS
    <3>1. Entry(p, f) = journal[p].prepared[f] /\ OneSide(p, f)
      BY <2>1, EntryIsPrepared
    <3> QED BY <3>1 DEF OneSide, ValidTarget
  <2>3. ASSUME NEW i \in Leftovers(p), scratch[i].attempt = journal[p].attempt
        PROVE  scratch[i].owner # None /\ stage_state(i) \in {"ready", "partial"}
    <3>1. i \in Intents /\ scratch[i] # None /\ scratch[i].sfile # None
      BY DEF Leftovers, Staged
    <3>2. Sound(i)
      BY <2>1, <2>3, <3>1 DEF BatchOf, Used
    <3>3. scratch[i].sfile.data # "missing"
      BY <2>1, <3>1 DEF TypeOK, ScratchRecord
    <3>4. stage_state(i) # "missing"
      BY <3>1, <3>3 DEF stage_state
    <3> QED BY <3>2, <3>4 DEF Sound
  <2> QED BY <2>1, <2>2, <2>3 DEF eligible
<1> QED BY <1>1, QuietInvariant, PTL

-----------------------------------------------------------------------------
(***************************************************************************)
(* The promise of ChangesetBatch.                                          *)
(***************************************************************************)
\* How a batch looks from outside.
Phase(p) == IF journal[p] = None THEN "idle" ELSE IF journal[p].done THEN "done" ELSE "open"
Pending(p) == IF journal[p] = None THEN {} ELSE Changed(p) \ ReplacedBy(p)

\* What leaves phases and pending targets alone is a stutter of the batch.
LEMMA BatchStutters ==
    ASSUME \A p \in Plans : Phase(p)' = Phase(p) /\ Pending(p)' = Pending(p)
    PROVE  UNCHANGED Batch!vars
<1>1. [p \in Plans |-> Phase(p)]' = [p \in Plans |-> Phase(p)]
  OBVIOUS
<1>2. [p \in Plans |-> Pending(p)]' = [p \in Plans |-> Pending(p)]
  OBVIOUS
<1> QED BY <1>1, <1>2 DEF Batch!vars, Phase, Pending

\* A journal that is there keeps what its plan changes.
LEMMA PendingStays ==
    ASSUME IInv, Kept, UNCHANGED swapped, NEW p \in Plans,
           journal'[p] = None <=> journal[p] = None
    PROVE  Pending(p)' = Pending(p)
<1>1. CASE journal[p] = None
  BY <1>1 DEF Pending
<1>2. CASE journal[p] # None
  <2>1. Changed(p)' = Changed(p) /\ ReplacedBy(p)' = ReplacedBy(p)
    BY <1>2, PlanFrame DEF IInv, ShapeInv, JournalShape, ReplacedBy
  <2> QED BY <1>2, <2>1 DEF Pending
<1> QED BY <1>1, <1>2

\* Every step is one of the batch, or a stutter.
LEMMA BatchStep ==
    ASSUME IInv, IInv', ApartInv, Undisturbed, [Next]_vars
    PROVE  [Batch!Next]_Batch!vars
<1> DEFINE phase == [p \in Plans |-> Phase(p)]
           pending == [p \in Plans |-> Pending(p)]
<1>1. TypeOK /\ ShapeInv /\ PhaseInv /\ TypeOK' /\ Kept
  BY KeptStep DEF IInv
<1>2. ASSUME UNCHANGED <<journal, swapped>> PROVE UNCHANGED Batch!vars
  <2>1. \A p \in Plans : Phase(p)' = Phase(p) /\ Pending(p)' = Pending(p)
    BY <1>1, <1>2, PendingStays DEF Phase
  <2> QED BY <2>1, BatchStutters
<1>3. ASSUME NEW c \in Procs, Prepare(c), NEW p, p = op[c].plan PROVE Batch!Next
  <2>1. /\ p \in Plans /\ journal[p] = None /\ \A q \in Plans \ {p} : ~Open(q)
    <3>1. op[c].step = "prepare" /\ op[c] # Idle
      BY <1>3 DEF Prepare, At, Idle
    <3>2. p \in Plans /\ op[c].kind = "apply"
      BY <1>1, <1>3, <3>1, RunningOp DEF OpShape
    <3> QED BY <1>1, <1>3, <3>1, <3>2 DEF PhaseInv
  <2>2. /\ journal'[p] # None /\ journal'[p].done = FALSE
        /\ \A q \in Plans \ {p} : journal'[q] = journal[q]
    BY <1>1, <1>3, JournalChanges DEF JournalBecame
  <2>3. UNCHANGED swapped
    BY <1>3 DEF Prepare
  <2>4. Phase(p) = "idle" /\ Phase(p)' = "open" /\ \A q \in Plans \ {p} : Phase(q)' = Phase(q)
    BY <2>1, <2>2 DEF Phase
  <2>5. \A q \in Plans : Phase(q) # "open"
    BY <2>1, <2>4 DEF Phase, Open
  <2>6. \A q \in Plans \ {p} : Pending(q)' = Pending(q)
    BY <1>1, <2>2, <2>3, PendingStays
  <2>7. Pending(p)' \in SUBSET Files
    <3>1. Changed(p)' \subseteq Files
      BY <2>1, TargetFiles DEF Changed, Targets
    <3> QED BY <3>1 DEF Pending
  <2>8. PICK S \in SUBSET Files : S = Pending(p)'
    BY <2>7
  <2>9. phase' = [phase EXCEPT ![p] = "open"] /\ pending' = [pending EXCEPT ![p] = S]
    BY <2>1, <2>4, <2>6, <2>8
  <2>10. (\A q \in Plans : phase[q] # "open") /\ phase[p] = "idle"
    BY <2>1, <2>4, <2>5
  <2>11. Batch!Commit(p, S)
    BY <2>9, <2>10 DEF Batch!Commit, Phase, Pending
  <2> QED BY <2>1, <2>11 DEF Batch!Next
<1>4. ASSUME NEW c \in Procs, Swap(c), NEW p, p = op[c].plan, NEW f, f = First(op[c].work)
      PROVE  Batch!Next
  <2>1. op[c].step = "swap"
    BY <1>4 DEF Swap, At
  <2>2. /\ p \in Plans /\ OpShape(op[c]) /\ WorkOf(op[c]) /\ Open(p) /\ journal[p] # None
        /\ (op[c].work # {} => f \in op[c].work)
    BY <1>4, <2>1, AtWork
  <2>3. f \in op[c].work /\ f \in Changed(p) /\ f \in Files
    <3>1. f \in op[c].work /\ f \in Changed(p)
      BY <1>4, <2>1, <2>2 DEF OpShape
    <3> QED BY <2>2, <3>1, TargetFiles DEF Changed
  <2>4. f \in Pending(p)
    BY <1>4, <2>1, <2>2, <2>3 DEF Pending, WorkOf
  <2>5. UNCHANGED <<journal, plan>>
    BY <1>4 DEF Swap
  <2>6. /\ ReplacedBy(p)' = ReplacedBy(p) \cup {f}
        /\ \A q \in Plans \ {p} : ReplacedBy(q)' = ReplacedBy(q)
    BY <1>1, <1>4, <2>2, RenameLogged
  <2>7. Pending(p)' = Pending(p) \ {f} /\ \A q \in Plans \ {p} : Pending(q)' = Pending(q)
    BY <2>5, <2>6 DEF Pending, Changed, Targets
  <2>8. Phase(p) = "open" /\ \A q \in Plans : Phase(q)' = Phase(q)
    BY <2>2, <2>5 DEF Phase, Open
  <2>9. phase' = phase /\ phase[p] = "open"
    BY <2>2, <2>8
  <2>10. f \in pending[p] /\ pending' = [pending EXCEPT ![p] = @ \ {f}]
    BY <2>2, <2>4, <2>7
  <2>11. Batch!Replace(p, f)
    BY <2>9, <2>10 DEF Batch!Replace, Phase, Pending
  <2> QED BY <2>2, <2>3, <2>11 DEF Batch!Next
<1>5. ASSUME NEW c \in Procs, WriteCompletion(c), NEW p, p = op[c].plan PROVE Batch!Next
  <2>1. op[c].step = "complete"
    BY <1>5 DEF WriteCompletion, At
  <2>2. p \in Plans /\ WorkOf(op[c]) /\ Open(p) /\ journal[p] # None
    BY <1>5, <2>1, AtWork
  <2>3. Pending(p) = {}
    BY <1>5, <2>1, <2>2 DEF Pending, WorkOf
  <2>4. /\ journal'[p] # None /\ journal'[p].done = TRUE
        /\ \A q \in Plans \ {p} : journal'[q] = journal[q]
    BY <1>1, <1>5, JournalChanges DEF JournalBecame
  <2>5. UNCHANGED swapped
    BY <1>5 DEF WriteCompletion
  <2>6. Phase(p) = "open" /\ Phase(p)' = "done" /\ \A q \in Plans \ {p} : Phase(q)' = Phase(q)
    BY <2>2, <2>4 DEF Phase, Open
  <2>7. \A q \in Plans : Pending(q)' = Pending(q)
    BY <1>1, <2>2, <2>4, <2>5, PendingStays
  <2>8. phase' = [phase EXCEPT ![p] = "done"] /\ phase[p] = "open"
    BY <2>2, <2>6
  <2>9. pending' = pending /\ pending[p] = {}
    BY <2>2, <2>3, <2>7
  <2>10. Batch!Complete(p)
    BY <2>8, <2>9 DEF Batch!Complete, Phase, Pending
  <2> QED BY <2>2, <2>10 DEF Batch!Next
<1>6. ASSUME NEW c \in Procs, RecordReplacement(c) PROVE UNCHANGED Batch!vars
  <2> DEFINE p == op[c].plan
  <2>1. op[c].step = "replaced" /\ UNCHANGED swapped
    BY <1>6 DEF RecordReplacement, At
  <2>2. journal[op[c].plan] # None /\ journal'[op[c].plan] # None
        /\ journal'[op[c].plan].done = journal[op[c].plan].done
        /\ \A q \in Plans \ {op[c].plan} : journal'[q] = journal[q]
    BY <1>1, <1>6, JournalChanges DEF JournalBecame
  <2>3. \A q \in Plans : Phase(q)' = Phase(q)
    BY <2>2 DEF Phase
  <2>4. \A q \in Plans : Pending(q)' = Pending(q)
    BY <1>1, <2>1, <2>2, PendingStays
  <2> QED BY <2>3, <2>4, BatchStutters
<1>7. ASSUME NEW c \in Procs, RepairRecord(c) PROVE FALSE
  BY <1>7, StagesOfApply DEF RepairRecord, At
<1>8. ASSUME NEW c \in Procs,
             \/ Apply(c) \/ Recheck(c) \/ CheckTarget(c) \/ VerifyCompletion(c)
             \/ Refuse(c) \/ Crash(c) \/ StageOwner(c) \/ StageWrite(c)
             \/ \E i \in Intents : StageIntent(c, i)
             \/ \E n \in Inodes : StageCreate(c, n)
      PROVE  UNCHANGED <<journal, swapped>>
  BY <1>8 DEF Apply, ApplyBegin, ResumeBegin, Begin, Recheck, CheckTarget, VerifyCompletion,
              Refuse, Crash, StageOwner, StageWrite, StageIntent, StageCreate, stores
<1>9. ASSUME \/ \E p \in Plans : BuildPlan(p)
             \/ \E f \in Files, v \in [ino : Inodes, data : Contents] \cup {None} : EditTarget(f, v)
             \/ \E i \in Intents, d \in {"partial", "junk", "gone"} : EditStage(i, d)
             \/ EditInputs \/ UNCHANGED vars
      PROVE  UNCHANGED <<journal, swapped>>
  BY <1>9 DEF BuildPlan, EditTarget, EditStage, EditInputs, ForeignWrite, vars
<1>10. ASSUME NEW c \in Procs, Apply(c) \/ Work(c) \/ Crash(c) PROVE [Batch!Next]_Batch!vars
  BY <1>2, <1>3, <1>4, <1>5, <1>6, <1>7, <1>8, <1>10 DEF Work
<1> QED BY <1>2, <1>9, <1>10 DEF Next

\* docs/reference/changesets.md: as long as nobody else writes, a committed
\* batch holds the workspace, each of its targets is replaced once, and it is
\* completed only when all of them are (ChangesetBatch), across any crashes.
THEOREM Refinement == Spec /\ [](foreign = 0) => ImplementsBatch
<1>1. Init => Batch!Init
  BY DEF Init, Batch!Init
<1>2. IInv /\ IInv' /\ ApartInv /\ QuietInv /\ foreign = 0 /\ [Next]_vars => [Batch!Next]_Batch!vars
  BY BatchStep DEF QuietInv
<1> QED BY <1>1, <1>2, InductiveInvariant, QuietInvariant, PTL DEF Spec, ImplementsBatch, Batch!Spec
=============================================================================
