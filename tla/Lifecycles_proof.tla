-------------------------- MODULE Lifecycles_proof --------------------------
(***************************************************************************)
(* Proofs about the two lifecycles: of a room's implementation             *)
(* (AoLifecycle), for any number of revisions, edits, requests,            *)
(* verification attempts, gates and controller deaths; and of the legacy   *)
(* controller's jobs (LegacyJobs, as Legacy of MCLifecycles), for any      *)
(* number of jobs, contents, edits, deaths, failed spawns and restarts.    *)
(***************************************************************************)
EXTENDS MCLifecycles, Integers, SequenceTheorems, TLAPS

Verifying == win.op \in {"gate", "snapshot", "checkpoint"}

\* What the operation in progress rests on, and nobody changes under it.
WindowInv ==
    /\ win.op = "handoff" => spec # 0
    /\ win.op = "review" => checkpoint # 0
    /\ win.op = "verify" => spec # 0 /\ Len(checks) < MaxCheck
    /\ win.op \in {"candidate", "record"} =>
          /\ win.req \in DOMAIN reqs /\ reqs[win.req].purpose \in Engineering
          /\ reqs[win.req].state = "completed" /\ reqs[win.req].candidate = None
    /\ win.op = "gate" => win.done < Gates
    /\ Verifying =>
          /\ checks # <<>> /\ checks[Len(checks)].state = "running"
          /\ checks[Len(checks)].spec = spec /\ checkpoint = 0

\* The capture of a request.
CaptureInv ==
    \A i \in DOMAIN reqs :
       /\ reqs[i].state = "open" => reqs[i].candidate = None
       /\ reqs[i].record # None => reqs[i].record = reqs[i].candidate

\* An acceptance names an attempt and a review there are.
AcceptedInv ==
    \A a \in accepted : a.identities.evidence \in DOMAIN checks /\ a.req \in DOMAIN reqs

IInv == /\ TypeOK /\ WindowInv /\ CaptureInv /\ CheckpointIsLast /\ EngineeringAgreed
        /\ AcceptedInv

\* A completed result of engineering agreed on the current specification.
Resulted(e) ==
    /\ e \in Named(Engineering) /\ reqs[e].handoff = spec /\ reqs[e].answer = "completed"
    /\ reqs[e].record \in Trees
    /\ \E s \in DOMAIN reqs : s < e /\ Approves(s, spec)

\* While contents never return: the candidate an acceptance has looked at is
\* between those of the attempts and the worktree of its later look.
ChainInv ==
    /\ \A k \in DOMAIN checks : checks[k].tree <= tree
    /\ win.op = "accept" =>
          \E e \in DOMAIN reqs :
             /\ Resulted(e) /\ reqs[e].record <= tree
             /\ \A k \in DOMAIN checks : checks[k].tree <= reqs[e].record
    /\ AcceptanceChain

\* While contents never return: a gate that ran on another candidate leaves
\* the worktree past the one the attempt names.
RanInv ==
    /\ Verifying =>
          /\ checks[Len(checks)].tree <= tree
          /\ ~checks[Len(checks)].ran => checks[Len(checks)].tree < tree
    /\ win.op = "checkpoint" /\ win.ok => checks[Len(checks)].ran
    /\ GatesRanOnCandidate

-----------------------------------------------------------------------------
(***************************************************************************)
(* The window, and the records it leads to.                                *)
(***************************************************************************)
LEMMA Windowed ==
    ASSUME win \in Windows
    PROVE  /\ win.op \in {"idle", "review", "verify", "accept", "spec", "handoff", "candidate",
                          "record", "gate", "snapshot", "checkpoint"}
           /\ win.op = "idle" <=> win = Idle
           /\ win.op = "spec" => win.rev \in Revs
           /\ win.op = "handoff" => win.base \in Trees
           /\ win.op \in {"candidate", "record"} => win.req \in 1..MaxReq
           /\ win.op = "record" => win.candidate \in Trees
           /\ Verifying => win.done \in 0..Gates /\ win.ok \in BOOLEAN
<1>1. CASE win \in [op : {"idle", "review", "verify", "accept"}]
  BY <1>1 DEF Idle, Verifying
<1>2. CASE win \in [op : {"spec"}, rev : Revs]
  BY <1>2 DEF Idle, Verifying
<1>3. CASE win \in [op : {"handoff"}, base : Trees]
  BY <1>3 DEF Idle, Verifying
<1>4. CASE win \in [op : {"candidate"}, req : 1..MaxReq]
  BY <1>4 DEF Idle, Verifying
<1>5. CASE win \in [op : {"record"}, req : 1..MaxReq, candidate : Trees]
  BY <1>5 DEF Idle, Verifying
<1>6. CASE win \in [op : {"gate", "snapshot", "checkpoint"}, done : 0..Gates, ok : BOOLEAN]
  BY <1>6 DEF Idle, Verifying
<1> QED BY <1>1, <1>2, <1>3, <1>4, <1>5, <1>6 DEF Windows

\* The requests and the attempts are numbered from 1.
LEMMA Numbered ==
    ASSUME TypeOK
    PROVE  /\ Len(reqs) \in 0..MaxReq /\ DOMAIN reqs = 1..Len(reqs)
           /\ \A i \in DOMAIN reqs : reqs[i] \in RequestRecord /\ i \in 1..MaxReq
           /\ Len(checks) \in 0..MaxCheck /\ DOMAIN checks = 1..Len(checks)
           /\ \A k \in DOMAIN checks : checks[k] \in Check /\ k \in 1..MaxCheck
           /\ checks # <<>> => Len(checks) \in DOMAIN checks
           /\ checkpoint # 0 => checkpoint \in DOMAIN checks
<1>1. reqs \in Seq(RequestRecord) /\ checks \in Seq(Check)
      /\ Len(reqs) <= MaxReq /\ Len(checks) <= MaxCheck /\ checkpoint \in 0..Len(checks)
  BY DEF TypeOK
<1>2. Len(reqs) \in Nat /\ DOMAIN reqs = 1..Len(reqs)
      /\ Len(checks) \in Nat /\ DOMAIN checks = 1..Len(checks)
  BY <1>1, LenProperties
<1>3. MaxReq \in Nat /\ MaxCheck \in Nat
  BY BoundsAssumption
<1>4. \A i \in DOMAIN reqs : reqs[i] \in RequestRecord
  BY <1>1, <1>2, ElementOfSeq
<1>5. \A k \in DOMAIN checks : checks[k] \in Check
  BY <1>1, <1>2, ElementOfSeq
<1>6. checks # <<>> => Len(checks) # 0
  BY <1>1, EmptySeq
<1> QED BY <1>1, <1>2, <1>3, <1>4, <1>5, <1>6

\* A request replaced at its place.
LEMMA Replaced ==
    ASSUME TypeOK, NEW i \in DOMAIN reqs, NEW new \in RequestRecord,
           reqs' = [reqs EXCEPT ![i] = new]
    PROVE  /\ reqs' \in Seq(RequestRecord) /\ Len(reqs') = Len(reqs)
           /\ DOMAIN reqs' = DOMAIN reqs
           /\ reqs'[i] = new
           /\ \A j \in DOMAIN reqs : j # i => reqs'[j] = reqs[j]
<1>1. reqs \in Seq(RequestRecord) /\ DOMAIN reqs = 1..Len(reqs)
  BY Numbered DEF TypeOK
<1> QED BY <1>1, ExceptSeq

\* An attempt added, and the last attempt replaced.
LEMMA Attempted ==
    ASSUME TypeOK, NEW new \in Check, checks' = Append(checks, new)
    PROVE  /\ checks' \in Seq(Check) /\ Len(checks') = Len(checks) + 1
           /\ DOMAIN checks' = 1..Len(checks) + 1
           /\ checks'[Len(checks) + 1] = new
           /\ \A k \in DOMAIN checks : checks'[k] = checks[k]
<1>1. checks \in Seq(Check) /\ DOMAIN checks = 1..Len(checks)
  BY Numbered DEF TypeOK
<1>2. checks' \in Seq(Check) /\ Len(checks') = Len(checks) + 1
      /\ checks'[Len(checks) + 1] = new
      /\ \A k \in 1..Len(checks) : checks'[k] = checks[k]
  BY <1>1, AppendProperties
<1> QED BY <1>1, <1>2, LenProperties

LEMMA Rewritten ==
    ASSUME TypeOK, checks # <<>>, NEW new \in Check, checks' = [checks EXCEPT ![Len(checks)] = new]
    PROVE  /\ checks' \in Seq(Check) /\ Len(checks') = Len(checks)
           /\ DOMAIN checks' = DOMAIN checks
           /\ checks'[Len(checks)] = new
           /\ \A k \in DOMAIN checks : k # Len(checks) => checks'[k] = checks[k]
<1>1. checks \in Seq(Check) /\ DOMAIN checks = 1..Len(checks) /\ Len(checks) \in DOMAIN checks
  BY Numbered DEF TypeOK
<1> QED BY <1>1, ExceptSeq, LenProperties

-----------------------------------------------------------------------------
(***************************************************************************)
(* What each step does to the requests: the identities of a request, its   *)
(* answer and its capture are settled once.                                *)
(***************************************************************************)
Later(p, q) ==
    /\ q.purpose = p.purpose /\ q.spec = p.spec /\ q.handoff = p.handoff /\ q.review = p.review
    /\ p.answer # None => q.answer = p.answer
    /\ p.candidate # None => q.candidate = p.candidate /\ q.record = p.record /\ q.error = p.error
    /\ p.state = "completed" => q.state = "completed"

Settling ==
    /\ reqs' \in Seq(RequestRecord) /\ Len(reqs') <= MaxReq
    /\ \A i \in DOMAIN reqs : i \in DOMAIN reqs' /\ Later(reqs[i], reqs'[i])

LEMMA RequestAdded ==
    ASSUME IInv, NEW purpose \in Purposes, Send(purpose)
    PROVE  /\ Request(purpose) \in RequestRecord
           /\ reqs' \in Seq(RequestRecord) /\ Len(reqs') = Len(reqs) + 1
           /\ DOMAIN reqs' = 1..Len(reqs) + 1
           /\ reqs'[Len(reqs) + 1] = Request(purpose)
           /\ \A i \in DOMAIN reqs : reqs'[i] = reqs[i]
           /\ Settling
<1>1. spec \in Revs
  BY DEF Send, IInv, TypeOK, Revs
<1>2. purpose \in Engineering => handoff \in [spec : Revs, base : Trees] /\ handoff.spec = spec
  BY DEF Send, Admitted, Engineering, handoff_record, IInv, TypeOK
<1>3. purpose = "acceptance_review" => expected \in Identities
  <2>1. ASSUME checkpoint # 0 PROVE expected \in Identities
    <3>1. checkpoint \in 1..MaxCheck /\ checks[checkpoint] \in Check
      BY <2>1, Numbered DEF IInv
    <3> QED BY <1>1, <3>1 DEF expected, Identities, Check
  <2> QED BY <2>1 DEF Send, IInv, WindowInv
<1>4. Request(purpose) \in RequestRecord
  <2>1. (IF purpose \in Engineering THEN handoff.spec ELSE 0) \in 0..MaxRev
    BY <1>2, BoundsAssumption DEF Revs
  <2> QED BY <1>1, <1>3, <2>1 DEF Request, RequestRecord
<1>5. reqs \in Seq(RequestRecord) /\ DOMAIN reqs = 1..Len(reqs) /\ Len(reqs) \in Nat
      /\ Len(reqs) < MaxReq /\ MaxReq \in Nat
  BY Numbered, BoundsAssumption DEF IInv, TypeOK, Send
<1>6. reqs' = Append(reqs, Request(purpose))
  BY DEF Send
<1>7. /\ reqs' \in Seq(RequestRecord) /\ Len(reqs') = Len(reqs) + 1
      /\ reqs'[Len(reqs) + 1] = Request(purpose)
      /\ \A i \in 1..Len(reqs) : reqs'[i] = reqs[i]
  BY <1>4, <1>5, <1>6, AppendProperties
<1>8. DOMAIN reqs' = 1..Len(reqs) + 1
  BY <1>7, LenProperties
<1>9. Settling
  BY <1>5, <1>7, <1>8 DEF Settling, Later
<1> QED BY <1>4, <1>5, <1>7, <1>8, <1>9

\* The steps that touch one request, and what they make of it.
Touches(i) ==
    \/ SyncUnobserved(i) \/ SyncObserve(i)
    \/ \E a \in Answers(reqs[i].purpose) : Answer(i, a)
    \/ CaptureRecord /\ i = win.req

LEMMA RequestTouched ==
    ASSUME IInv, NEW i \in DOMAIN reqs, Touches(i)
    PROVE  /\ reqs' \in Seq(RequestRecord) /\ Len(reqs') = Len(reqs) /\ DOMAIN reqs' = DOMAIN reqs
           /\ \A j \in DOMAIN reqs : j # i => reqs'[j] = reqs[j]
           /\ Later(reqs[i], reqs'[i])
           /\ reqs'[i].state = "open" => reqs[i].state = "open" /\ reqs'[i].candidate = reqs[i].candidate
           /\ reqs'[i].record # None => reqs'[i].record = reqs'[i].candidate
           /\ Settling
<1>0. TypeOK /\ reqs[i] \in RequestRecord
  BY Numbered DEF IInv
<1>1. CASE SyncUnobserved(i) \/ SyncObserve(i)
  <2> DEFINE new == [reqs[i] EXCEPT !.state = "completed"]
  <2>1. new \in RequestRecord /\ reqs' = [reqs EXCEPT ![i] = new]
    BY <1>0, <1>1 DEF SyncUnobserved, SyncObserve, RequestRecord
  <2>2. /\ Later(reqs[i], new) /\ new.state = "completed" /\ new.record = reqs[i].record
        /\ new.candidate = reqs[i].candidate
    BY <1>0 DEF Later, RequestRecord
  <2> HIDE DEF new
  <2>3. /\ reqs' \in Seq(RequestRecord) /\ Len(reqs') = Len(reqs) /\ DOMAIN reqs' = DOMAIN reqs
        /\ reqs'[i] = new /\ \A j \in DOMAIN reqs : j # i => reqs'[j] = reqs[j]
    BY <1>0, <2>1, Replaced
  <2> QED BY <2>2, <2>3 DEF Settling, Later, IInv, CaptureInv, TypeOK
<1>2. ASSUME NEW a \in Answers(reqs[i].purpose), Answer(i, a) PROVE
         /\ reqs' \in Seq(RequestRecord) /\ Len(reqs') = Len(reqs) /\ DOMAIN reqs' = DOMAIN reqs
         /\ \A j \in DOMAIN reqs : j # i => reqs'[j] = reqs[j]
         /\ Later(reqs[i], reqs'[i])
         /\ reqs'[i].state = "open" => reqs[i].state = "open" /\ reqs'[i].candidate = reqs[i].candidate
         /\ reqs'[i].record # None => reqs'[i].record = reqs'[i].candidate
         /\ Settling
  <2> DEFINE new == [reqs[i] EXCEPT !.answer = a]
  <2>1. new \in RequestRecord /\ reqs' = [reqs EXCEPT ![i] = new]
    <3>1. a \in UNION {Answers(p) : p \in Purposes}
      BY <1>0 DEF RequestRecord
    <3> QED BY <1>0, <1>2, <3>1 DEF Answer, RequestRecord
  <2>2. /\ Later(reqs[i], new) /\ new.state = reqs[i].state /\ new.record = reqs[i].record
        /\ new.candidate = reqs[i].candidate
    BY <1>0, <1>2 DEF Later, RequestRecord, Answer
  <2> HIDE DEF new
  <2>3. /\ reqs' \in Seq(RequestRecord) /\ Len(reqs') = Len(reqs) /\ DOMAIN reqs' = DOMAIN reqs
        /\ reqs'[i] = new /\ \A j \in DOMAIN reqs : j # i => reqs'[j] = reqs[j]
    BY <1>0, <2>1, Replaced
  <2> QED BY <2>2, <2>3 DEF Settling, Later, IInv, CaptureInv, TypeOK
<1>3. CASE CaptureRecord /\ i = win.req
  <2> DEFINE good == Reportable(i) /\ tree = win.candidate
             new == [reqs[i] EXCEPT !.candidate = win.candidate,
                                    !.record = IF good THEN tree ELSE None, !.error = ~good]
  <2>1. /\ win.op = "record" /\ reqs[i].purpose \in Engineering /\ reqs[i].candidate = None
        /\ reqs[i].state = "completed"
    BY <1>0, <1>3 DEF CaptureRecord, IInv, WindowInv, RequestRecord
  <2>2. win.candidate \in Trees /\ tree \in Trees /\ good \in BOOLEAN
    BY <1>0, <2>1, Windowed DEF TypeOK, Reportable, handoff_record
  <2>3. reqs' = [reqs EXCEPT ![i] = new]
    BY <1>0, <1>3 DEF CaptureRecord, RequestRecord
  <2>4. new \in RequestRecord
    <3> HIDE DEF good
    <3> QED BY <1>0, <2>2 DEF RequestRecord
  <2>5. /\ Later(reqs[i], new) /\ new.state = "completed"
        /\ new.record # None => new.record = new.candidate
        /\ good => tree = win.candidate
    <3>1. good => tree = win.candidate
      OBVIOUS
    <3> HIDE DEF good
    <3> QED BY <1>0, <2>1, <3>1 DEF Later, RequestRecord
  <2> HIDE DEF new
  <2>6. /\ reqs' \in Seq(RequestRecord) /\ Len(reqs') = Len(reqs) /\ DOMAIN reqs' = DOMAIN reqs
        /\ reqs'[i] = new /\ \A j \in DOMAIN reqs : j # i => reqs'[j] = reqs[j]
    BY <1>0, <2>3, <2>4, Replaced
  <2> QED BY <2>5, <2>6 DEF Settling, Later, IInv, CaptureInv, TypeOK
<1> QED BY <1>1, <1>2, <1>3 DEF Touches

LEMMA StepSettles == IInv /\ [Next]_vars => Settling
<1> SUFFICES ASSUME IInv, [Next]_vars PROVE Settling
  OBVIOUS
<1>1. ASSUME NEW purpose \in Purposes, Send(purpose) PROVE Settling
  BY <1>1, RequestAdded
<1>2. ASSUME NEW i \in DOMAIN reqs, Touches(i) PROVE Settling
  BY <1>2, RequestTouched
<1>3. CASE CaptureRecord
  <2>1. win.req \in DOMAIN reqs
    BY <1>3 DEF CaptureRecord, IInv, WindowInv
  <2> QED BY <1>2, <1>3, <2>1 DEF Touches
<1>4. CASE UNCHANGED reqs
  BY <1>4 DEF Settling, Later, IInv, TypeOK
<1> QED
  BY <1>1, <1>2, <1>3, <1>4 DEF Next, Touches, vars, SpecPut, SpecSave, Handoff, HandoffSave,
     SendReview, AcceptStart, Accept, Refused, CaptureCandidate, VerifyStart, VerifyBegin, VerifyGate,
     VerifySnapshot, VerifySave, Crash, Edit, Blink

(***************************************************************************)
(* What each step does to the attempts: a decided one is never rewritten.  *)
(***************************************************************************)
Deciding ==
    /\ checks' \in Seq(Check) /\ Len(checks') <= MaxCheck /\ Len(checks) <= Len(checks')
    /\ \A k \in DOMAIN checks :
          /\ k \in DOMAIN checks'
          /\ checks'[k].spec = checks[k].spec /\ checks'[k].tree = checks[k].tree
          /\ checks[k].state # "running" => checks'[k] = checks[k]

LEMMA AttemptStarts ==
    ASSUME IInv, VerifyBegin
    PROVE  /\ Deciding /\ Len(checks') = Len(checks) + 1 /\ Len(checks') \in DOMAIN checks'
           /\ DOMAIN checks' = 1..Len(checks) + 1
           /\ \A k \in DOMAIN checks : checks'[k] = checks[k]
           /\ checks'[Len(checks')] = [spec |-> spec, tree |-> tree, state |-> "running", ran |-> TRUE]
           /\ checks' # <<>>
<1> DEFINE new == [spec |-> spec, tree |-> tree, state |-> "running", ran |-> TRUE]
<1>1. TypeOK /\ Len(checks) \in Nat /\ DOMAIN checks = 1..Len(checks)
      /\ Len(checks) < MaxCheck /\ MaxCheck \in Nat
  BY Numbered, BoundsAssumption DEF IInv, WindowInv, VerifyBegin
<1>2. new \in Check
  <2>1. spec \in Revs
    BY DEF VerifyBegin, IInv, WindowInv, TypeOK, Revs
  <2> QED BY <1>1, <2>1 DEF Check, TypeOK
<1>3. checks' = Append(checks, new)
  BY DEF VerifyBegin
<1>4. new.state = "running"
  OBVIOUS
<1> HIDE DEF new
<1>5. /\ checks' \in Seq(Check) /\ Len(checks') = Len(checks) + 1
      /\ DOMAIN checks' = 1..Len(checks) + 1
      /\ checks'[Len(checks) + 1] = new
      /\ \A k \in DOMAIN checks : checks'[k] = checks[k]
  BY <1>1, <1>2, <1>3, Attempted
<1>6. Deciding
  BY <1>1, <1>5 DEF Deciding
<1>7. checks' # <<>>
  BY <1>1, <1>5, EmptySeq
<1> QED BY <1>1, <1>5, <1>6, <1>7 DEF new

\* A gate and the save of the outcome rewrite the running attempt.
LEMMA AttemptGoesOn ==
    ASSUME IInv, (\E ok \in BOOLEAN : VerifyGate(ok)) \/ VerifySave
    PROVE  /\ Verifying /\ checks # <<>> /\ checks' # <<>> /\ checks[Len(checks)] \in Check
           /\ checks[Len(checks)].state = "running"
           /\ Deciding /\ Len(checks') = Len(checks) /\ DOMAIN checks' = DOMAIN checks
           /\ \A k \in DOMAIN checks : k # Len(checks) => checks'[k] = checks[k]
           /\ Len(checks) \in DOMAIN checks
           /\ (\E ok \in BOOLEAN : VerifyGate(ok)) =>
                 checks'[Len(checks)] =
                    [checks[Len(checks)] EXCEPT !.ran = @ /\ tree = checks[Len(checks)].tree]
           /\ VerifySave =>
                 checks'[Len(checks)] =
                    [checks[Len(checks)] EXCEPT !.state = IF win.ok THEN "passed" ELSE "failed"]
<1> DEFINE n == Len(checks)
           went == [checks[n] EXCEPT !.ran = @ /\ tree = checks[n].tree]
           done == [checks[n] EXCEPT !.state = IF win.ok THEN "passed" ELSE "failed"]
<1>1. /\ TypeOK /\ Verifying /\ checks # <<>> /\ checks[n].state = "running"
      /\ n \in DOMAIN checks /\ checks[n] \in Check /\ n <= MaxCheck
      /\ DOMAIN checks = 1..n /\ n \in Nat
  BY Numbered DEF IInv, WindowInv, VerifyGate, VerifySave, Verifying, TypeOK
<1>2. went \in Check /\ went.spec = checks[n].spec /\ went.tree = checks[n].tree
  BY <1>1 DEF Check
<1>3. done \in Check /\ done.spec = checks[n].spec /\ done.tree = checks[n].tree
  BY <1>1 DEF Check
<1>4. (\E ok \in BOOLEAN : VerifyGate(ok)) => checks' = [checks EXCEPT ![n] = went]
  BY <1>1 DEF VerifyGate, Check
<1>5. VerifySave => checks' = [checks EXCEPT ![n] = done]
  BY <1>1 DEF VerifySave, Check
<1>a. checks' # <<>> \/ Len(checks') # n \/ checks' \notin Seq(Check)
  BY <1>1, EmptySeq
<1> HIDE DEF went, done
<1>6. ASSUME NEW new \in Check, checks' = [checks EXCEPT ![n] = new],
             new.spec = checks[n].spec, new.tree = checks[n].tree
      PROVE  /\ Deciding /\ Len(checks') = n /\ DOMAIN checks' = DOMAIN checks
             /\ \A k \in DOMAIN checks : k # n => checks'[k] = checks[k]
             /\ checks'[n] = new /\ checks' # <<>>
  <2>1. /\ checks' \in Seq(Check) /\ Len(checks') = n /\ DOMAIN checks' = DOMAIN checks
        /\ checks'[n] = new /\ \A k \in DOMAIN checks : k # n => checks'[k] = checks[k]
    BY <1>1, <1>6, Rewritten
  <2> QED BY <1>1, <1>6, <1>a, <2>1 DEF Deciding
<1>7. CASE \E ok \in BOOLEAN : VerifyGate(ok)
  <2>1. ~VerifySave
    BY <1>7 DEF VerifyGate, VerifySave
  <2> QED BY <1>1, <1>2, <1>4, <1>6, <1>7, <2>1 DEF went
<1>8. CASE VerifySave
  <2>1. ~\E ok \in BOOLEAN : VerifyGate(ok)
    BY <1>8 DEF VerifyGate, VerifySave
  <2> QED BY <1>1, <1>3, <1>5, <1>6, <1>8, <2>1 DEF done
<1> QED BY <1>7, <1>8

LEMMA StepDecides == IInv /\ [Next]_vars => Deciding
<1> SUFFICES ASSUME IInv, [Next]_vars PROVE Deciding
  OBVIOUS
<1>1. CASE VerifyBegin
  BY <1>1, AttemptStarts
<1>2. CASE (\E ok \in BOOLEAN : VerifyGate(ok)) \/ VerifySave
  BY <1>2, AttemptGoesOn
<1>3. CASE UNCHANGED checks
  BY <1>3, Numbered DEF Deciding, IInv, TypeOK
<1> QED
  BY <1>1, <1>2, <1>3 DEF Next, vars, SpecPut, SpecSave, Handoff, HandoffSave, Send,
     SendReview, SyncUnobserved, SyncObserve, AcceptStart, Accept, Refused, CaptureCandidate,
     CaptureRecord, VerifyStart, VerifySnapshot, Crash, Answer, Edit, Blink

-----------------------------------------------------------------------------
(***************************************************************************)
(* The invariant, part by part.                                            *)
(***************************************************************************)
LEMMA StepType == IInv /\ [Next]_vars => TypeOK'
<1> SUFFICES ASSUME IInv, [Next]_vars PROVE TypeOK'
  OBVIOUS
<1>a. TypeOK /\ Settling /\ Deciding
  BY StepSettles, StepDecides DEF IInv
<1>b. /\ reqs' \in Seq(RequestRecord) /\ Len(reqs') <= MaxReq
      /\ checks' \in Seq(Check) /\ Len(checks') <= MaxCheck
      /\ Len(checks) \in Nat /\ Len(checks') \in Nat /\ Len(checks) <= Len(checks')
  BY <1>a, Numbered, LenProperties DEF Settling, Deciding
\* What the rest of the state has to be.
<1> DEFINE Room == /\ spec' \in 0..MaxRev /\ specFiles' \subseteq Revs
                   /\ handoff' \in [spec : Revs, base : Trees] \cup {None}
                   /\ handoffFiles' \subseteq Revs
           Work == /\ candFiles' \subseteq 1..MaxReq /\ checkpoint' \in 0..Len(checks')
                   /\ accepted' \subseteq [identities : Identities, req : 1..MaxReq]
                   /\ win' \in Windows
           World == /\ tree' \in Trees /\ head' \in Trees /\ readable' \subseteq Roles
                    /\ blinks' \in Nat
<1>c. Room /\ Work /\ World /\ crashes' \in Nat => TypeOK'
  BY <1>b DEF TypeOK
<1>d. UNCHANGED roomVars => Room
  BY <1>a DEF roomVars, TypeOK
<1>e. UNCHANGED worldVars => World
  BY <1>a DEF worldVars, TypeOK
<1>f. UNCHANGED checkpoint => checkpoint' \in 0..Len(checks')
  BY <1>a, <1>b DEF TypeOK
<1>g. UNCHANGED <<candFiles, checkpoint, accepted>> /\ win' \in Windows => Work
  BY <1>a, <1>f DEF TypeOK
<1>h. UNCHANGED <<candFiles, accepted>> /\ checkpoint' = 0 /\ win' \in Windows => Work
  BY <1>a, <1>b DEF TypeOK
<1>i. UNCHANGED crashes => crashes' \in Nat
  BY <1>a DEF TypeOK
<1>j. win \in Windows /\ Idle \in Windows
  BY <1>a DEF TypeOK, Windows, Idle
<1> HIDE DEF Room, Work, World
<1>1. ASSUME NEW r \in Revs, SpecPut(r) PROVE TypeOK'
  <2>1. win' \in Windows
    BY <1>1 DEF SpecPut, Windows
  <2>2. Room
    BY <1>1, <1>a DEF SpecPut, Room, TypeOK
  <2> QED BY <1>1, <1>c, <1>e, <1>g, <1>i, <2>1, <2>2 DEF SpecPut
<1>2. CASE SpecSave
  <2>1. Room
    BY <1>2, <1>a, Windowed DEF SpecSave, Room, TypeOK, Revs
  <2> QED BY <1>2, <1>c, <1>e, <1>h, <1>i, <1>j, <2>1 DEF SpecSave
<1>3. CASE Handoff
  <2>1. win' \in Windows
    BY <1>3, <1>a DEF Handoff, Windows, TypeOK
  <2>2. Room
    BY <1>3, <1>a DEF Handoff, Room, TypeOK, Revs
  <2> QED BY <1>3, <1>c, <1>e, <1>g, <1>i, <2>1, <2>2 DEF Handoff
<1>4. CASE HandoffSave
  <2>1. spec \in Revs /\ win.base \in Trees
    BY <1>4, <1>a, Windowed DEF HandoffSave, IInv, WindowInv, TypeOK, Revs
  <2>2. Room
    BY <1>4, <1>a, <2>1 DEF HandoffSave, Room, TypeOK
  <2> QED BY <1>4, <1>c, <1>e, <1>h, <1>i, <1>j, <2>2 DEF HandoffSave
<1>5. ASSUME NEW purpose \in Purposes, Send(purpose) PROVE TypeOK'
  BY <1>5, <1>c, <1>d, <1>e, <1>g, <1>i, <1>j DEF Send
<1>6. ASSUME NEW i \in DOMAIN reqs,
             SyncUnobserved(i) \/ \E a \in Answers(reqs[i].purpose) : Answer(i, a)
      PROVE TypeOK'
  BY <1>6, <1>c, <1>d, <1>e, <1>g, <1>i, <1>j DEF SyncUnobserved, Answer
<1>7. ASSUME NEW i \in DOMAIN reqs, SyncObserve(i) PROVE TypeOK'
  <2>1. i \in 1..MaxReq
    BY <1>7, <1>a, Numbered
  <2>2. win' \in Windows
    BY <1>7, <1>j, <2>1 DEF SyncObserve, Windows
  <2> QED BY <1>7, <1>c, <1>d, <1>e, <1>g, <1>i, <2>2 DEF SyncObserve
<1>8. ASSUME NEW i \in DOMAIN reqs, Accept(i) PROVE TypeOK'
  <2>0. checkpointed /\ i \in DOMAIN reqs /\ reqs[i].spec = spec /\ win' = Idle
    BY <1>8 DEF Accept
  <2>1. i \in 1..MaxReq /\ spec \in Revs
    BY <2>0, <1>a, Numbered DEF RequestRecord
  <2>2. checkpoint \in 1..MaxCheck /\ checks[checkpoint] \in Check
    BY <1>8, <1>a, Numbered DEF Accept, checkpointed
  <2>3. expected \in Identities
    BY <2>1, <2>2 DEF expected, Identities, Check
  <2>4. accepted' \subseteq [identities : Identities, req : 1..MaxReq]
    BY <1>8, <1>a, <2>1, <2>3 DEF Accept, TypeOK
  <2>5. Work
    BY <1>8, <1>a, <1>f, <1>j, <2>4 DEF Accept, Work, TypeOK
  <2> QED BY <1>8, <1>c, <1>d, <1>e, <1>i, <2>5 DEF Accept
<1>9. CASE CaptureCandidate
  <2>1. win.req \in 1..MaxReq
    BY <1>9, <1>j, Windowed DEF CaptureCandidate
  <2>2. win' \in Windows
    BY <1>9, <1>a, <2>1 DEF CaptureCandidate, Windows, TypeOK
  <2>3. Work
    BY <1>9, <1>a, <1>f, <2>1, <2>2 DEF CaptureCandidate, Work, TypeOK
  <2> QED BY <1>9, <1>c, <1>d, <1>e, <1>i, <2>3 DEF CaptureCandidate
<1>10. CASE CaptureRecord
  BY <1>10, <1>c, <1>d, <1>e, <1>g, <1>i, <1>j DEF CaptureRecord
<1>11. CASE VerifyBegin
  <2>1. win' \in Windows
    BY <1>11, BoundsAssumption DEF VerifyBegin, Windows
  <2> QED BY <1>11, <1>c, <1>d, <1>e, <1>h, <1>i, <2>1 DEF VerifyBegin
<1>12. ASSUME NEW ok \in BOOLEAN, VerifyGate(ok) PROVE TypeOK'
  <2>1. win.done \in 0..Gates /\ win.done < Gates
    BY <1>12, <1>j, Windowed DEF VerifyGate, Verifying, IInv, WindowInv
  <2>2. win.done + 1 \in 0..Gates
    BY <2>1, BoundsAssumption
  <2>3. win' \in Windows
    BY <1>12, <2>2 DEF VerifyGate, Windows
  <2> QED BY <1>12, <1>c, <1>d, <1>e, <1>g, <1>i, <2>3 DEF VerifyGate
<1>13. CASE VerifySnapshot
  <2>1. win.done \in 0..Gates /\ win.ok \in BOOLEAN
    BY <1>13, <1>j, Windowed DEF VerifySnapshot, Verifying
  <2> DEFINE same == win.ok /\ tree = checks[Len(checks)].tree
  <2>2. same \in BOOLEAN
    BY <2>1
  <2>3. win' = IF same /\ win.done < Gates
               THEN [op |-> "gate", done |-> win.done, ok |-> TRUE]
               ELSE [op |-> "checkpoint", done |-> win.done, ok |-> same]
    BY <1>13 DEF VerifySnapshot
  <2> HIDE DEF same
  <2>4. win' \in Windows
    BY <2>1, <2>2, <2>3 DEF Windows
  <2> QED BY <1>13, <1>c, <1>d, <1>e, <1>g, <1>i, <2>4 DEF VerifySnapshot
<1>14. CASE VerifySave
  <2>1. checkpoint' \in 0..Len(checks')
    BY <1>14, <1>b, <1>f DEF VerifySave
  <2>2. Work
    BY <1>14, <1>a, <1>j, <2>1 DEF VerifySave, Work, TypeOK
  <2> QED BY <1>14, <1>c, <1>d, <1>e, <1>i, <2>2 DEF VerifySave
<1>15. CASE Crash
  <2>1. crashes' \in Nat
    BY <1>15, <1>a DEF Crash, TypeOK
  <2> QED BY <1>15, <1>c, <1>d, <1>e, <1>g, <1>j, <2>1 DEF Crash
<1>16. ASSUME NEW t \in Trees, Edit(t) PROVE TypeOK'
  <2>1. World
    BY <1>16, <1>a DEF Edit, World, TypeOK
  <2> QED BY <1>16, <1>c, <1>d, <1>g, <1>i, <1>j, <2>1 DEF Edit
<1>17. ASSUME NEW o \in Roles, Blink(o) PROVE TypeOK'
  <2>1. World
    BY <1>17, <1>a DEF Blink, World, TypeOK
  <2> QED BY <1>17, <1>c, <1>d, <1>g, <1>i, <1>j, <2>1 DEF Blink
<1>18. CASE UNCHANGED vars
  BY <1>18, <1>a DEF vars, TypeOK
<1>19. CASE SendReview \/ VerifyStart \/ AcceptStart \/ Refused
  <2>1. win' \in Windows
    BY <1>19, <1>j DEF SendReview, VerifyStart, AcceptStart, Refused, Windows
  <2> QED
    BY <1>19, <1>c, <1>d, <1>e, <1>g, <1>i, <2>1 DEF SendReview, VerifyStart, AcceptStart, Refused
<1> QED
  BY <1>1, <1>2, <1>3, <1>4, <1>5, <1>6, <1>7, <1>8, <1>9, <1>10, <1>11, <1>12, <1>13, <1>14,
     <1>15, <1>16, <1>17, <1>18, <1>19 DEF Next

LEMMA StepWindow == IInv /\ [Next]_vars => WindowInv'
<1> SUFFICES ASSUME IInv, [Next]_vars PROVE WindowInv'
  OBVIOUS
<1>a. TypeOK /\ TypeOK' /\ Settling /\ win \in Windows /\ WindowInv
  BY StepSettles, StepType DEF IInv, TypeOK
<1>b. ASSUME win' = Idle PROVE WindowInv'
  BY <1>b DEF WindowInv, Idle, Verifying
\* Between its steps the operation keeps what it rests on.
<1>c. ASSUME UNCHANGED <<win, spec, checks, checkpoint, reqs>> PROVE WindowInv'
  BY <1>a, <1>c DEF WindowInv, Verifying
<1>1. ASSUME NEW r \in Revs, SpecPut(r) PROVE WindowInv'
  BY <1>1 DEF SpecPut, WindowInv, Verifying
<1>2. CASE SpecSave \/ HandoffSave \/ CaptureRecord \/ VerifySave \/ Refused \/ Crash
  BY <1>2, <1>b DEF SpecSave, HandoffSave, CaptureRecord, VerifySave, Refused, Crash
<1>3. CASE Handoff
  BY <1>3 DEF Handoff, WindowInv, Verifying
<1>4. ASSUME NEW purpose \in Purposes, Send(purpose) PROVE WindowInv'
  BY <1>4, <1>b DEF Send
<1>5. ASSUME NEW i \in DOMAIN reqs, SyncUnobserved(i) PROVE WindowInv'
  BY <1>5, <1>b DEF SyncUnobserved
<1>6. ASSUME NEW i \in DOMAIN reqs, SyncObserve(i) PROVE WindowInv'
  <2>1. CASE reqs[i].purpose \notin Engineering
    BY <1>6, <1>b, <2>1 DEF SyncObserve
  <2>2. CASE reqs[i].purpose \in Engineering
    <3>1. win' = [op |-> "candidate", req |-> i]
      BY <1>6, <2>2 DEF SyncObserve
    <3>2. reqs[i] \in RequestRecord /\ reqs[i].state = "open" /\ reqs[i].candidate = None
      BY <1>6, <1>a, Numbered DEF SyncObserve, Open, IInv, CaptureInv
    <3>3. reqs' = [reqs EXCEPT ![i] = [reqs[i] EXCEPT !.state = "completed"]]
      BY <1>6, <3>2 DEF SyncObserve, RequestRecord
    <3>4. [reqs[i] EXCEPT !.state = "completed"] \in RequestRecord
      BY <3>2 DEF RequestRecord
    <3>5. i \in DOMAIN reqs' /\ reqs'[i] = [reqs[i] EXCEPT !.state = "completed"]
      BY <1>a, <3>3, <3>4, Replaced
    <3>6. reqs'[i].purpose \in Engineering /\ reqs'[i].state = "completed"
          /\ reqs'[i].candidate = None
      BY <2>2, <3>2, <3>5 DEF RequestRecord
    <3> QED BY <3>1, <3>5, <3>6 DEF WindowInv, Verifying
  <2> QED BY <2>1, <2>2
<1>7. ASSUME NEW i \in DOMAIN reqs, Accept(i) PROVE WindowInv'
  BY <1>7, <1>b DEF Accept
<1>8. CASE CaptureCandidate
  BY <1>8, <1>a DEF CaptureCandidate, WindowInv, Verifying
<1>9. CASE VerifyBegin
  <2>1. win' = [op |-> "gate", done |-> 0, ok |-> TRUE]
        /\ checkpoint' = 0 /\ UNCHANGED spec
    BY <1>9 DEF VerifyBegin, roomVars
  <2>2. checks' # <<>> /\ checks'[Len(checks')].state = "running"
        /\ checks'[Len(checks')].spec = spec
    BY <1>9, AttemptStarts
  <2> QED BY <2>1, <2>2, BoundsAssumption DEF WindowInv, Verifying
<1>10. ASSUME NEW ok \in BOOLEAN, VerifyGate(ok) PROVE WindowInv'
  <2>1. win' = [op |-> "snapshot", done |-> win.done + 1, ok |-> ok]
        /\ UNCHANGED <<spec, checkpoint>> /\ win.op = "gate"
    BY <1>10 DEF VerifyGate, roomVars
  <2>2. /\ checks' # <<>> /\ Len(checks') = Len(checks) /\ checks[Len(checks)] \in Check
        /\ checks'[Len(checks)] =
              [checks[Len(checks)] EXCEPT !.ran = @ /\ tree = checks[Len(checks)].tree]
    BY <1>10, AttemptGoesOn
  <2>3. checks'[Len(checks')].state = "running" /\ checks'[Len(checks')].spec = spec
        /\ checkpoint = 0
    BY <1>a, <2>1, <2>2 DEF WindowInv, Verifying, Check
  <2> QED BY <2>1, <2>2, <2>3 DEF WindowInv, Verifying
<1>11. CASE VerifySnapshot
  BY <1>11, <1>a DEF VerifySnapshot, roomVars, WindowInv, Verifying
<1>12. ASSUME NEW i \in DOMAIN reqs, NEW a \in Answers(reqs[i].purpose), Answer(i, a)
       PROVE WindowInv'
  <2>1. UNCHANGED <<spec, checks, checkpoint, win>>
    BY <1>12 DEF Answer, roomVars
  <2>2. ASSUME win.op \in {"candidate", "record"}
        PROVE  /\ win.req \in DOMAIN reqs' /\ reqs'[win.req].purpose \in Engineering
               /\ reqs'[win.req].state = "completed" /\ reqs'[win.req].candidate = None
    <3>1. /\ win.req \in DOMAIN reqs /\ reqs[win.req].purpose \in Engineering
          /\ reqs[win.req].state = "completed" /\ reqs[win.req].candidate = None
      BY <1>a, <2>2 DEF WindowInv
    <3>2. win.req # i
      BY <1>12, <3>1 DEF Answer
    <3>3. win.req \in DOMAIN reqs' /\ reqs'[win.req] = reqs[win.req]
      BY <1>12, <3>1, <3>2, RequestTouched DEF Touches
    <3> QED BY <3>1, <3>3
  <2> QED BY <1>a, <2>1, <2>2 DEF WindowInv, Verifying
<1>13. CASE (\E t \in Trees : Edit(t)) \/ (\E o \in Roles : Blink(o)) \/ UNCHANGED vars
  BY <1>13, <1>c DEF Edit, Blink, roomVars, vars
<1>14. CASE SendReview
  BY <1>14 DEF SendReview, checkpointed, WindowInv, Verifying
<1>15. CASE VerifyStart
  <2>1. handoff.spec = spec /\ handoff \in [spec : Revs, base : Trees]
    BY <1>15, <1>a DEF VerifyStart, engineering_ready, handoff_record, TypeOK
  <2>2. spec # 0
    BY <2>1, <1>a DEF Revs, TypeOK
  <2> QED BY <1>15, <2>2 DEF VerifyStart, roomVars, WindowInv, Verifying
<1>16. CASE AcceptStart
  BY <1>16 DEF AcceptStart, WindowInv, Verifying
<1> QED
  BY <1>1, <1>2, <1>3, <1>4, <1>5, <1>6, <1>7, <1>8, <1>9, <1>10, <1>11, <1>12, <1>13, <1>14, <1>15,
     <1>16 DEF Next

\* Which steps touch the requests.
LEMMA RequestSteps ==
    ASSUME IInv, [Next]_vars
    PROVE  \/ \E purpose \in Purposes : Send(purpose)
           \/ \E i \in DOMAIN reqs : Touches(i)
           \/ UNCHANGED reqs
<1>1. CaptureRecord => win.req \in DOMAIN reqs
  BY DEF CaptureRecord, IInv, WindowInv
<1> QED
  BY <1>1 DEF Next, Touches, vars, SpecPut, SpecSave, Handoff, HandoffSave,
     SendReview, AcceptStart, Accept, Refused, CaptureCandidate, VerifyStart, VerifyBegin, VerifyGate,
     VerifySnapshot, VerifySave, Crash, Edit, Blink

LEMMA StepCapture == IInv /\ [Next]_vars => CaptureInv'
<1> SUFFICES ASSUME IInv, [Next]_vars PROVE CaptureInv'
  OBVIOUS
<1>0. CaptureInv /\ TypeOK
  BY DEF IInv
<1>1. ASSUME NEW purpose \in Purposes, Send(purpose) PROVE CaptureInv'
  <2>1. /\ DOMAIN reqs' = 1..Len(reqs) + 1 /\ DOMAIN reqs = 1..Len(reqs) /\ Len(reqs) \in Nat
        /\ reqs'[Len(reqs) + 1] = Request(purpose)
        /\ \A i \in DOMAIN reqs : reqs'[i] = reqs[i]
    BY <1>0, <1>1, RequestAdded, Numbered
  <2>2. Request(purpose).candidate = None /\ Request(purpose).record = None
    BY DEF Request
  <2>3. \A i \in DOMAIN reqs' : i \in DOMAIN reqs \/ i = Len(reqs) + 1
    BY <2>1
  <2> QED BY <1>0, <2>1, <2>2, <2>3 DEF CaptureInv
<1>2. ASSUME NEW i \in DOMAIN reqs, Touches(i) PROVE CaptureInv'
  <2>1. /\ DOMAIN reqs' = DOMAIN reqs
        /\ \A j \in DOMAIN reqs : j # i => reqs'[j] = reqs[j]
        /\ reqs'[i].state = "open" => reqs[i].state = "open" /\ reqs'[i].candidate = reqs[i].candidate
        /\ reqs'[i].record # None => reqs'[i].record = reqs'[i].candidate
    BY <1>2, RequestTouched
  <2> QED BY <1>0, <2>1 DEF CaptureInv
<1>3. CASE UNCHANGED reqs
  BY <1>0, <1>3 DEF CaptureInv
<1> QED BY <1>1, <1>2, <1>3, RequestSteps

LEMMA StepCheckpoint == IInv /\ [Next]_vars => CheckpointIsLast'
<1> SUFFICES ASSUME IInv, [Next]_vars PROVE CheckpointIsLast'
  OBVIOUS
<1>0. CheckpointIsLast /\ WindowInv /\ TypeOK
  BY DEF IInv
<1>1. CASE UNCHANGED <<spec, checks, checkpoint>>
  BY <1>0, <1>1 DEF CheckpointIsLast
<1>2. CASE checkpoint' = 0
  BY <1>2 DEF CheckpointIsLast
<1>3. ASSUME NEW ok \in BOOLEAN, VerifyGate(ok) PROVE CheckpointIsLast'
  BY <1>0, <1>2, <1>3 DEF VerifyGate, WindowInv, Verifying
<1>4. CASE VerifySave
  <2>1. /\ checks[Len(checks)] \in Check /\ Len(checks') = Len(checks)
        /\ checks'[Len(checks)] =
              [checks[Len(checks)] EXCEPT !.state = IF win.ok THEN "passed" ELSE "failed"]
    BY <1>4, AttemptGoesOn
  <2>2. checks[Len(checks)].spec = spec /\ checkpoint = 0 /\ UNCHANGED spec
        /\ checkpoint' = IF win.ok THEN Len(checks) ELSE checkpoint
    BY <1>0, <1>4 DEF VerifySave, WindowInv, Verifying, roomVars
  <2>3. CASE ~win.ok
    BY <1>2, <2>2, <2>3
  <2>4. CASE win.ok
    BY <2>1, <2>2, <2>4 DEF CheckpointIsLast, Check
  <2> QED BY <2>3, <2>4
<1>5. ASSUME NEW purpose \in Purposes, Send(purpose) PROVE UNCHANGED <<spec, checks, checkpoint>>
  BY <1>5 DEF Send, roomVars
<1>6. ASSUME NEW i \in DOMAIN reqs,
             \/ SyncUnobserved(i) \/ SyncObserve(i) \/ Accept(i)
             \/ \E a \in Answers(reqs[i].purpose) : Answer(i, a)
      PROVE UNCHANGED <<spec, checks, checkpoint>>
  BY <1>6 DEF SyncUnobserved, SyncObserve, Accept, Answer, roomVars
<1> QED
  BY <1>1, <1>2, <1>3, <1>4, <1>5, <1>6 DEF Next, vars, roomVars, SpecPut, SpecSave, Handoff,
     HandoffSave, SendReview, AcceptStart, Refused, CaptureCandidate, CaptureRecord, VerifyStart,
     VerifyBegin, VerifySnapshot, Crash, Edit, Blink

\* An agreement is the last specification review there is.
LEMMA AgreementLast ==
    ASSUME TypeOK, agreement
    PROVE  \E s \in DOMAIN reqs :
              /\ Approves(s, spec)
              /\ \A n \in (s + 1)..Len(reqs) : reqs[n].purpose # "spec_review"
<1>1. PICK s \in latest({"spec_review"}) : reqs[s].spec = spec /\ reqs[s].answer = "accept"
  BY DEF agreement
<1>2. s \in DOMAIN reqs /\ reqs[s].purpose = "spec_review"
      /\ \A j \in DOMAIN reqs : reqs[j].purpose = "spec_review" => j <= s
  BY <1>1 DEF latest, Named
<1>3. DOMAIN reqs = 1..Len(reqs) /\ Len(reqs) \in Nat
  BY Numbered
<1>4. ASSUME NEW n \in (s + 1)..Len(reqs) PROVE reqs[n].purpose # "spec_review"
  <2>1. n \in DOMAIN reqs /\ ~(n <= s)
    BY <1>2, <1>3
  <2> QED BY <1>2, <2>1
<1> QED BY <1>1, <1>2, <1>4 DEF Approves

LEMMA NoneAnswers == None # "accept" /\ None # "approved" /\ None # "completed"
  BY NoneAssumption DEF Answers, Purposes, Engineering

LEMMA StepAgreed == IInv /\ [Next]_vars => EngineeringAgreed'
<1> SUFFICES ASSUME IInv, [Next]_vars PROVE EngineeringAgreed'
  OBVIOUS
<1>0. TypeOK /\ Settling /\ DOMAIN reqs = 1..Len(reqs) /\ Len(reqs) \in Nat
  BY StepSettles, Numbered DEF IInv
<1> DEFINE Agreed(i) ==
              /\ reqs[i].handoff = reqs[i].spec
              /\ \E s \in 1..(i - 1) :
                    /\ Approves(s, reqs[i].spec)
                    /\ \A n \in (s + 1)..(i - 1) : reqs[n].purpose # "spec_review"
              /\ reqs[i].purpose = "implementation" <=>
                    \A j \in 1..(i - 1) :
                       reqs[j].purpose \in Engineering => reqs[j].handoff # reqs[i].handoff
\* The requests before it keep what an engineering request was admitted on.
<1>1. ASSUME NEW i \in DOMAIN reqs, reqs'[i].purpose \in Engineering PROVE Agreed(i)'
  <2>1. \A j \in 1..i : j \in DOMAIN reqs /\ Later(reqs[j], reqs'[j])
    BY <1>0 DEF Settling
  <2>2. reqs[i].purpose \in Engineering /\ i \in 1..i /\ i \in Nat
    BY <1>0, <1>1, <2>1 DEF Later
  <2>3. Agreed(i)
    BY <2>2 DEF IInv, EngineeringAgreed, Named
  <2>4. reqs'[i].handoff = reqs[i].handoff /\ reqs'[i].spec = reqs[i].spec
        /\ reqs'[i].purpose = reqs[i].purpose
    BY <2>1, <2>2 DEF Later
  <2>5. \A j \in 1..(i - 1) : reqs'[j].purpose = reqs[j].purpose /\ reqs'[j].handoff = reqs[j].handoff
    BY <2>1, <2>2 DEF Later
  <2>6. PICK s \in 1..(i - 1) : /\ Approves(s, reqs[i].spec)
                                /\ \A n \in (s + 1)..(i - 1) : reqs[n].purpose # "spec_review"
    BY <2>3
  <2>7. Approves(s, reqs[i].spec)'
    <3>1. s \in 1..i
      BY <2>2, <2>6
    <3>2. reqs[s].answer # None
      BY <2>6, NoneAnswers DEF Approves
    <3> QED BY <2>1, <2>4, <2>6, <3>1, <3>2 DEF Approves, Later
  <2>8. \A n \in (s + 1)..(i - 1) : reqs'[n].purpose # "spec_review"
    BY <2>2, <2>5, <2>6
  <2> QED BY <2>3, <2>4, <2>5, <2>7, <2>8
<1>2. ASSUME NEW purpose \in Engineering, NEW i, i = Len(reqs) + 1, Send(purpose)
      PROVE  Agreed(i)'
  <2>0. purpose \in Purposes
    BY DEF Purposes
  <2>1. reqs'[i] = Request(purpose) /\ \A j \in DOMAIN reqs : reqs'[j] = reqs[j]
    BY <1>2, <2>0, RequestAdded
  <2>2. agreement /\ handoff_record
        /\ (purpose = "implementation" => Previous = {})
        /\ (purpose = "correction" => Previous # {})
    BY <1>2 DEF Send, Admitted, Engineering
  <2>3. reqs'[i].handoff = spec /\ reqs'[i].spec = spec /\ reqs'[i].purpose = purpose
    BY <2>1, <2>2 DEF Request, handoff_record
  <2>4. 1..(i - 1) = DOMAIN reqs
    BY <1>0, <1>2
  <2>5. PICK s \in DOMAIN reqs :
           /\ Approves(s, spec)
           /\ \A n \in (s + 1)..Len(reqs) : reqs[n].purpose # "spec_review"
    BY <1>0, <2>2, AgreementLast
  <2>6. Approves(s, reqs[i].spec)'
    BY <2>1, <2>3, <2>5 DEF Approves
  <2>7. \A n \in (s + 1)..(i - 1) : reqs'[n].purpose # "spec_review"
    <3>1. ASSUME NEW n \in (s + 1)..(i - 1) PROVE n \in (s + 1)..Len(reqs) /\ n \in DOMAIN reqs
      BY <1>0, <1>2, <2>5
    <3> QED BY <2>1, <2>5, <3>1
  <2>8. purpose = "implementation" <=>
           \A j \in 1..(i - 1) : reqs'[j].purpose \in Engineering => reqs'[j].handoff # spec
    <3>1. Previous = {j \in DOMAIN reqs : reqs[j].purpose \in Engineering /\ reqs[j].handoff = spec}
      BY <2>2 DEF Previous, Named, handoff_record
    <3>2. purpose = "implementation" \/ purpose = "correction"
      BY DEF Engineering
    <3> QED BY <2>1, <2>2, <2>4, <3>1, <3>2
  <2> QED BY <2>3, <2>4, <2>5, <2>6, <2>7, <2>8
<1> HIDE DEF Agreed
<1>3. (\A i \in DOMAIN reqs' : reqs'[i].purpose \in Engineering => Agreed(i)') => EngineeringAgreed'
  BY DEF Agreed, EngineeringAgreed, Named
<1>4. ASSUME NEW purpose \in Purposes, Send(purpose) PROVE EngineeringAgreed'
  <2>1. DOMAIN reqs' = 1..Len(reqs) + 1 /\ reqs'[Len(reqs) + 1] = Request(purpose)
    BY <1>4, RequestAdded
  <2>2. \A i \in DOMAIN reqs' : i \in DOMAIN reqs \/ i = Len(reqs) + 1
    BY <1>0, <2>1
  <2>3. ASSUME NEW i \in DOMAIN reqs', i = Len(reqs) + 1, reqs'[i].purpose \in Engineering
        PROVE  Agreed(i)'
    <3>1. purpose \in Engineering
      BY <2>1, <2>3 DEF Request
    <3> QED BY <1>2, <1>4, <2>3, <3>1
  <2> QED BY <1>1, <1>3, <2>2, <2>3
<1>5. ASSUME NEW i \in DOMAIN reqs, Touches(i) PROVE DOMAIN reqs' = DOMAIN reqs
  BY <1>5, RequestTouched
<1> QED BY <1>1, <1>3, <1>4, <1>5, RequestSteps

LEMMA StepAccepted == IInv /\ [Next]_vars => AcceptedInv'
<1> SUFFICES ASSUME IInv, [Next]_vars PROVE AcceptedInv'
  OBVIOUS
<1>0. TypeOK /\ Settling /\ Deciding /\ AcceptedInv
  BY StepSettles, StepDecides DEF IInv
<1>1. ASSUME NEW a, a.identities.evidence \in DOMAIN checks, a.req \in DOMAIN reqs
      PROVE  a.identities.evidence \in DOMAIN checks' /\ a.req \in DOMAIN reqs'
  BY <1>0, <1>1 DEF Settling, Deciding
<1>2. ASSUME NEW i \in DOMAIN reqs, Accept(i) PROVE AcceptedInv'
  <2>1. accepted' = accepted \cup {[identities |-> expected, req |-> i]} /\ checkpoint # 0
    BY <1>2 DEF Accept, checkpointed
  <2>2. expected.evidence = checkpoint /\ checkpoint \in DOMAIN checks
    BY <1>0, <2>1, Numbered DEF expected
  <2> QED BY <1>0, <1>1, <2>1, <2>2 DEF AcceptedInv
<1>3. CASE UNCHANGED accepted
  BY <1>0, <1>1, <1>3 DEF AcceptedInv
<1>4. ASSUME NEW i \in DOMAIN reqs,
             \/ SyncUnobserved(i) \/ SyncObserve(i)
             \/ \E a \in Answers(reqs[i].purpose) : Answer(i, a)
      PROVE UNCHANGED accepted
  BY <1>4 DEF SyncUnobserved, SyncObserve, Answer
<1> QED
  BY <1>2, <1>3, <1>4 DEF Next, vars, SpecPut, SpecSave, Handoff, HandoffSave, SendReview, Send,
     AcceptStart, Refused, CaptureCandidate, CaptureRecord, VerifyStart, VerifyBegin, VerifyGate,
     VerifySnapshot, VerifySave, Crash, Edit, Blink

\* The contents of the worktree are numbered, and so are those of the attempts.
LEMMA TreesNumbered ==
    ASSUME TypeOK
    PROVE  tree \in Nat /\ \A k \in DOMAIN checks : checks[k].tree \in Nat
<1>1. \A t \in Trees : t \in Nat
  BY BoundsAssumption DEF Trees
<1>2. tree \in Trees /\ \A k \in DOMAIN checks : checks[k] \in Check
  BY Numbered DEF TypeOK
<1> QED BY <1>1, <1>2 DEF Check

LEMMA TreeGrows == Restore = FALSE /\ IInv /\ [Next]_vars => tree <= tree'
<1> SUFFICES ASSUME Restore = FALSE, IInv, [Next]_vars PROVE tree <= tree'
  OBVIOUS
<1>1. tree \in Nat
  BY TreesNumbered DEF IInv
<1>2. ASSUME NEW t \in Trees, Edit(t) PROVE tree <= tree'
  BY <1>1, <1>2 DEF Edit
<1>3. CASE UNCHANGED tree
  BY <1>1, <1>3
<1>4. ASSUME NEW i \in DOMAIN reqs,
             \/ SyncUnobserved(i) \/ SyncObserve(i) \/ Accept(i)
             \/ \E a \in Answers(reqs[i].purpose) : Answer(i, a)
      PROVE UNCHANGED tree
  BY <1>4 DEF SyncUnobserved, SyncObserve, Accept, Answer, worldVars
<1> QED
  BY <1>2, <1>3, <1>4 DEF Next, vars, worldVars, SpecPut, SpecSave, Handoff, HandoffSave, SendReview,
     Send, AcceptStart, Refused, CaptureCandidate, CaptureRecord, VerifyStart, VerifyBegin,
     VerifyGate, VerifySnapshot, VerifySave, Crash, Blink

\* What engineering resulted in is settled.
LEMMA ResultedKept ==
    ASSUME IInv, Settling, UNCHANGED spec, NEW e \in DOMAIN reqs, Resulted(e)
    PROVE  e \in DOMAIN reqs' /\ Resulted(e)' /\ reqs'[e].record = reqs[e].record
<1>0. CaptureInv /\ None \notin Trees /\ None # "accept" /\ None # "completed"
  BY NoneAssumption, NoneAnswers DEF IInv
<1>1. e \in DOMAIN reqs' /\ Later(reqs[e], reqs'[e]) /\ reqs[e].candidate # None
  BY <1>0 DEF Settling, CaptureInv, Resulted
<1>2. PICK s \in DOMAIN reqs : s < e /\ Approves(s, spec)
  BY DEF Resulted
<1>3. s \in DOMAIN reqs' /\ Approves(s, spec)'
  BY <1>0, <1>2 DEF Settling, Later, Approves
<1> QED BY <1>0, <1>1, <1>2, <1>3 DEF Resulted, Named, Later

\* The result an acceptance starts from is agreed, and of the worktree's content.
LEMMA AcceptanceStarts ==
    ASSUME IInv, AcceptStart
    PROVE  \E e \in DOMAIN reqs : Resulted(e) /\ reqs[e].record = tree
<1>0. TypeOK /\ EngineeringAgreed /\ DOMAIN reqs = 1..Len(reqs) /\ Len(reqs) \in Nat
  BY Numbered DEF IInv
<1>1. PICK e \in latest(Engineering) : /\ reqs[e].handoff = handoff.spec
                                       /\ reqs[e].answer = "completed" /\ tree = reqs[e].record
  BY DEF AcceptStart, engineering_ready
<1>2. e \in Named(Engineering) /\ e \in DOMAIN reqs /\ reqs[e].handoff = spec
  BY <1>1 DEF AcceptStart, latest, Named, engineering_ready, handoff_record
<1>3. reqs[e].spec = spec /\ \E s \in 1..(e - 1) : Approves(s, spec)
  BY <1>0, <1>2 DEF EngineeringAgreed
<1>4. PICK s \in 1..(e - 1) : Approves(s, spec)
  BY <1>3
<1>5. s \in DOMAIN reqs /\ s < e
  BY <1>0, <1>2, <1>4
<1>6. reqs[e].record \in Trees
  BY <1>0, <1>1 DEF TypeOK
<1> QED BY <1>1, <1>2, <1>4, <1>5, <1>6 DEF Resulted

\* Only a verification adds attempts, and it is named by the worktree of then.
LEMMA AttemptsBelow ==
    ASSUME Restore = FALSE, IInv, [Next]_vars, \A k \in DOMAIN checks : checks[k].tree <= tree
    PROVE  \A k \in DOMAIN checks' : checks'[k].tree <= tree'
<1>0. /\ tree <= tree' /\ Deciding /\ tree \in Nat /\ tree' \in Nat
      /\ \A k \in DOMAIN checks : checks[k].tree \in Nat
      /\ DOMAIN checks = 1..Len(checks) /\ Len(checks) \in Nat
  <2>1. TypeOK /\ tree' \in Trees
    BY StepType DEF IInv, TypeOK
  <2>2. tree' \in Nat
    BY <2>1, BoundsAssumption DEF Trees
  <2> QED BY <2>1, <2>2, TreeGrows, StepDecides, TreesNumbered, Numbered
<1>1. ASSUME DOMAIN checks' = DOMAIN checks PROVE \A k \in DOMAIN checks' : checks'[k].tree <= tree'
  BY <1>0, <1>1 DEF Deciding
<1>2. CASE VerifyBegin
  <2>1. /\ DOMAIN checks' = 1..Len(checks) + 1 /\ Len(checks') = Len(checks) + 1
        /\ \A k \in DOMAIN checks : checks'[k] = checks[k]
        /\ checks'[Len(checks')].tree = tree
    BY <1>2, AttemptStarts
  <2>2. \A k \in DOMAIN checks' : k \in DOMAIN checks \/ k = Len(checks) + 1
    BY <1>0, <2>1
  <2> QED BY <1>0, <2>1, <2>2
<1>3. CASE (\E ok \in BOOLEAN : VerifyGate(ok)) \/ VerifySave
  BY <1>1, <1>3, AttemptGoesOn
<1>4. CASE UNCHANGED checks
  BY <1>1, <1>4
<1>5. ASSUME NEW i \in DOMAIN reqs,
             \/ SyncUnobserved(i) \/ SyncObserve(i) \/ Accept(i)
             \/ \E a \in Answers(reqs[i].purpose) : Answer(i, a)
      PROVE UNCHANGED checks
  BY <1>5 DEF SyncUnobserved, SyncObserve, Accept, Answer
<1> QED
  BY <1>2, <1>3, <1>4, <1>5 DEF Next, vars, SpecPut, SpecSave, Handoff, HandoffSave, SendReview, Send,
     AcceptStart, Refused, CaptureCandidate, CaptureRecord, VerifyStart, VerifySnapshot, Crash, Edit,
     Blink

\* Between the looks of an acceptance nothing but its worktree moves.
LEMMA AcceptanceWaits ==
    ASSUME IInv, [Next]_vars, win'.op = "accept"
    PROVE  \/ AcceptStart
           \/ win.op = "accept" /\ UNCHANGED <<spec, checks>>
<1>1. Idle.op = "idle"
  BY DEF Idle
<1>2. ASSUME NEW i \in DOMAIN reqs, SyncObserve(i) PROVE FALSE
  <2>1. win' = Idle \/ win' = [op |-> "candidate", req |-> i]
    BY <1>2 DEF SyncObserve
  <2> QED BY <1>1, <2>1
<1>3. CASE VerifySnapshot
  <2>1. \/ win' = [op |-> "gate", done |-> win.done, ok |-> TRUE]
        \/ win'.op = "checkpoint"
    BY <1>3 DEF VerifySnapshot
  <2> QED BY <2>1
<1>4. ASSUME NEW i \in DOMAIN reqs,
             \/ SyncUnobserved(i) \/ Accept(i)
             \/ \E a \in Answers(reqs[i].purpose) : Answer(i, a)
      PROVE win.op = "accept" /\ UNCHANGED <<spec, checks>>
  BY <1>1, <1>4 DEF SyncUnobserved, Accept, Answer, roomVars
<1>5. CASE \/ \E r \in Revs : SpecPut(r)
           \/ SpecSave \/ Handoff \/ HandoffSave \/ SendReview \/ CaptureCandidate \/ CaptureRecord
           \/ VerifyStart \/ VerifyBegin \/ VerifySave \/ Refused \/ Crash
           \/ (\E purpose \in Purposes : Send(purpose)) \/ (\E ok \in BOOLEAN : VerifyGate(ok))
  BY <1>1, <1>5 DEF SpecPut, SpecSave, Handoff, HandoffSave, SendReview, Send, CaptureCandidate,
     CaptureRecord, VerifyStart, VerifyBegin, VerifyGate, VerifySave, Refused, Crash
<1>6. CASE (\E t \in Trees : Edit(t)) \/ (\E o \in Roles : Blink(o)) \/ UNCHANGED vars
  BY <1>6 DEF Edit, Blink, roomVars, vars
<1> QED BY <1>2, <1>3, <1>4, <1>5, <1>6 DEF Next

LEMMA StepChain ==
    ASSUME Restore = FALSE, IInv, ChainInv, [Next]_vars
    PROVE  ChainInv'
<1>0. /\ TypeOK /\ Settling /\ Deciding /\ AcceptedInv /\ AcceptanceChain /\ CheckpointIsLast
      /\ CaptureInv /\ DOMAIN reqs = 1..Len(reqs) /\ Len(reqs) \in Nat
      /\ None \notin Trees /\ None # "accept" /\ None # "approved" /\ None # "completed"
      /\ tree <= tree' /\ tree \in Nat /\ tree' \in Nat
      /\ \A k \in DOMAIN checks : checks[k].tree \in Nat
  <2>1. tree' \in Trees /\ TypeOK
    BY StepType DEF IInv, TypeOK
  <2>2. tree' \in Nat
    BY <2>1, BoundsAssumption DEF Trees
  <2> QED
    BY <2>1, <2>2, StepSettles, StepDecides, Numbered, NoneAssumption, NoneAnswers, TreeGrows,
       TreesNumbered DEF IInv, ChainInv
<1>a. \A k \in DOMAIN checks' : checks'[k].tree <= tree'
  BY AttemptsBelow DEF ChainInv
<1>b. ASSUME win'.op = "accept"
      PROVE  \E e \in DOMAIN reqs' :
                /\ Resulted(e)' /\ reqs'[e].record <= tree'
                /\ \A k \in DOMAIN checks' : checks'[k].tree <= reqs'[e].record
  <2>1. CASE AcceptStart
    <3>1. PICK e \in DOMAIN reqs : Resulted(e) /\ reqs[e].record = tree
      BY <2>1, AcceptanceStarts
    <3>2. UNCHANGED <<spec, reqs, checks, tree>>
      BY <2>1 DEF AcceptStart, roomVars, worldVars
    <3>3. e \in DOMAIN reqs' /\ Resulted(e)' /\ reqs'[e].record = reqs[e].record
      BY <1>0, <3>1, <3>2, ResultedKept
    <3> QED BY <1>0, <1>a, <3>1, <3>2, <3>3
  <2>2. CASE win.op = "accept" /\ UNCHANGED <<spec, checks>>
    <3>1. PICK e \in DOMAIN reqs :
             /\ Resulted(e) /\ reqs[e].record <= tree
             /\ \A k \in DOMAIN checks : checks[k].tree <= reqs[e].record
      BY <2>2 DEF ChainInv
    <3>2. e \in DOMAIN reqs' /\ Resulted(e)' /\ reqs'[e].record = reqs[e].record
      BY <1>0, <2>2, <3>1, ResultedKept
    <3>3. reqs[e].record \in Nat
      BY <3>1, BoundsAssumption DEF Resulted, Trees
    <3> QED BY <1>0, <2>2, <3>1, <3>2, <3>3
  <2> QED BY <1>b, <2>1, <2>2, AcceptanceWaits
<1> DEFINE Rests(a) ==
              LET c == checks[a.identities.evidence]  v == reqs[a.req] IN
              /\ a.identities.evidence \in DOMAIN checks /\ a.req \in DOMAIN reqs
              /\ c.state = "passed" /\ c.spec = a.identities.spec /\ c.tree = a.identities.tree
              /\ v.purpose = "acceptance_review" /\ v.answer = "approved"
              /\ v.review = a.identities
              /\ \E e \in Named(Engineering), s \in DOMAIN reqs :
                    /\ s < e /\ Approves(s, a.identities.spec)
                    /\ reqs[e].handoff = a.identities.spec
                    /\ reqs[e].record = a.identities.tree /\ reqs[e].answer = "completed"
<1>1. \A a \in accepted : Rests(a)
  BY <1>0 DEF AcceptedInv, AcceptanceChain
<1>2. (\A a \in accepted' : Rests(a)') => AcceptanceChain'
  BY DEF AcceptanceChain
\* What an acceptance rests on is settled.
<1>3. ASSUME NEW a \in [identities : Identities, req : 1..MaxReq], Rests(a) PROVE Rests(a)'
  <2>1. /\ a.identities.evidence \in DOMAIN checks'
        /\ checks'[a.identities.evidence] = checks[a.identities.evidence]
    BY <1>0, <1>3 DEF Deciding
  <2>2. a.req \in DOMAIN reqs' /\ Later(reqs[a.req], reqs'[a.req]) /\ reqs[a.req].answer # None
    BY <1>0, <1>3 DEF Settling
  <2>3. /\ reqs'[a.req].purpose = reqs[a.req].purpose /\ reqs'[a.req].answer = reqs[a.req].answer
        /\ reqs'[a.req].review = reqs[a.req].review
    BY <2>2 DEF Later
  <2>4. PICK e \in Named(Engineering), s \in DOMAIN reqs :
           /\ s < e /\ Approves(s, a.identities.spec)
           /\ reqs[e].handoff = a.identities.spec
           /\ reqs[e].record = a.identities.tree /\ reqs[e].answer = "completed"
    BY <1>3
  <2>5. a.identities.tree # None
    BY <1>0 DEF Identities
  <2>6. /\ e \in DOMAIN reqs /\ Later(reqs[e], reqs'[e]) /\ e \in DOMAIN reqs'
        /\ reqs[e].candidate # None
    BY <1>0, <2>4, <2>5 DEF Settling, Named, CaptureInv
  <2>7. /\ e \in Named(Engineering)' /\ reqs'[e].handoff = a.identities.spec
        /\ reqs'[e].record = a.identities.tree /\ reqs'[e].answer = "completed"
    BY <1>0, <2>4, <2>6 DEF Named, Later
  <2>8. s \in DOMAIN reqs' /\ Approves(s, a.identities.spec)'
    BY <1>0, <2>4 DEF Approves, Settling, Later
  <2> QED BY <1>3, <2>1, <2>2, <2>3, <2>4, <2>7, <2>8
<1>4. \A a \in accepted : a \in [identities : Identities, req : 1..MaxReq]
  BY <1>0 DEF TypeOK
\* A new acceptance: its second look finds the content of its first.
<1>5. ASSUME NEW i \in DOMAIN reqs, Accept(i) PROVE Rests([identities |-> expected, req |-> i])
  <2>1. /\ win.op = "accept" /\ checkpointed /\ i \in DOMAIN reqs
        /\ reqs[i].purpose = "acceptance_review" /\ reqs[i].review = expected
        /\ reqs[i].answer = "approved"
    BY <1>5 DEF Accept, Named
  <2>2. checkpoint \in DOMAIN checks /\ checks[checkpoint].state = "passed"
        /\ checks[checkpoint].spec = spec /\ checks[checkpoint].tree = tree
    BY <1>0, <2>1, Numbered DEF checkpointed, CheckpointIsLast
  <2>3. expected.spec = spec /\ expected.tree = tree /\ expected.evidence = checkpoint
    BY <2>2 DEF expected
  <2>4. PICK e \in DOMAIN reqs : /\ Resulted(e) /\ reqs[e].record <= tree
                                 /\ \A k \in DOMAIN checks : checks[k].tree <= reqs[e].record
    BY <2>1 DEF ChainInv
  <2>5. reqs[e].record \in Nat
    BY <2>4, BoundsAssumption DEF Resulted, Trees
  <2>6. reqs[e].record = tree
    BY <1>0, <2>2, <2>4, <2>5
  <2>7. /\ e \in Named(Engineering) /\ reqs[e].handoff = spec /\ reqs[e].answer = "completed"
        /\ \E s \in DOMAIN reqs : s < e /\ Approves(s, spec)
    BY <2>4 DEF Resulted
  <2> HIDE DEF Rests
  <2>9. Rests([identities |-> expected, req |-> i])
    BY <2>1, <2>2, <2>3, <2>6, <2>7 DEF Rests
  <2> QED BY <2>9
<1>6. ASSUME NEW i \in DOMAIN reqs, Accept(i) PROVE AcceptanceChain'
  <2>1. accepted' = accepted \cup {[identities |-> expected, req |-> i]}
        /\ accepted' \subseteq [identities : Identities, req : 1..MaxReq]
    BY <1>6, StepType DEF Accept, TypeOK
  <2> HIDE DEF Rests
  <2> QED BY <1>1, <1>2, <1>3, <1>5, <1>6, <2>1
<1>7. CASE UNCHANGED accepted
  <2>1. AcceptanceChain'
    <3> HIDE DEF Rests
    <3> QED BY <1>1, <1>2, <1>3, <1>4, <1>7
  <2> QED BY <1>a, <1>b, <2>1 DEF ChainInv
<1>8. ASSUME NEW i \in DOMAIN reqs, Accept(i) PROVE ChainInv'
  BY <1>a, <1>b, <1>6, <1>8 DEF ChainInv
<1>9. ASSUME NEW i \in DOMAIN reqs,
             \/ SyncUnobserved(i) \/ SyncObserve(i)
             \/ \E a \in Answers(reqs[i].purpose) : Answer(i, a)
      PROVE UNCHANGED accepted
  BY <1>9 DEF SyncUnobserved, SyncObserve, Answer
<1> QED
  BY <1>7, <1>8, <1>9 DEF Next, vars, SpecPut, SpecSave, Handoff, HandoffSave, SendReview, Send,
     AcceptStart, Refused, CaptureCandidate, CaptureRecord, VerifyStart, VerifyBegin, VerifyGate,
     VerifySnapshot, VerifySave, Crash, Edit, Blink

-----------------------------------------------------------------------------
(***************************************************************************)
(* The invariant in every reachable state, and what follows from it.       *)
(***************************************************************************)
THEOREM LifecycleInvariant == Spec => []IInv
<1>1. Init => IInv
  <2> SUFFICES ASSUME Init PROVE IInv
    OBVIOUS
  <2>1. Len(reqs) = 0 /\ Len(checks) = 0 /\ DOMAIN reqs = {} /\ DOMAIN checks = {}
    BY EmptySeq DEF Init
  <2>2. MaxReq \in Nat /\ MaxCheck \in Nat /\ MaxRev \in Nat /\ MaxTree \in Nat
    BY BoundsAssumption
  <2>3. TypeOK
    BY <2>1, <2>2, EmptySeq DEF Init, TypeOK, Windows, Idle, Trees
  <2>4. WindowInv /\ CaptureInv /\ CheckpointIsLast /\ EngineeringAgreed
    BY <2>1 DEF Init, WindowInv, CaptureInv, CheckpointIsLast, EngineeringAgreed, Idle, Verifying, Named
  <2>5. AcceptedInv
    BY DEF Init, AcceptedInv
  <2> QED BY <2>3, <2>4, <2>5 DEF IInv
<1>2. IInv /\ [Next]_vars => IInv'
  BY StepType, StepWindow, StepCapture, StepCheckpoint, StepAgreed, StepAccepted DEF IInv
<1> QED BY <1>1, <1>2, PTL DEF Spec

\* The types of the state variables (TypeOK) in every reachable state.
THEOREM TypeCorrect == Spec => []TypeOK
  BY LifecycleInvariant, PTL DEF IInv

(***************************************************************************)
(* Every acceptance rests on an agreed specification, an engineering       *)
(* result captured under it, a passed verification of that very candidate  *)
(* and an approval that names them all, whatever edits, crashes and        *)
(* unattributable histories came in between (ao_room_accept) - as long as  *)
(* no edit brings an earlier content back between its looks at the         *)
(* candidate.                                                              *)
(***************************************************************************)
THEOREM AcceptancesChained ==
    ASSUME Restore = FALSE
    PROVE  Spec => []AcceptanceChain
<1>1. Init => ChainInv
  BY EmptySeq DEF Init, ChainInv, AcceptanceChain, Idle
<1>2. IInv /\ ChainInv /\ [Next]_vars => ChainInv'
  BY StepChain, Zenon
<1>3. ChainInv => AcceptanceChain
  BY DEF ChainInv
<1> QED BY <1>1, <1>2, <1>3, LifecycleInvariant, PTL DEF Spec

\* The checkpoint is the outcome of the last attempt on the current
\* specification (ao_room_verify, ao_room_spec_put).
THEOREM CheckpointsLast == Spec => []CheckpointIsLast
  BY LifecycleInvariant, PTL DEF IInv

\* Engineering is dispatched under the last agreement there is, and one
\* implementation turn opens each handoff (ao_room_send).
THEOREM EngineeringOnAgreement == Spec => []EngineeringAgreed
  BY LifecycleInvariant, PTL DEF IInv

\* What was captured for a result is captured once (ao_room_sync).
THEOREM CapturedOnce == Spec => CaptureOnce
<1>1. IInv /\ [Next]_vars =>
         [\A i \in DOMAIN reqs :
             /\ reqs[i].candidate # None =>
                   /\ reqs'[i].candidate = reqs[i].candidate
                   /\ reqs'[i].record = reqs[i].record
                   /\ reqs'[i].error = reqs[i].error
             /\ reqs'[i].record # None => reqs'[i].record = reqs'[i].candidate]_vars
  <2> SUFFICES ASSUME IInv, [Next]_vars
               PROVE  \A i \in DOMAIN reqs :
                         /\ reqs[i].candidate # None =>
                               /\ reqs'[i].candidate = reqs[i].candidate
                               /\ reqs'[i].record = reqs[i].record
                               /\ reqs'[i].error = reqs[i].error
                         /\ reqs'[i].record # None => reqs'[i].record = reqs'[i].candidate
    OBVIOUS
  <2>1. Settling /\ CaptureInv'
    BY StepSettles, StepCapture
  <2> QED BY <2>1 DEF Settling, Later, CaptureInv
<1> QED BY <1>1, LifecycleInvariant, PTL DEF Spec, CaptureOnce

(***************************************************************************)
(* A verification a crash left running stops the room for good: nothing is *)
(* sent, verified, accepted or respecified beside its processes.           *)
(***************************************************************************)
THEOREM UnfinishedHolds == Spec => UnfinishedVerificationHolds
<1>1. IInv /\ [Next]_vars =>
         [(win = Idle /\ \E k \in DOMAIN checks : checks[k].state = "running") =>
             /\ UNCHANGED <<spec, handoff, checks, checkpoint, accepted>>
             /\ Len(reqs') = Len(reqs)]_vars
  <2> SUFFICES ASSUME IInv, [Next]_vars, win = Idle, NEW k \in DOMAIN checks,
                      checks[k].state = "running"
               PROVE  /\ UNCHANGED <<spec, handoff, checks, checkpoint, accepted>>
                      /\ Len(reqs') = Len(reqs)
    OBVIOUS
  <2>1. ~quiet /\ win.op = "idle"
    BY DEF quiet, Idle
  <2>2. \A purpose \in Purposes : ~Send(purpose)
    BY <2>1 DEF Send
  <2>3. Len(reqs') = Len(reqs)
    BY <2>2, RequestSteps, RequestTouched
  <2>4. UNCHANGED <<spec, handoff, checks, checkpoint, accepted>>
    <3>1. ASSUME NEW i \in DOMAIN reqs,
                 \/ SyncUnobserved(i) \/ SyncObserve(i) \/ Accept(i)
                 \/ \E a \in Answers(reqs[i].purpose) : Answer(i, a)
          PROVE  UNCHANGED <<spec, handoff, checks, checkpoint, accepted>>
      BY <2>1, <3>1 DEF SyncUnobserved, SyncObserve, Accept, Answer, roomVars
    <3>2. \A r \in Revs : ~SpecPut(r)
      BY <2>1 DEF SpecPut
    <3>3. ~(\/ SpecSave \/ Handoff \/ HandoffSave \/ SendReview \/ CaptureCandidate
            \/ CaptureRecord \/ VerifyStart \/ VerifyBegin \/ (\E ok \in BOOLEAN : VerifyGate(ok))
            \/ VerifySnapshot \/ VerifySave \/ AcceptStart \/ Refused \/ Crash)
      BY <2>1 DEF SpecSave, Handoff, HandoffSave, SendReview, CaptureCandidate, CaptureRecord,
         VerifyStart, VerifyBegin, VerifyGate, VerifySnapshot, VerifySave, AcceptStart, Refused, Crash
    <3>4. (\E t \in Trees : Edit(t)) \/ (\E o \in Roles : Blink(o)) \/ UNCHANGED vars
          => UNCHANGED <<spec, handoff, checks, checkpoint, accepted>>
      BY DEF Edit, Blink, roomVars, vars
    <3> QED BY <2>2, <3>1, <3>2, <3>3, <3>4 DEF Next
  <2> QED BY <2>3, <2>4
<1> QED BY <1>1, LifecycleInvariant, PTL DEF Spec, UnfinishedVerificationHolds

(***************************************************************************)
(* The gates of a passed attempt ran on the candidate it names, as long as *)
(* no edit brings an earlier content of the worktree back: the snapshots   *)
(* around a gate cannot see that one (ao_room_verify).  The tree numbers   *)
(* then only grow, and a gate that ran on another one leaves the worktree  *)
(* past the attempt's.                                                     *)
(***************************************************************************)
THEOREM GatesRan ==
    ASSUME Restore = FALSE
    PROVE  Spec => []GatesRanOnCandidate
<1>1. Init => RanInv
  BY EmptySeq DEF Init, RanInv, Verifying, Idle, GatesRanOnCandidate
<1>2. IInv /\ IInv' /\ RanInv /\ [Next]_vars => RanInv'
  <2> SUFFICES ASSUME IInv, IInv', RanInv, [Next]_vars PROVE RanInv'
    OBVIOUS
  <2> DEFINE n == Len(checks)
  <2>0. /\ TypeOK /\ tree \in Nat /\ tree' \in Nat /\ WindowInv
        /\ \A k \in DOMAIN checks : checks[k] \in Check /\ checks[k].tree \in Nat
        /\ DOMAIN checks = 1..n
    <3>1. TypeOK /\ TypeOK' /\ WindowInv
      BY DEF IInv
    <3>2. \A t \in Trees : t \in Nat
      BY BoundsAssumption DEF Trees
    <3>3. tree \in Trees /\ tree' \in Trees /\ checks \in Seq(Check)
      BY <3>1 DEF TypeOK
    <3>4. DOMAIN checks = 1..n /\ \A k \in DOMAIN checks : checks[k] \in Check
      BY <3>3, Numbered
    <3>5. \A k \in DOMAIN checks : checks[k].tree \in Trees
      BY <3>4 DEF Check
    <3> QED BY <3>1, <3>2, <3>3, <3>4, <3>5
  <2>1. Verifying => n \in DOMAIN checks
    BY <2>0, Numbered DEF WindowInv
  <2>2. ASSUME UNCHANGED checks, tree' >= tree, ~Verifying' \/ UNCHANGED win PROVE RanInv'
    BY <2>0, <2>1, <2>2 DEF RanInv, Verifying, GatesRanOnCandidate
  <2>3. CASE VerifyBegin
    <3>1. win'.op = "gate" /\ UNCHANGED tree
      BY <2>3 DEF VerifyBegin, worldVars
    <3>2. checks'[Len(checks')] = [spec |-> spec, tree |-> tree, state |-> "running", ran |-> TRUE]
      BY <2>3, AttemptStarts
    <3>3. GatesRanOnCandidate'
      <4>1. /\ DOMAIN checks' = 1..n + 1 /\ Len(checks') = n + 1
            /\ \A k \in DOMAIN checks : checks'[k] = checks[k]
        BY <2>3, AttemptStarts
      <4>2. \A k \in DOMAIN checks' : k \in DOMAIN checks \/ k = n + 1
        BY <2>0, <4>1, Numbered
      <4> QED BY <3>2, <4>1, <4>2 DEF RanInv, GatesRanOnCandidate
    <3> QED BY <2>0, <3>1, <3>2, <3>3 DEF RanInv, Verifying
  <2>4. ASSUME NEW ok \in BOOLEAN, VerifyGate(ok) PROVE RanInv'
    <3>1. win.op = "gate" /\ win'.op = "snapshot" /\ UNCHANGED tree
      BY <2>4 DEF VerifyGate, worldVars
    <3>2. /\ Len(checks') = n /\ checks[n] \in Check /\ DOMAIN checks' = DOMAIN checks
          /\ checks'[n] = [checks[n] EXCEPT !.ran = @ /\ tree = checks[n].tree]
          /\ \A k \in DOMAIN checks : k # n => checks'[k] = checks[k]
          /\ checks[n].state = "running" /\ n \in DOMAIN checks
      BY <2>4, AttemptGoesOn
    <3>3. /\ checks'[n].tree = checks[n].tree /\ checks'[n].state = "running"
          /\ checks'[n].ran <=> checks[n].ran /\ tree = checks[n].tree
      BY <3>2 DEF Check
    <3>4. GatesRanOnCandidate'
      BY <3>2, <3>3 DEF RanInv, GatesRanOnCandidate
    <3>5. checks[n].tree <= tree /\ (~checks[n].ran => checks[n].tree < tree)
      BY <3>1 DEF RanInv, Verifying
    <3> QED BY <2>0, <3>1, <3>2, <3>3, <3>4, <3>5 DEF RanInv, Verifying
  <2>5. CASE VerifySnapshot
    <3>1. win.op = "snapshot" /\ UNCHANGED <<tree, checks>>
      BY <2>5 DEF VerifySnapshot, worldVars
    <3>2. checks[n].tree <= tree /\ (~checks[n].ran => checks[n].tree < tree)
      BY <3>1 DEF RanInv, Verifying
    <3>3. win'.op = "checkpoint" /\ win'.ok => checks[n].ran
      <4> SUFFICES ASSUME win'.op = "checkpoint", win'.ok PROVE checks[n].ran
        OBVIOUS
      <4>1. tree = checks[n].tree
        BY <2>5 DEF VerifySnapshot
      <4> QED BY <2>0, <2>1, <3>1, <3>2, <4>1 DEF Verifying
    <3> QED BY <3>1, <3>2, <3>3 DEF RanInv, GatesRanOnCandidate
  <2>6. CASE VerifySave
    <3>1. win' = Idle /\ win.op = "checkpoint"
      BY <2>6 DEF VerifySave
    <3>2. /\ checks[n] \in Check /\ DOMAIN checks' = DOMAIN checks
          /\ checks'[n] = [checks[n] EXCEPT !.state = IF win.ok THEN "passed" ELSE "failed"]
          /\ \A k \in DOMAIN checks : k # n => checks'[k] = checks[k]
      BY <2>6, AttemptGoesOn
    <3>3. checks'[n].ran = checks[n].ran /\ (checks'[n].state = "passed" => win.ok)
      BY <3>2 DEF Check
    <3>4. GatesRanOnCandidate'
      BY <3>1, <3>2, <3>3 DEF RanInv, GatesRanOnCandidate
    <3> QED BY <3>1, <3>4 DEF RanInv, Verifying, Idle
  <2>7. ASSUME NEW t \in Trees, Edit(t) PROVE RanInv'
    BY <2>0, <2>2, <2>7 DEF Edit
  <2>8. ASSUME NEW r \in Revs, SpecPut(r) PROVE RanInv'
    BY <2>0, <2>2, <2>8 DEF SpecPut, worldVars, Verifying
  <2>9. CASE \/ SpecSave \/ Handoff \/ HandoffSave \/ SendReview \/ CaptureCandidate \/ CaptureRecord
             \/ VerifyStart \/ AcceptStart \/ Refused \/ Crash
    <3>1. UNCHANGED <<checks, tree>>
      BY <2>9 DEF SpecSave, Handoff, HandoffSave, SendReview, CaptureCandidate, CaptureRecord,
         VerifyStart, AcceptStart, Refused, Crash, worldVars
    <3>2. ~Verifying'
      BY <2>9 DEF SpecSave, Handoff, HandoffSave, SendReview, CaptureCandidate, CaptureRecord,
         VerifyStart, AcceptStart, Refused, Crash, Verifying, Idle
    <3> QED BY <2>0, <2>2, <3>1, <3>2
  <2>10. ASSUME NEW purpose \in Purposes, Send(purpose) PROVE RanInv'
    BY <2>0, <2>2, <2>10 DEF Send, worldVars, Verifying, Idle
  <2>11. ASSUME NEW i \in DOMAIN reqs,
                \/ SyncUnobserved(i) \/ SyncObserve(i) \/ Accept(i)
                \/ \E a \in Answers(reqs[i].purpose) : Answer(i, a)
         PROVE  RanInv'
    BY <2>0, <2>2, <2>11 DEF SyncUnobserved, SyncObserve, Accept, Answer, worldVars, Verifying, Idle
  <2>12. CASE (\E o \in Roles : Blink(o)) \/ UNCHANGED vars
    BY <2>0, <2>2, <2>12 DEF Blink, vars
  <2> QED
    BY <2>3, <2>4, <2>5, <2>6, <2>7, <2>8, <2>9, <2>10, <2>11, <2>12 DEF Next
<1>3. RanInv => GatesRanOnCandidate
  BY DEF RanInv
<1> QED BY <1>1, <1>2, <1>3, LifecycleInvariant, PTL DEF Spec

-----------------------------------------------------------------------------
(***************************************************************************)
(* The legacy jobs.  Rows of the registry, the handoff, and what an        *)
(* executor printed.                                                       *)
(***************************************************************************)
Verdicts == {"passed", "failed", "interrupted"}

JobRow == [kind : {"implementation", "verification"}, link : Nat, cancel : BOOLEAN,
           status : {"queued", "running", "failed", "uncertain", "cancelled", "succeeded"}]
RecoveryRow == [pred : Nat, succ : Nat, candidate : Contents, launches : Nat,
                status : {"unregistered", "prepared", "dispatched", "consumed", "invalidated"}]
VerificationRow == [pred : Nat, succ : Nat, candidate : Contents, outcome : Verdicts \cup {None},
                    file : BOOLEAN, reconciled : BOOLEAN,
                    status : {"unregistered", "dispatched", "consumed", "invalidated", "interrupted"}]
HandoffState == [phase : {"prepared", "correction_pending", "recovery_prepared", "running_model",
                          "running_gates", "blocked", "scope_change", "awaiting_astra_review",
                          "verifying", "accepted", "changes_required"},
                 attempt : Int, candidate : Contents, passed : BOOLEAN,
                 diag : {"model", "gate", None}, recovery : Nat, launched : BOOLEAN,
                 verification : Nat]
Endings == {"awaiting", "scope", "verified", "refused", "uncertain", "blocked", "interrupted",
                  "unsettled"}
Printed == [kind : Endings \cup {None}, attempt : Int, launched : BOOLEAN]

JobTypes ==
    /\ job \in Seq(JobRow) /\ Len(job) <= MaxJobs
    /\ recs \in Seq(RecoveryRow) /\ vers \in Seq(VerificationRow)
    /\ hand \in HandoffState
    /\ agreed \in BOOLEAN /\ worktree \in Contents /\ passed \subseteq Contents
    /\ sup \in [Legacy!Jobs -> {"none", "spawned", "running", "gone"}]
    /\ ex \in [Legacy!Jobs -> {"none", "start", "launch", "child", "gates", "verify", "publish",
                               "exit", "dead"}]
    /\ live \in [Legacy!Jobs -> BOOLEAN]
    /\ result \in [Legacy!Jobs -> Printed]

Recovers(j) == job[j].kind = "implementation" /\ job[j].link # 0

\* How far the executor of a job is, and what the handoff says of it.
StageOK(j) ==
    /\ ex[j] # "none" \/ sup[j] # "none" => j \in DOMAIN job
    /\ ex[j] \notin {"exit", "dead"} => result[j] = Legacy!NoResult
    /\ sup[j] = "spawned" => ex[j] = "none"
    /\ ex[j] \in {"launch", "child"} => hand.phase = "running_model" /\ job[j].kind = "implementation"
    /\ ex[j] = "gates" => hand.phase = "running_gates" /\ job[j].kind = "implementation"
    /\ ex[j] \in {"verify", "publish"} =>
          hand.phase = "verifying" /\ job[j].kind = "verification" /\ hand.verification = job[j].link
    /\ j \in DOMAIN job /\ job[j].kind = "verification" => job[j].link \in DOMAIN vers

\* The one job of a recovery, and the launches its row counts.
RecoveryOK(j) ==
    j \in DOMAIN job /\ Recovers(j) =>
       LET i == job[j].link
       IN /\ i \in DOMAIN recs /\ recs[i].succ = j
          /\ recs[i].status \in {"dispatched", "consumed", "invalidated"}
          /\ sup[j] \in {"spawned", "running"} \/ ex[j] = "launch" => recs[i].status = "dispatched"
          /\ ex[j] \in {"none", "start", "launch"} => recs[i].launches = 0
          /\ ex[j] = "launch" => ~hand.launched /\ hand.recovery = i
          /\ ex[j] \in {"child", "gates"} => recs[i].launches = 1 /\ recs[i].status = "dispatched"
          /\ sup[j] \in {"spawned", "running"} /\ ex[j] \in {"none", "start"} =>
                hand.phase = "recovery_prepared" /\ hand.recovery = i
          /\ result[j].kind = "refused" => recs[i].launches = 0
          /\ sup[j] = "running" /\ result[j].launched => recs[i].launches = 1

OneLocked == \A j, k \in Legacy!Jobs : ex[j] \in Legacy!Locked /\ ex[k] \in Legacy!Locked => j = k

\* What the handoff names.
HandoffOK ==
    /\ hand.phase = "recovery_prepared" => ~hand.launched /\ hand.recovery \in DOMAIN recs
    /\ hand.verification # 0 =>
          /\ hand.phase \in {"blocked", "verifying"}
          /\ hand.verification \in DOMAIN vers
          /\ vers[hand.verification].candidate = hand.candidate
          /\ hand.diag = "gate"
    /\ hand.phase \in {"awaiting_astra_review", "accepted"} /\ hand.passed => hand.candidate \in passed
    /\ hand.phase = "accepted" => hand.passed

GatesOK == \A i \in DOMAIN vers : vers[i].outcome = "passed" => vers[i].candidate \in passed

JobsInv ==
    /\ JobTypes /\ OneLocked /\ HandoffOK /\ GatesOK /\ Legacy!LaunchTruthful
    /\ \A j \in Legacy!Jobs : StageOK(j) /\ RecoveryOK(j)

\* At the start there are no jobs and no rows.
LEMMA JobsInit == ASSUME Legacy!Init PROVE JobsInv
<1> USE DEF Legacy!Init
<1>1. JobTypes
  BY JobBounds DEF JobTypes, HandoffState, Printed, Endings, Legacy!NoResult, Legacy!Jobs
<1>2. OneLocked /\ HandoffOK /\ GatesOK /\ Legacy!LaunchTruthful
  BY DEF OneLocked, HandoffOK, GatesOK, Legacy!LaunchTruthful, Legacy!Locked, Legacy!Jobs
<1>3. \A j \in Legacy!Jobs : StageOK(j) /\ RecoveryOK(j)
  BY DEF StageOK, RecoveryOK, Legacy!Jobs
<1> QED BY <1>1, <1>2, <1>3 DEF JobsInv

\* A job whose own processes and recovery a step leaves alone.
LEMMA Kept ==
    ASSUME JobsInv, NEW k \in Legacy!Jobs,
           sup'[k] = sup[k], ex'[k] = ex[k], result'[k] = result[k],
           k \in DOMAIN job' <=> k \in DOMAIN job,
           k \in DOMAIN job => /\ job'[k].kind = job[k].kind /\ job'[k].link = job[k].link
                               /\ Recovers(k) => /\ job[k].link \in DOMAIN recs'
                                                 /\ recs'[job[k].link] = recs[job[k].link],
           DOMAIN vers \subseteq DOMAIN vers',
           \/ hand' = hand
           \/ /\ ex[k] \notin Legacy!Locked
              /\ \/ hand.phase # "recovery_prepared"
                 \/ ~(k \in DOMAIN job /\ Recovers(k) /\ hand.recovery = job[k].link)
                 \/ recs[job[k].link].status # "dispatched"
    PROVE  StageOK(k)' /\ RecoveryOK(k)'
<1>1. StageOK(k) /\ RecoveryOK(k)
  BY DEF JobsInv
<1>2. StageOK(k)'
  BY <1>1 DEF StageOK, Legacy!Locked
<1>3. RecoveryOK(k)'
  BY <1>1 DEF RecoveryOK, Recovers, Legacy!Locked
<1> QED BY <1>2, <1>3

\* A submitted job is one of Jobs and has a row of the registry.
LEMMA InJobs ==
    ASSUME JobTypes, NEW j \in DOMAIN job
    PROVE  /\ j \in Legacy!Jobs /\ job[j] \in JobRow
           /\ MaxJobs \in Nat
BY JobBounds DEF JobTypes, Legacy!Jobs

\* What a launch does to its recovery.
LEMMA OneMoreLaunch ==
    ASSUME JobTypes, NEW i \in DOMAIN recs, recs' = [recs EXCEPT ![i].launches = @ + 1]
    PROVE  /\ recs' \in Seq(RecoveryRow) /\ DOMAIN recs' = DOMAIN recs
           /\ \A m \in DOMAIN recs : m # i => recs'[m] = recs[m]
           /\ recs'[i].launches = recs[i].launches + 1
           /\ recs'[i].succ = recs[i].succ /\ recs'[i].status = recs[i].status
<1>1. recs[i] \in RecoveryRow
  BY DEF JobTypes
<1>2. recs[i].launches + 1 \in Nat
  BY <1>1 DEF RecoveryRow
<1>3. [recs[i] EXCEPT !.launches = @ + 1] \in RecoveryRow
  BY <1>1, <1>2 DEF RecoveryRow
<1>4. recs' = [recs EXCEPT ![i] = [recs[i] EXCEPT !.launches = @ + 1]]
  OBVIOUS
<1>5. /\ recs' \in Seq(RecoveryRow) /\ DOMAIN recs' = DOMAIN recs
      /\ \A m \in DOMAIN recs : m # i => recs'[m] = recs[m]
      /\ recs'[i] = [recs[i] EXCEPT !.launches = @ + 1]
  BY <1>3, <1>4 DEF JobTypes
<1> QED BY <1>1, <1>5 DEF RecoveryRow

\* A step of the executor of job j.
LEMMA ExecutorStep ==
    ASSUME JobsInv, NEW j \in DOMAIN job, JobTypes', UNCHANGED <<job, sup>>,
           \A k \in Legacy!Jobs \ {j} : ex'[k] = ex[k] /\ result'[k] = result[k],
           ex'[j] \in Legacy!Locked => ex[j] \in Legacy!Locked \/ Legacy!LockFree,
           \/ recs' = recs
           \/ /\ Recovers(j) /\ ex[j] = "launch"
              /\ recs' = [recs EXCEPT ![job[j].link].launches = @ + 1],
           DOMAIN vers \subseteq DOMAIN vers',
           \/ hand' = hand
           \/ /\ \A k \in Legacy!Jobs \ {j} : ex[k] \notin Legacy!Locked
              /\ \/ hand.phase # "recovery_prepared"
                 \/ Recovers(j) /\ hand.recovery = job[j].link,
           StageOK(j)', RecoveryOK(j)', HandoffOK', GatesOK'
    PROVE  JobsInv'
<1>1. /\ JobTypes /\ OneLocked /\ Legacy!LaunchTruthful
      /\ \A k \in Legacy!Jobs : StageOK(k) /\ RecoveryOK(k)
  BY DEF JobsInv
<1>2. j \in Legacy!Jobs /\ \A k \in DOMAIN job : k \in Legacy!Jobs
  BY <1>1, InJobs
<1>3. ASSUME NEW k \in Legacy!Jobs, k # j PROVE StageOK(k)' /\ RecoveryOK(k)'
  <2>1. ASSUME k \in DOMAIN job, Recovers(k)
        PROVE  job[k].link \in DOMAIN recs' /\ recs'[job[k].link] = recs[job[k].link]
    <3>1. job[k].link \in DOMAIN recs /\ recs[job[k].link].succ = k
      BY <1>1, <1>3, <2>1 DEF RecoveryOK
    <3>2. Recovers(j) => job[j].link \in DOMAIN recs /\ recs[job[j].link].succ = j
      BY <1>1, <1>2 DEF RecoveryOK
    <3> QED BY <1>3, <3>1, <3>2
  <2>2. hand' = hand \/ /\ ex[k] \notin Legacy!Locked
                        /\ \/ hand.phase # "recovery_prepared"
                           \/ ~(k \in DOMAIN job /\ Recovers(k) /\ hand.recovery = job[k].link)
    BY <1>1, <1>2, <1>3 DEF RecoveryOK
  <2> QED BY <1>3, <2>1, <2>2, Kept
<1>4. OneLocked'
  <2>1. ASSUME NEW a \in Legacy!Jobs, NEW b \in Legacy!Jobs, ex'[a] \in Legacy!Locked, ex'[b] \in Legacy!Locked
        PROVE  a = b
    BY <1>1, <1>2, <2>1 DEF OneLocked, Legacy!LockFree
  <2> QED BY <2>1 DEF OneLocked, Legacy!Jobs, Legacy!Locked
<1>5. Legacy!LaunchTruthful'
  <2>1. CASE recs' = recs
    BY <1>1, <2>1 DEF Legacy!LaunchTruthful
  <2>2. CASE /\ Recovers(j) /\ ex[j] = "launch"
             /\ recs' = [recs EXCEPT ![job[j].link].launches = @ + 1]
    <3>1. /\ job[j].link \in DOMAIN recs /\ recs[job[j].link].launches = 0
          /\ recs[job[j].link].status = "dispatched"
      BY <1>1, <1>2, <2>2 DEF RecoveryOK
    <3>2. /\ DOMAIN recs' = DOMAIN recs /\ \A m \in DOMAIN recs : m # job[j].link => recs'[m] = recs[m]
          /\ recs'[job[j].link].launches = recs[job[j].link].launches + 1
          /\ recs'[job[j].link].status = recs[job[j].link].status
      BY <1>1, <2>2, <3>1, OneMoreLaunch
    <3>3. recs'[job[j].link].launches = 1 /\ recs'[job[j].link].status = "dispatched"
      BY <3>1, <3>2
    <3>4. ASSUME NEW m \in DOMAIN recs'
          PROVE  /\ recs'[m].launches <= 1
                 /\ recs'[m].status = "consumed" => recs'[m].launches = 1
                 /\ recs'[m].status \in {"invalidated", "unregistered", "prepared"} => recs'[m].launches = 0
      <4>1. CASE m = job[j].link
        BY <3>3, <4>1
      <4>2. CASE m # job[j].link
        BY <1>1, <3>2, <3>4, <4>2 DEF Legacy!LaunchTruthful
      <4> QED BY <4>1, <4>2
    <3> QED BY <3>4 DEF Legacy!LaunchTruthful
  <2> QED BY <2>1, <2>2
<1> QED BY <1>2, <1>3, <1>4, <1>5 DEF JobsInv

\* An executor that ends before it starts anything, for a reason that does not
\* move the handoff or settles a turn that died.
LEMMA ExitsAtStart ==
    ASSUME JobsInv, NEW j \in DOMAIN job, ex[j] = "start",
           UNCHANGED <<job, recs, vers, agreed, worktree, sup, live, passed>>,
           NEW g \in HandoffState, NEW kind \in {"uncertain", "blocked", "refused"},
           Legacy!Exit(j, kind, g),
           \/ g = hand
           \/ /\ Legacy!LockFree /\ hand.phase \in {"running_model", "running_gates"}
              /\ g = [hand EXCEPT !.phase = "blocked", !.diag = None]
    PROVE  JobsInv'
<1>1. /\ JobTypes /\ HandoffOK /\ GatesOK /\ StageOK(j) /\ RecoveryOK(j)
      /\ j \in Legacy!Jobs /\ job[j] \in JobRow
  BY InJobs DEF JobsInv
<1>2. /\ ex' = [ex EXCEPT ![j] = "exit"] /\ hand' = g
      /\ result' = [result EXCEPT ![j] = Legacy!Result(kind, g)]
  BY DEF Legacy!Exit
<1>3. Legacy!Result(kind, g) \in Printed
  BY <1>1 DEF Legacy!Result, Printed, Endings, HandoffState
<1>4. JobTypes'
  BY <1>1, <1>2, <1>3 DEF JobTypes
<1>5. HandoffOK' /\ GatesOK'
  <2>1. CASE g = hand
    BY <1>1, <1>2, <2>1 DEF HandoffOK, GatesOK
  <2>2. CASE /\ hand.phase \in {"running_model", "running_gates"}
             /\ g = [hand EXCEPT !.phase = "blocked", !.diag = None]
    <3>1. hand.verification = 0
      BY <1>1, <2>2 DEF HandoffOK
    <3>2. hand'.phase = "blocked" /\ hand'.verification = 0
      BY <1>1, <1>2, <2>2, <3>1 DEF JobTypes, HandoffState
    <3> QED BY <1>1, <3>2 DEF HandoffOK, GatesOK
  <2> QED BY <2>1, <2>2
<1>6. StageOK(j)'
  BY <1>1, <1>2 DEF StageOK, JobTypes
<1>7. RecoveryOK(j)'
  <2>1. result'[j].kind = kind /\ result'[j].launched = (g.recovery # 0 /\ g.launched)
    BY <1>1, <1>2 DEF Legacy!Result, JobTypes
  <2>2. ASSUME Recovers(j), sup[j] = "running" PROVE ~result'[j].launched
    BY <1>1, <2>1, <2>2 DEF RecoveryOK, HandoffOK
  <2>3. ex'[j] = "exit"
    BY <1>1, <1>2 DEF JobTypes
  <2> HIDE <1>2
  <2> QED BY <1>1, <2>1, <2>2, <2>3 DEF RecoveryOK, Recovers
<1>8. \/ hand' = hand
      \/ /\ \A k \in Legacy!Jobs \ {j} : ex[k] \notin Legacy!Locked
         /\ hand.phase # "recovery_prepared"
  BY <1>2 DEF Legacy!LockFree
<1>9. /\ \A k \in Legacy!Jobs \ {j} : ex'[k] = ex[k] /\ result'[k] = result[k]
      /\ ex'[j] \notin Legacy!Locked
  BY <1>1, <1>2 DEF JobTypes, Legacy!Locked
<1> QED BY <1>4, <1>5, <1>6, <1>7, <1>8, <1>9, ExecutorStep

\* The executor of an implementation job, up to the saved attempt.
LEMMA RunImplementation ==
    ASSUME JobsInv, NEW j \in DOMAIN job, Legacy!run_implementation(j)
    PROVE  JobsInv'
<1> DEFINE i == job[j].link
           h == IF hand.phase \in {"running_model", "running_gates"} THEN Legacy!Blocked(hand, None) ELSE hand
<1>1. /\ JobTypes /\ HandoffOK /\ GatesOK /\ StageOK(j) /\ RecoveryOK(j)
      /\ j \in Legacy!Jobs /\ job[j] \in JobRow
  BY InJobs DEF JobsInv
<1>2. /\ ex[j] = "start" /\ job[j].kind = "implementation"
      /\ UNCHANGED <<job, recs, vers, agreed, worktree, sup, live, booted, passed, edits, faults>>
  BY DEF Legacy!run_implementation
<1>3. /\ h \in HandoffState /\ hand \in HandoffState
      /\ hand.phase \notin {"running_model", "running_gates"} => h = hand
      /\ hand.phase \in {"running_model", "running_gates"} =>
            h.phase = "blocked" /\ h = [hand EXCEPT !.phase = "blocked", !.diag = None]
  BY <1>1 DEF JobTypes, HandoffState, Legacy!Blocked
<1>4. \/ Legacy!Exit(j, "uncertain", hand)
      \/ /\ Legacy!LockFree
         /\ \E kind \in {"uncertain", "blocked", "refused"} : Legacy!Exit(j, kind, h)
      \/ /\ Legacy!LockFree /\ Legacy!_prepare_attempt(j, h)
         /\ h.phase \in {"prepared", "correction_pending", "recovery_prepared"}
         /\ (h.phase = "recovery_prepared") <=> i # 0
         /\ i # 0 => h.recovery = i /\ Legacy!_registered(j, recs)
  BY DEF Legacy!run_implementation, Legacy!_recovery_refusal
<1>5. CASE Legacy!Exit(j, "uncertain", hand)
  BY <1>2, <1>3, <1>5, ExitsAtStart
<1>6. ASSUME Legacy!LockFree, NEW kind \in {"uncertain", "blocked", "refused"}, Legacy!Exit(j, kind, h)
      PROVE  JobsInv'
  BY <1>2, <1>3, <1>6, ExitsAtStart
<1>7. ASSUME Legacy!LockFree, Legacy!_prepare_attempt(j, h),
             h.phase \in {"prepared", "correction_pending", "recovery_prepared"},
             (h.phase = "recovery_prepared") <=> i # 0,
             i # 0 => h.recovery = i /\ Legacy!_registered(j, recs)
      PROVE  JobsInv'
  <2>1. h = hand
    BY <1>3, <1>7
  <2>2. /\ ex' = [ex EXCEPT ![j] = "launch"] /\ result' = result
        /\ hand' = [hand EXCEPT !.phase = "running_model", !.attempt = @ + 1, !.passed = FALSE, !.diag = None]
    BY <1>7, <2>1 DEF Legacy!_prepare_attempt, Legacy!Enter
  <2>3. /\ hand' \in HandoffState /\ hand'.phase = "running_model" /\ hand'.launched = hand.launched
        /\ hand'.verification = hand.verification /\ hand'.passed = FALSE
    <3>1. hand.attempt + 1 \in Int
      BY <1>3 DEF HandoffState
    <3>2. hand' \in HandoffState
      BY <1>3, <2>2, <3>1 DEF HandoffState
    <3> QED BY <1>3, <2>2, <3>2 DEF HandoffState
  <2>4. JobTypes'
    BY <1>1, <1>2, <2>2, <2>3 DEF JobTypes
  <2>5. HandoffOK' /\ GatesOK'
    <3>1. hand.verification = 0
      BY <1>1, <1>7, <2>1 DEF HandoffOK, JobTypes, HandoffState
    <3>2. vers' = vers /\ passed' = passed /\ recs' = recs
      BY <1>2
    <3> QED BY <1>1, <2>3, <3>1, <3>2 DEF HandoffOK, GatesOK
  <2>6. StageOK(j)'
    BY <1>1, <1>2, <2>2, <2>3 DEF StageOK, JobTypes
  <2>7. RecoveryOK(j)'
    BY <1>1, <1>2, <1>7, <2>1, <2>2, <2>3 DEF RecoveryOK, Recovers, JobTypes, HandoffOK, Legacy!_registered, StageOK,
        Legacy!NoResult
  <2>8. /\ \A k \in Legacy!Jobs \ {j} : ex[k] \notin Legacy!Locked
        /\ hand.phase # "recovery_prepared" \/ (Recovers(j) /\ hand.recovery = job[j].link)
    BY <1>2, <1>7, <2>1 DEF Legacy!LockFree, Recovers
  <2>9. \A k \in Legacy!Jobs \ {j} : ex'[k] = ex[k] /\ result'[k] = result[k]
    BY <1>1, <2>2 DEF JobTypes
  <2> QED BY <1>2, <1>7, <2>4, <2>5, <2>6, <2>7, <2>8, <2>9, ExecutorStep
<1> QED BY <1>4, <1>5, <1>6, <1>7

\* Nobody else is at work while the executor of job j holds the handoff.
LEMMA LockedStep ==
    ASSUME JobsInv, NEW j \in DOMAIN job, ex[j] \in Legacy!Locked, JobTypes', UNCHANGED <<job, sup>>,
           \A k \in Legacy!Jobs \ {j} : ex'[k] = ex[k] /\ result'[k] = result[k],
           \/ recs' = recs
           \/ /\ Recovers(j) /\ ex[j] = "launch"
              /\ recs' = [recs EXCEPT ![job[j].link].launches = @ + 1],
           DOMAIN vers \subseteq DOMAIN vers',
           StageOK(j)', RecoveryOK(j)', HandoffOK', GatesOK'
    PROVE  JobsInv'
<1>1. JobTypes /\ j \in Legacy!Jobs /\ StageOK(j) /\ OneLocked
  BY InJobs DEF JobsInv
<1>2. hand.phase # "recovery_prepared" /\ \A k \in Legacy!Jobs \ {j} : ex[k] \notin Legacy!Locked
  BY <1>1 DEF StageOK, OneLocked, Legacy!Locked
<1> QED BY <1>2, ExecutorStep

\* It ends: the recovery of a turn that launched is not refused.
LEMMA LockedExits ==
    ASSUME JobsInv, NEW j \in DOMAIN job, ex[j] \in Legacy!Locked, UNCHANGED <<job, sup, agreed>>,
           live' \in [Legacy!Jobs -> BOOLEAN], worktree' \in Contents, passed' \subseteq Contents,
           vers' \in Seq(VerificationRow), DOMAIN vers \subseteq DOMAIN vers',
           NEW g \in HandoffState, NEW kind \in Endings, Legacy!Exit(j, kind, g),
           g.launched = hand.launched,
           \/ recs' = recs
           \/ /\ Recovers(j) /\ ex[j] = "launch"
              /\ recs' = [recs EXCEPT ![job[j].link].launches = @ + 1],
           kind = "refused" => ex[j] = "launch" /\ recs' = recs,
           HandoffOK', GatesOK'
    PROVE  JobsInv'
<1>1. /\ JobTypes /\ StageOK(j) /\ RecoveryOK(j)
      /\ j \in Legacy!Jobs /\ job[j] \in JobRow
  BY InJobs DEF JobsInv
<1>2. /\ ex' = [ex EXCEPT ![j] = "exit"] /\ hand' = g
      /\ result' = [result EXCEPT ![j] = Legacy!Result(kind, g)]
  BY DEF Legacy!Exit
<1>3. /\ Legacy!Result(kind, g) \in Printed
      /\ Legacy!Result(kind, g).kind = kind
      /\ Legacy!Result(kind, g).launched = (g.recovery # 0 /\ hand.launched)
  BY <1>1 DEF Legacy!Result, Printed, HandoffState, Endings
<1>4. /\ recs' \in Seq(RecoveryRow) /\ DOMAIN recs' = DOMAIN recs
      /\ Recovers(j) => /\ recs'[job[j].link].succ = recs[job[j].link].succ
                        /\ recs'[job[j].link].status = recs[job[j].link].status
                        /\ \/ recs'[job[j].link].launches = recs[job[j].link].launches
                           \/ ex[j] = "launch" /\ recs'[job[j].link].launches = recs[job[j].link].launches + 1
  <2>1. CASE recs' = recs
    BY <1>1, <2>1 DEF JobTypes
  <2>2. CASE /\ Recovers(j) /\ ex[j] = "launch"
             /\ recs' = [recs EXCEPT ![job[j].link].launches = @ + 1]
    <3>1. job[j].link \in DOMAIN recs
      BY <1>1, <2>2 DEF RecoveryOK
    <3> QED BY <1>1, <2>2, <3>1, OneMoreLaunch
  <2> QED BY <2>1, <2>2
<1>5. JobTypes'
  BY <1>1, <1>2, <1>3, <1>4 DEF JobTypes
<1>6. /\ ex'[j] = "exit" /\ result'[j] = Legacy!Result(kind, g)
      /\ \A k \in Legacy!Jobs \ {j} : ex'[k] = ex[k] /\ result'[k] = result[k]
  BY <1>1, <1>2 DEF JobTypes
<1> HIDE <1>2
<1>7. StageOK(j)'
  BY <1>1, <1>6 DEF StageOK, Legacy!Locked
<1>8. RecoveryOK(j)'
  <2>1. ASSUME Recovers(j)
        PROVE  /\ job[j].link \in DOMAIN recs' /\ recs'[job[j].link].succ = j
               /\ recs'[job[j].link].status \in {"dispatched", "consumed", "invalidated"}
               /\ sup[j] \in {"spawned", "running"} => recs'[job[j].link].status = "dispatched"
               /\ kind = "refused" => recs'[job[j].link].launches = 0
               /\ result'[j].launched => recs'[job[j].link].launches = 1
    <3>1. ex[j] \in {"launch", "child", "gates"}
      BY <1>1, <2>1 DEF StageOK, Recovers, Legacy!Locked
    <3> QED BY <1>1, <1>3, <1>4, <1>6, <2>1, <3>1 DEF RecoveryOK
  <2> QED BY <1>3, <1>6, <2>1 DEF RecoveryOK, Recovers
<1> QED BY <1>5, <1>6, <1>7, <1>8, LockedStep

\* The launch is counted once, by the executor that saved the attempt.
LEMMA LaunchModel ==
    ASSUME JobsInv, NEW j \in DOMAIN job, Legacy!LaunchModel(j)
    PROVE  JobsInv'
<1> DEFINE i == job[j].link
<1>1. /\ JobTypes /\ StageOK(j) /\ RecoveryOK(j) /\ HandoffOK /\ GatesOK
      /\ j \in Legacy!Jobs /\ job[j] \in JobRow
  BY InJobs DEF JobsInv
<1>2. /\ ex[j] = "launch" /\ ex' = [ex EXCEPT ![j] = "child"] /\ result' = result
      /\ live' = [live EXCEPT ![j] = TRUE]
      /\ hand' = [hand EXCEPT !.launched = i # 0]
      /\ recs' = IF i # 0 THEN [recs EXCEPT ![i].launches = @ + 1] ELSE recs
      /\ UNCHANGED <<job, vers, agreed, worktree, sup, booted, passed, edits, faults>>
  BY DEF Legacy!LaunchModel, Legacy!Enter
<1>3. /\ hand' \in HandoffState /\ hand'.phase = "running_model" /\ hand.phase = "running_model"
      /\ hand'.verification = hand.verification /\ hand'.candidate = hand.candidate
  BY <1>1, <1>2 DEF JobTypes, HandoffState, StageOK
<1>4. Recovers(j) <=> i # 0
  BY <1>1, <1>2 DEF StageOK, Recovers
<1>5. Recovers(j) => /\ i \in DOMAIN recs /\ recs[i].launches = 0 /\ recs[i].status = "dispatched"
                     /\ recs[i].succ = j
  BY <1>1, <1>2 DEF RecoveryOK
<1>6. /\ recs' \in Seq(RecoveryRow) /\ DOMAIN recs' = DOMAIN recs
      /\ Recovers(j) => /\ recs'[i].launches = 1 /\ recs'[i].status = "dispatched" /\ recs'[i].succ = j
  <2>1. CASE ~Recovers(j)
    BY <1>1, <1>2, <1>4, <2>1 DEF JobTypes
  <2>2. CASE Recovers(j)
    <3>1. recs' = [recs EXCEPT ![i].launches = @ + 1]
      BY <1>2, <1>4, <2>2
    <3>2. /\ recs' \in Seq(RecoveryRow) /\ DOMAIN recs' = DOMAIN recs
          /\ recs'[i].launches = recs[i].launches + 1
          /\ recs'[i].succ = recs[i].succ /\ recs'[i].status = recs[i].status
      BY <1>1, <1>5, <2>2, <3>1, OneMoreLaunch
    <3> QED BY <1>5, <2>2, <3>2
  <2> QED BY <2>1, <2>2
<1>7. JobTypes'
  BY <1>1, <1>2, <1>3, <1>6 DEF JobTypes
<1>8. /\ ex'[j] = "child" /\ \A k \in Legacy!Jobs \ {j} : ex'[k] = ex[k]
  BY <1>1, <1>2 DEF JobTypes
<1>9. recs' = recs \/ (Recovers(j) /\ ex[j] = "launch" /\ recs' = [recs EXCEPT ![job[j].link].launches = @ + 1])
  BY <1>2, <1>4
<1>10. HandoffOK' /\ GatesOK'
  <2>1. vers' = vers /\ passed' = passed
    BY <1>2
  <2> QED BY <1>1, <1>3, <2>1 DEF HandoffOK, GatesOK
<1>11. StageOK(j)' /\ RecoveryOK(j)'
  <2>1. result' = result /\ job' = job /\ vers' = vers /\ sup' = sup
    BY <1>2
  <2>2. result[j] = Legacy!NoResult /\ sup[j] # "spawned" /\ job[j].kind = "implementation"
    BY <1>1, <1>2 DEF StageOK
  <2>3. StageOK(j)'
    BY <1>1, <1>3, <1>8, <2>1, <2>2 DEF StageOK
  <2>4. RecoveryOK(j)'
    BY JobBounds, <1>1, <1>6, <1>8, <2>1, <2>2 DEF RecoveryOK, Recovers, Legacy!NoResult
  <2> QED BY <2>3, <2>4
<1> QED BY <1>2, <1>7, <1>8, <1>9, <1>10, <1>11, LockedStep DEF Legacy!Locked

\* The launch of a model failed: a recovery is prepared again, another turn blocked.
LEMMA NotLaunched ==
    ASSUME JobsInv, NEW j \in DOMAIN job, ex[j] = "launch", Legacy!NotLaunched(j),
           UNCHANGED <<job, recs, vers, agreed, worktree, sup, live, passed>>
    PROVE  JobsInv'
<1>1. /\ JobTypes /\ StageOK(j) /\ RecoveryOK(j) /\ HandoffOK /\ GatesOK
      /\ j \in Legacy!Jobs /\ job[j] \in JobRow
  BY InJobs DEF JobsInv
<1>2. CASE job[j].link # 0
  <2> DEFINE g == [hand EXCEPT !.phase = "recovery_prepared", !.attempt = @ - 1, !.diag = "model"]
  <2>1. Legacy!Exit(j, "refused", g)
    BY <1>2 DEF Legacy!NotLaunched
  <2>2. hand \in HandoffState /\ hand.attempt - 1 \in Int
    BY <1>1 DEF JobTypes, HandoffState
  <2>3. g \in HandoffState
    BY <2>2 DEF HandoffState
  <2>4. g.launched = hand.launched /\ g.phase = "recovery_prepared" /\ g.verification = hand.verification
        /\ g.recovery = hand.recovery
    BY <2>2 DEF HandoffState
  <2> HIDE DEF g
  <2>5. /\ hand.phase = "running_model" /\ hand.verification = 0 /\ ~hand.launched
        /\ hand.recovery \in DOMAIN recs
    BY <1>1, <1>2 DEF StageOK, HandoffOK, RecoveryOK, Recovers
  <2>6. hand' = g
    BY <2>1 DEF Legacy!Exit
  <2>7. HandoffOK' /\ GatesOK'
    BY <1>1, <2>4, <2>5, <2>6 DEF HandoffOK, GatesOK
  <2>8. ex[j] \in Legacy!Locked
    BY DEF Legacy!Locked
  <2>9. live' \in [Legacy!Jobs -> BOOLEAN] /\ worktree' \in Contents /\ passed' \subseteq Contents /\ vers' \in Seq(VerificationRow)
    BY <1>1 DEF JobTypes
  <2> QED BY <2>1, <2>3, <2>4, <2>7, <2>8, <2>9, LockedExits DEF Endings
<1>3. CASE job[j].link = 0
  <2> DEFINE g == [hand EXCEPT !.phase = "blocked", !.diag = None]
  <2>1. Legacy!Exit(j, "blocked", g)
    BY <1>3 DEF Legacy!NotLaunched, Legacy!Blocked
  <2>3. /\ g \in HandoffState
        /\ g.launched = hand.launched /\ g.phase = "blocked" /\ g.verification = hand.verification
    BY <1>1 DEF HandoffState, JobTypes
  <2> HIDE DEF g
  <2>5. hand.phase = "running_model" /\ hand.verification = 0
    BY <1>1, <1>3 DEF StageOK, HandoffOK
  <2>6. hand' = g
    BY <2>1 DEF Legacy!Exit
  <2>7. HandoffOK' /\ GatesOK'
    BY <1>1, <2>3, <2>5, <2>6 DEF HandoffOK, GatesOK
  <2>8. ex[j] \in Legacy!Locked
    BY DEF Legacy!Locked
  <2>9. live' \in [Legacy!Jobs -> BOOLEAN] /\ worktree' \in Contents /\ passed' \subseteq Contents /\ vers' \in Seq(VerificationRow)
    BY <1>1 DEF JobTypes
  <2> QED BY <2>1, <2>3, <2>7, <2>8, <2>9, LockedExits DEF Endings
<1> QED BY <1>2, <1>3

\* A model that was not spawned.
LEMMA ModelSpawnError ==
    ASSUME JobsInv, NEW j \in DOMAIN job, Legacy!ModelSpawnError(j)
    PROVE  JobsInv'
BY NotLaunched DEF Legacy!ModelSpawnError

\* What is known of the job whose executor holds the handoff.
LEMMA Holder ==
    ASSUME JobsInv, NEW j \in DOMAIN job, ex[j] \in Legacy!Locked
    PROVE  /\ JobTypes /\ StageOK(j) /\ RecoveryOK(j) /\ HandoffOK /\ GatesOK
           /\ j \in Legacy!Jobs /\ job[j] \in JobRow
           /\ hand.phase \notin {"recovery_prepared", "awaiting_astra_review", "accepted"}
           /\ ex[j] \in {"launch", "child", "gates"} => hand.verification = 0
           /\ ex[j] \in {"verify", "publish"} =>
                 job[j].link \in DOMAIN vers /\ job[j].link # 0 /\ hand.verification = job[j].link
<1>1. /\ JobTypes /\ StageOK(j) /\ RecoveryOK(j) /\ HandoffOK /\ GatesOK
      /\ j \in Legacy!Jobs /\ job[j] \in JobRow
  BY InJobs DEF JobsInv
<1>2. 0 \notin DOMAIN vers
  BY <1>1 DEF JobTypes
<1> QED BY <1>1, <1>2 DEF StageOK, HandoffOK, Legacy!Locked

\* Nothing is claimed of a handoff that is being worked on or was given up.
LEMMA NothingClaimed ==
    ASSUME hand'.phase \notin {"recovery_prepared", "awaiting_astra_review", "accepted"},
           hand'.verification = 0
    PROVE  HandoffOK'
BY DEF HandoffOK

\* Outcomes that passed before, and the copies they passed on.
LEMMA GatesKept ==
    ASSUME GatesOK, DOMAIN vers' = DOMAIN vers, passed \subseteq passed',
           \A m \in DOMAIN vers :
              /\ vers'[m].candidate = vers[m].candidate
              /\ vers'[m].outcome = "passed" =>
                    vers[m].outcome = "passed" \/ vers[m].candidate \in passed'
    PROVE  GatesOK'
<1>1. ASSUME NEW m \in DOMAIN vers', vers'[m].outcome = "passed" PROVE vers'[m].candidate \in passed'
  <2>1. m \in DOMAIN vers
    BY <1>1
  <2>2. vers'[m].candidate = vers[m].candidate
    BY <2>1
  <2>3. vers[m].outcome = "passed" \/ vers[m].candidate \in passed'
    BY <1>1, <2>1
  <2>4. vers[m].outcome = "passed" => vers[m].candidate \in passed
    BY <2>1 DEF GatesOK
  <2> QED BY <2>2, <2>3, <2>4
<1> QED BY <1>1 DEF GatesOK

\* The model ends: the gates follow, or the turn is over.
LEMMA ModelEnds ==
    ASSUME JobsInv, NEW j \in DOMAIN job, NEW content \in Contents, Legacy!ModelEnds(j, content)
    PROVE  JobsInv'
<1> DEFINE h == [hand EXCEPT !.candidate = content]
<1>1. /\ ex[j] = "child" /\ ex[j] \in Legacy!Locked /\ worktree' = content
      /\ UNCHANGED <<job, recs, vers, agreed, sup, passed, edits, faults>>
  BY DEF Legacy!ModelEnds, Legacy!Locked
<1>2. /\ JobTypes /\ StageOK(j) /\ RecoveryOK(j) /\ HandoffOK /\ GatesOK
      /\ j \in Legacy!Jobs /\ job[j] \in JobRow /\ hand.verification = 0
  BY <1>1, Holder
<1>3. GatesOK'
  BY <1>1, <1>2 DEF GatesOK
<1>4. hand \in HandoffState /\ h \in HandoffState /\ h.verification = 0 /\ h.launched = hand.launched
  BY <1>2 DEF JobTypes, HandoffState
<1>5. CASE Legacy!Enter(j, "gates") /\ hand' = [h EXCEPT !.phase = "running_gates"] /\ UNCHANGED live
  <2>1. ex' = [ex EXCEPT ![j] = "gates"] /\ result' = result
    BY <1>5 DEF Legacy!Enter
  <2>2. /\ hand' \in HandoffState /\ hand'.phase = "running_gates" /\ hand'.verification = 0
        /\ hand'.launched = hand.launched
    BY <1>4, <1>5 DEF HandoffState
  <2>3. JobTypes'
    BY <1>1, <1>2, <1>5, <2>1, <2>2 DEF JobTypes
  <2>4. ex'[j] = "gates" /\ \A k \in Legacy!Jobs \ {j} : ex'[k] = ex[k] /\ result'[k] = result[k]
    BY <1>2, <2>1 DEF JobTypes
  <2>5. UNCHANGED <<job, recs, vers, sup, result>>
    BY <1>1, <2>1
  <2>6. StageOK(j)'
    BY <1>1, <1>2, <2>2, <2>4, <2>5 DEF StageOK
  <2>7. RecoveryOK(j)'
    BY <1>1, <1>2, <2>4, <2>5 DEF RecoveryOK, Recovers
  <2>8. HandoffOK'
    BY <2>2, NothingClaimed
  <2> QED BY <1>1, <1>3, <2>3, <2>4, <2>5, <2>6, <2>7, <2>8, LockedStep
<1>6. ASSUME NEW g \in HandoffState, NEW kind \in {"scope", "blocked"}, Legacy!Exit(j, kind, g), Legacy!Reaped(j),
             g.phase \in {"scope_change", "blocked"}, g.verification = 0, g.launched = hand.launched
      PROVE  JobsInv'
  <2>1. hand' = g
    BY <1>6 DEF Legacy!Exit
  <2>2. HandoffOK'
    BY <1>6, <2>1, NothingClaimed
  <2>3. /\ live' \in [Legacy!Jobs -> BOOLEAN] /\ worktree' \in Contents /\ passed' \subseteq Contents
        /\ vers' \in Seq(VerificationRow)
    BY <1>1, <1>2, <1>6 DEF JobTypes, Legacy!Reaped
  <2> QED BY <1>1, <1>3, <1>6, <2>2, <2>3, LockedExits DEF Endings
<1>7. ASSUME Legacy!Exit(j, "scope", [h EXCEPT !.phase = "scope_change"]), Legacy!Reaped(j)
      PROVE  JobsInv'
  <2> DEFINE g == [h EXCEPT !.phase = "scope_change"]
  <2>1. g \in HandoffState /\ g.phase = "scope_change" /\ g.verification = 0 /\ g.launched = hand.launched
    BY <1>4 DEF HandoffState
  <2> HIDE DEF g
  <2> QED BY <1>6, <1>7, <2>1 DEF g
<1>8. ASSUME NEW diag \in Legacy!Diagnoses, Legacy!Exit(j, "blocked", Legacy!Blocked(hand, diag)), Legacy!Reaped(j)
      PROVE  JobsInv'
  <2> DEFINE g == Legacy!Blocked(hand, diag)
  <2>1. g \in HandoffState /\ g.phase = "blocked" /\ g.verification = 0 /\ g.launched = hand.launched
    BY <1>2, <1>4, <1>8 DEF HandoffState, Legacy!Blocked, Legacy!Diagnoses
  <2> HIDE DEF g
  <2> QED BY <1>6, <1>8, <2>1 DEF g
<1> QED BY <1>5, <1>7, <1>8 DEF Legacy!ModelEnds

\* A handoff that passed awaits its review with a candidate the gates passed on.
LEMMA GatesEnd ==
    ASSUME JobsInv, NEW j \in DOMAIN job, Legacy!GatesEnd(j)
    PROVE  JobsInv'
<1>1. /\ ex[j] = "gates" /\ ex[j] \in Legacy!Locked /\ Legacy!Reaped(j)
      /\ UNCHANGED <<job, recs, vers, agreed, worktree, sup, booted, edits, faults>>
  BY DEF Legacy!GatesEnd, Legacy!Locked
<1>2. /\ JobTypes /\ StageOK(j) /\ RecoveryOK(j) /\ HandoffOK /\ GatesOK
      /\ j \in Legacy!Jobs /\ job[j] \in JobRow /\ hand.verification = 0 /\ hand \in HandoffState
  BY <1>1, Holder DEF JobTypes
<1>3. ASSUME NEW g \in HandoffState, NEW kind \in {"awaiting", "blocked"}, Legacy!Exit(j, kind, g),
             g.launched = hand.launched, HandoffOK',
             passed' = passed \/ passed' = passed \cup {worktree}
      PROVE  JobsInv'
  <2>1. GatesOK' /\ passed' \subseteq Contents
    BY <1>1, <1>2, <1>3 DEF GatesOK, JobTypes
  <2>2. /\ live' \in [Legacy!Jobs -> BOOLEAN] /\ worktree' \in Contents
        /\ vers' \in Seq(VerificationRow)
    BY <1>1, <1>2 DEF JobTypes, Legacy!Reaped
  <2> QED BY <1>1, <1>3, <2>1, <2>2, LockedExits DEF Endings
<1>4. ASSUME NEW diag \in {"gate", None}, Legacy!Exit(j, "blocked", Legacy!Blocked(hand, diag)), UNCHANGED passed
      PROVE  JobsInv'
  <2> DEFINE g == Legacy!Blocked(hand, diag)
  <2>1. g \in HandoffState /\ g.phase = "blocked" /\ g.verification = 0 /\ g.launched = hand.launched
    BY <1>2, <1>4 DEF HandoffState, Legacy!Blocked
  <2>2. hand' = g
    BY <1>4 DEF Legacy!Exit
  <2> HIDE DEF g
  <2>3. HandoffOK'
    BY <2>1, <2>2, NothingClaimed
  <2> QED BY <1>3, <1>4, <2>1, <2>3 DEF g
<1>5. ASSUME NEW ok \in BOOLEAN, Legacy!AsAuthorized(hand),
             Legacy!Exit(j, "awaiting", [hand EXCEPT !.phase = "awaiting_astra_review", !.passed = ok]),
             passed' = IF ok THEN passed \cup {worktree} ELSE passed
      PROVE  JobsInv'
  <2> DEFINE g == [hand EXCEPT !.phase = "awaiting_astra_review", !.passed = ok]
  <2>1. /\ g \in HandoffState /\ g.phase = "awaiting_astra_review" /\ g.verification = 0
        /\ g.launched = hand.launched /\ g.candidate = hand.candidate /\ g.passed = ok
    BY <1>2 DEF HandoffState
  <2>2. hand' = g
    BY <1>5 DEF Legacy!Exit
  <2> HIDE DEF g
  <2>3. HandoffOK'
    BY <1>5, <2>1, <2>2 DEF HandoffOK, Legacy!AsAuthorized
  <2> QED BY <1>3, <1>5, <2>1, <2>3 DEF g
<1> QED BY <1>4, <1>5 DEF Legacy!GatesEnd

-----------------------------------------------------------------------------
(***************************************************************************)
(* The verification on a copy.                                             *)
(***************************************************************************)
LEMMA OutcomeWritten ==
    ASSUME NEW rows \in Seq(VerificationRow), NEW i \in DOMAIN rows
    PROVE  /\ Legacy!_write_outcome(rows, i) \in Seq(VerificationRow)
           /\ DOMAIN Legacy!_write_outcome(rows, i) = DOMAIN rows
           /\ \A m \in DOMAIN rows :
                 /\ Legacy!_write_outcome(rows, i)[m].candidate = rows[m].candidate
                 /\ Legacy!_write_outcome(rows, i)[m].outcome = rows[m].outcome
<1> DEFINE new == [rows[i] EXCEPT !.file = TRUE]
<1>1. rows[i] \in VerificationRow
  OBVIOUS
<1>2. new \in VerificationRow /\ new.candidate = rows[i].candidate /\ new.outcome = rows[i].outcome
  BY <1>1 DEF VerificationRow
<1>3. Legacy!_write_outcome(rows, i) = [rows EXCEPT ![i] = new]
  BY DEF Legacy!_write_outcome
<1> HIDE DEF new
<1> QED BY <1>2, <1>3

\* The outcome of a verification is registered once, with its row otherwise as it was.
LEMMA OutcomeRegistered ==
    ASSUME JobTypes, NEW j \in DOMAIN job, job[j].link \in DOMAIN vers, NEW outcome \in Verdicts
    PROVE  /\ Legacy!_register_outcome(j, outcome) \in Seq(VerificationRow)
           /\ DOMAIN Legacy!_register_outcome(j, outcome) = DOMAIN vers
           /\ \A m \in DOMAIN vers :
                 /\ Legacy!_register_outcome(j, outcome)[m].candidate = vers[m].candidate
                 /\ Legacy!_register_outcome(j, outcome)[m].outcome = vers[m].outcome
                    \/ (m = job[j].link /\ Legacy!_register_outcome(j, outcome)[m].outcome = outcome)
<1> DEFINE i == job[j].link
           verdict == IF Legacy!_registered_verifier(j) /\ vers[i].outcome = None THEN outcome ELSE vers[i].outcome
           new == [vers[i] EXCEPT !.outcome = verdict]
<1>1. vers[i] \in VerificationRow
  BY DEF JobTypes
<1>2. verdict \in Verdicts \cup {None} /\ (verdict = vers[i].outcome \/ verdict = outcome)
  BY <1>1 DEF VerificationRow
<1>3. Legacy!_register_outcome(j, outcome) = [vers EXCEPT ![i] = new]
  BY DEF Legacy!_register_outcome
<1> HIDE DEF verdict
<1>4. new \in VerificationRow /\ new.candidate = vers[i].candidate /\ new.outcome = verdict
  BY <1>1, <1>2 DEF VerificationRow
<1> HIDE DEF new, i
<1>5. i \in DOMAIN vers /\ i = job[j].link
  BY DEF i
<1> QED BY <1>2, <1>3, <1>4, <1>5 DEF JobTypes

\* A verifier starts only on the handoff that is bound to its record.
LEMMA VerificationRun ==
    ASSUME JobsInv, NEW j \in DOMAIN job, Legacy!verification_run(j)
    PROVE  JobsInv'
<1> DEFINE i == job[j].link
<1>1. /\ ex[j] = "start" /\ job[j].kind = "verification"
      /\ UNCHANGED <<job, recs, vers, agreed, worktree, sup, booted, passed, edits, faults>>
  BY DEF Legacy!verification_run
<1>2. /\ JobTypes /\ StageOK(j) /\ RecoveryOK(j) /\ HandoffOK /\ GatesOK
      /\ j \in Legacy!Jobs /\ job[j] \in JobRow /\ hand \in HandoffState
  BY InJobs DEF JobsInv, JobTypes
<1>3. CASE \E kind \in {"uncertain", "refused"} : Legacy!Exit(j, kind, hand) /\ UNCHANGED live
  BY <1>1, <1>2, <1>3, ExitsAtStart
<1>4. ASSUME Legacy!LockFree, hand.verification = i, Legacy!audit_verification(job, hand, vers[i].pred, i),
             Legacy!Enter(j, "verify"), live' = [live EXCEPT ![j] = TRUE],
             hand' = [hand EXCEPT !.phase = "verifying"]
      PROVE  JobsInv'
  <2>1. hand.phase = "blocked"
    BY <1>4 DEF Legacy!audit_verification
  <2>2. /\ hand' \in HandoffState /\ hand'.phase = "verifying" /\ hand'.verification = i
        /\ hand'.candidate = hand.candidate
    BY <1>2, <1>4 DEF HandoffState
  <2>3. ex' = [ex EXCEPT ![j] = "verify"] /\ UNCHANGED <<job, recs, vers, sup, passed, result>>
    BY <1>1, <1>4 DEF Legacy!Enter
  <2>4. JobTypes'
    BY <1>1, <1>2, <1>4, <2>2, <2>3 DEF JobTypes
  <2>5. ex'[j] = "verify" /\ \A k \in Legacy!Jobs \ {j} : ex'[k] = ex[k] /\ result'[k] = result[k]
    BY <1>2, <2>3 DEF JobTypes
  <2>6. HandoffOK' /\ GatesOK'
    BY <1>2, <1>4, <2>2, <2>3 DEF HandoffOK, GatesOK
  <2>7. StageOK(j)' /\ RecoveryOK(j)'
    BY <1>1, <1>2, <2>2, <2>3, <2>5 DEF StageOK, RecoveryOK, Recovers
  <2>8. \A k \in Legacy!Jobs \ {j} : ex[k] \notin Legacy!Locked
    BY <1>4 DEF Legacy!LockFree
  <2> QED BY <1>4, <2>1, <2>3, <2>4, <2>5, <2>6, <2>7, <2>8, ExecutorStep
<1> QED BY <1>3, <1>4 DEF Legacy!verification_run

\* A verification that is given up leaves a blocked handoff without it.
LEMMA Interrupt ==
    ASSUME JobsInv, NEW j \in DOMAIN job, ex[j] = "verify", Legacy!Interrupt(j, job[j].link),
           live' \in [Legacy!Jobs -> BOOLEAN], UNCHANGED <<job, recs, agreed, worktree, sup, passed>>
    PROVE  JobsInv'
<1> DEFINE g == [hand EXCEPT !.phase = "blocked", !.verification = 0]
           rows == Legacy!_register_outcome(j, "interrupted")
<1>1. ex[j] \in Legacy!Locked
  BY DEF Legacy!Locked
<1>2. /\ JobTypes /\ GatesOK /\ job[j].link \in DOMAIN vers /\ hand \in HandoffState
  BY <1>1, Holder DEF JobTypes
<1>3. /\ g \in HandoffState /\ g.phase = "blocked" /\ g.verification = 0 /\ g.launched = hand.launched
  BY <1>2 DEF HandoffState
<1>4. /\ vers' = Legacy!_write_outcome(rows, job[j].link) /\ Legacy!Exit(j, "interrupted", g) /\ hand' = g
  BY DEF Legacy!Interrupt, Legacy!Exit
<1>5. /\ rows \in Seq(VerificationRow) /\ DOMAIN rows = DOMAIN vers
      /\ \A m \in DOMAIN vers :
            /\ rows[m].candidate = vers[m].candidate
            /\ rows[m].outcome = "passed" => vers[m].outcome = "passed"
  BY <1>2, OutcomeRegistered DEF Verdicts
<1> HIDE DEF g, rows
<1>6. /\ vers' \in Seq(VerificationRow) /\ DOMAIN vers' = DOMAIN vers
      /\ \A m \in DOMAIN vers :
            /\ vers'[m].candidate = vers[m].candidate
            /\ vers'[m].outcome = "passed" => vers[m].outcome = "passed"
  <2>1. /\ Legacy!_write_outcome(rows, job[j].link) \in Seq(VerificationRow)
        /\ DOMAIN Legacy!_write_outcome(rows, job[j].link) = DOMAIN rows
        /\ \A m \in DOMAIN rows :
              /\ Legacy!_write_outcome(rows, job[j].link)[m].candidate = rows[m].candidate
              /\ Legacy!_write_outcome(rows, job[j].link)[m].outcome = rows[m].outcome
    BY <1>2, <1>5, OutcomeWritten
  <2> QED BY <1>4, <1>5, <2>1
<1>7. HandoffOK' /\ GatesOK'
  <2>1. HandoffOK'
    BY <1>3, <1>4, NothingClaimed
  <2>2. passed' = passed
    OBVIOUS
  <2> QED BY <1>2, <1>6, <2>1, <2>2, GatesKept
<1>8. worktree' \in Contents /\ passed' \subseteq Contents
  BY <1>2 DEF JobTypes
<1> QED BY <1>1, <1>3, <1>4, <1>6, <1>7, <1>8, LockedExits DEF Endings

\* The gates on the copy end: a run that passed did so on the copy its row names.
LEMMA VerifyEnds ==
    ASSUME JobsInv, NEW j \in DOMAIN job, Legacy!VerifyEnds(j)
    PROVE  JobsInv'
<1> DEFINE i == job[j].link
<1>1. /\ ex[j] = "verify" /\ ex[j] \in Legacy!Locked /\ Legacy!Reaped(j)
      /\ UNCHANGED <<job, recs, agreed, worktree, sup, booted, edits, faults>>
  BY DEF Legacy!VerifyEnds, Legacy!Locked
<1>2. /\ JobTypes /\ StageOK(j) /\ RecoveryOK(j) /\ HandoffOK /\ GatesOK
      /\ j \in Legacy!Jobs /\ job[j] \in JobRow /\ i \in DOMAIN vers /\ i # 0 /\ hand.verification = i
      /\ hand.phase = "verifying" /\ job[j].kind = "verification"
  BY <1>1, Holder DEF StageOK
<1>3. live' \in [Legacy!Jobs -> BOOLEAN]
  BY <1>1, <1>2 DEF JobTypes, Legacy!Reaped
<1>4. CASE Legacy!Interrupt(j, i) /\ UNCHANGED passed
  BY <1>1, <1>3, <1>4, Interrupt
<1>5. ASSUME NEW outcome \in {"passed", "failed"}, vers' = Legacy!_register_outcome(j, outcome),
             passed' = IF outcome = "passed" THEN passed \cup {Legacy!CopyOf(i)} ELSE passed,
             Legacy!Enter(j, "publish"), UNCHANGED hand
      PROVE  JobsInv'
  <2>1. /\ vers' \in Seq(VerificationRow) /\ DOMAIN vers' = DOMAIN vers
        /\ \A m \in DOMAIN vers :
              /\ vers'[m].candidate = vers[m].candidate
              /\ vers'[m].outcome = vers[m].outcome \/ (m = i /\ vers'[m].outcome = outcome)
    BY <1>2, <1>5, OutcomeRegistered DEF Verdicts
  <2>2. vers[i].candidate \in Contents
    <3>1. vers[i] \in VerificationRow
      BY <1>2 DEF JobTypes
    <3> QED BY <3>1 DEF VerificationRow
  <2>3. passed' \subseteq Contents /\ passed \subseteq passed' /\ (outcome = "passed" => vers[i].candidate \in passed')
    BY <1>2, <1>5, <2>2 DEF Legacy!CopyOf, JobTypes
  <2>4. GatesOK'
    <3>1. ASSUME NEW m \in DOMAIN vers, vers'[m].outcome = "passed"
          PROVE  vers[m].outcome = "passed" \/ vers[m].candidate \in passed'
      <4>1. vers'[m].outcome = vers[m].outcome \/ (m = i /\ outcome = "passed")
        BY <2>1, <3>1
      <4> QED BY <2>3, <3>1, <4>1
    <3> QED BY <1>2, <2>1, <2>3, <3>1, GatesKept
  <2>5. HandoffOK'
    <3>1. hand' = hand
      BY <1>5
    <3>3. vers'[i].candidate = vers[i].candidate
      BY <1>2, <2>1
    <3>2. vers[i].candidate = hand.candidate
      BY <1>2 DEF HandoffOK
    <3> QED BY <1>2, <2>1, <3>1, <3>2, <3>3 DEF HandoffOK
  <2>6. ex' = [ex EXCEPT ![j] = "publish"] /\ UNCHANGED <<job, recs, sup, result>>
    BY <1>1, <1>5 DEF Legacy!Enter
  <2>7. JobTypes'
    BY <1>1, <1>2, <1>3, <1>5, <2>1, <2>3, <2>6 DEF JobTypes
  <2>8. ex'[j] = "publish" /\ \A k \in Legacy!Jobs \ {j} : ex'[k] = ex[k] /\ result'[k] = result[k]
    BY <1>2, <2>6 DEF JobTypes
  <2>9. StageOK(j)' /\ RecoveryOK(j)'
    BY <1>1, <1>2, <1>5, <2>1, <2>6, <2>8 DEF StageOK, RecoveryOK, Recovers
  <2> QED BY <1>1, <2>1, <2>4, <2>5, <2>6, <2>7, <2>8, <2>9, LockedStep
<1> QED BY <1>4, <1>5 DEF Legacy!VerifyEnds

\* The verified handoff claims what its verification has shown.
LEMMA Publish ==
    ASSUME JobsInv, NEW j \in DOMAIN job, Legacy!Publish(j)
    PROVE  JobsInv'
<1> DEFINE i == job[j].link
           g == Legacy!project_completion(hand, i)
<1>1. /\ ex[j] = "publish" /\ ex[j] \in Legacy!Locked
      /\ vers' = Legacy!_write_outcome(vers, i) /\ Legacy!Exit(j, "verified", g) /\ hand' = g
      /\ UNCHANGED <<job, recs, agreed, worktree, sup, live, booted, passed, edits, faults>>
  BY DEF Legacy!Publish, Legacy!Locked, Legacy!Exit
<1>2. /\ JobTypes /\ HandoffOK /\ GatesOK /\ i \in DOMAIN vers /\ i # 0 /\ hand.verification = i
      /\ hand \in HandoffState /\ vers[i].candidate = hand.candidate
  BY <1>1, Holder DEF JobTypes, HandoffOK
<1>3. /\ g \in HandoffState /\ g.phase = "awaiting_astra_review" /\ g.passed = (vers[i].outcome = "passed")
      /\ g.verification = 0 /\ g.launched = hand.launched /\ g.candidate = hand.candidate
  BY <1>2 DEF HandoffState, Legacy!project_completion
<1>4. /\ vers' \in Seq(VerificationRow) /\ DOMAIN vers' = DOMAIN vers
      /\ \A m \in DOMAIN vers : vers'[m].candidate = vers[m].candidate /\ vers'[m].outcome = vers[m].outcome
  BY <1>1, <1>2, OutcomeWritten DEF JobTypes
<1> HIDE DEF g
<1>5. HandoffOK' /\ GatesOK'
  BY <1>1, <1>2, <1>3, <1>4 DEF HandoffOK, GatesOK
<1>6. live' \in [Legacy!Jobs -> BOOLEAN] /\ worktree' \in Contents /\ passed' \subseteq Contents
  BY <1>1, <1>2 DEF JobTypes
<1> QED BY <1>1, <1>3, <1>4, <1>5, <1>6, LockedExits DEF Endings

-----------------------------------------------------------------------------
(***************************************************************************)
(* Termination and death of the executor.                                  *)
(***************************************************************************)
LEMMA HandoffKept ==
    ASSUME JobTypes, HandoffOK, GatesOK, hand' = hand, passed' = passed, DOMAIN recs' = DOMAIN recs,
           \/ vers' = vers
           \/ \E i \in DOMAIN vers : vers' = Legacy!_write_outcome(vers, i)
    PROVE  HandoffOK' /\ GatesOK' /\ vers' \in Seq(VerificationRow) /\ DOMAIN vers' = DOMAIN vers
<1>1. /\ vers' \in Seq(VerificationRow) /\ DOMAIN vers' = DOMAIN vers
      /\ \A m \in DOMAIN vers : vers'[m].candidate = vers[m].candidate /\ vers'[m].outcome = vers[m].outcome
  <2>1. CASE vers' = vers
    BY <2>1 DEF JobTypes
  <2>2. ASSUME NEW i \in DOMAIN vers, vers' = Legacy!_write_outcome(vers, i)
        PROVE  /\ vers' \in Seq(VerificationRow) /\ DOMAIN vers' = DOMAIN vers
               /\ \A m \in DOMAIN vers :
                     vers'[m].candidate = vers[m].candidate /\ vers'[m].outcome = vers[m].outcome
    BY <2>2, OutcomeWritten DEF JobTypes
  <2> QED BY <2>1, <2>2
<1>2. HandoffOK'
  BY <1>1 DEF HandoffOK
<1>3. GatesOK'
  BY <1>1, GatesKept
<1> QED BY <1>1, <1>2, <1>3

\* Whatever stage the supervisor's signal meets, the launches stay truly counted.
LEMMA HandleTermination ==
    ASSUME JobsInv, NEW j \in DOMAIN job, Legacy!handle_termination(j)
    PROVE  JobsInv'
<1> DEFINE i == job[j].link
<1>1. /\ recs' = IF i # 0 /\ job[j].kind = "implementation" /\ live'[j] /\ ~live[j]
                 THEN [recs EXCEPT ![i].launches = @ + 1] ELSE recs
      /\ UNCHANGED <<job, agreed, worktree, sup, passed, edits, faults>>
  BY DEF Legacy!handle_termination
<1>2. JobTypes /\ HandoffOK /\ GatesOK /\ j \in Legacy!Jobs /\ hand \in HandoffState
  BY InJobs DEF JobsInv, JobTypes
<1>3. UNCHANGED live \/ Legacy!Reaped(j) => recs' = recs
  BY <1>1, <1>2 DEF Legacy!Reaped, JobTypes
<1>4. ASSUME ex[j] = "start", NEW kind \in {"uncertain", "refused"}, Legacy!Exit(j, kind, hand), UNCHANGED <<live, vers>>
      PROVE  JobsInv'
  BY <1>1, <1>2, <1>3, <1>4, ExitsAtStart
<1>5. CASE ex[j] = "launch" /\ Legacy!NotLaunched(j) /\ UNCHANGED <<live, vers>>
  BY <1>1, <1>3, <1>5, NotLaunched
<1>6. ASSUME ex[j] = "launch", NEW kind \in {"uncertain", "refused"}, Legacy!Exit(j, kind, hand), UNCHANGED <<live, vers>>
      PROVE  JobsInv'
  <2>1. HandoffOK' /\ GatesOK' /\ hand' = hand
    BY <1>1, <1>2, <1>3, <1>6, HandoffKept DEF Legacy!Exit
  <2>2. /\ live' \in [Legacy!Jobs -> BOOLEAN] /\ worktree' \in Contents /\ passed' \subseteq Contents
        /\ vers' \in Seq(VerificationRow) /\ DOMAIN vers \subseteq DOMAIN vers'
    BY <1>1, <1>2, <1>6 DEF JobTypes
  <2>3. UNCHANGED <<job, sup, agreed>> /\ recs' = recs /\ ex[j] \in Legacy!Locked
    BY <1>1, <1>3, <1>6 DEF Legacy!Locked
  <2> QED BY <1>2, <1>6, <2>1, <2>2, <2>3, LockedExits DEF Endings
<1>7. ASSUME ex[j] \in {"launch", "child", "gates"}, Legacy!Exit(j, "blocked", Legacy!Blocked(hand, None)), UNCHANGED vers,
             \/ ex[j] = "launch" /\ live' \in {live, [live EXCEPT ![j] = TRUE]}
             \/ Legacy!Reaped(j)
      PROVE  JobsInv'
  <2> DEFINE g == Legacy!Blocked(hand, None)
  <2>1. ex[j] \in Legacy!Locked /\ hand.verification = 0
    BY <1>7, Holder DEF Legacy!Locked
  <2>2. g \in HandoffState /\ g.phase = "blocked" /\ g.verification = 0 /\ g.launched = hand.launched
    BY <1>2, <2>1 DEF HandoffState, Legacy!Blocked
  <2>3. hand' = g
    BY <1>7 DEF Legacy!Exit
  <2> HIDE DEF g
  <2>4. HandoffOK' /\ GatesOK'
    BY <1>1, <1>2, <1>7, <2>2, <2>3, NothingClaimed DEF GatesOK
  <2>5. /\ live' \in [Legacy!Jobs -> BOOLEAN] /\ worktree' \in Contents /\ passed' \subseteq Contents
        /\ vers' \in Seq(VerificationRow) /\ DOMAIN vers \subseteq DOMAIN vers'
    BY <1>1, <1>2, <1>7 DEF JobTypes, Legacy!Reaped
  <2>6. recs' = recs \/ /\ Recovers(j) /\ ex[j] = "launch"
                        /\ recs' = [recs EXCEPT ![job[j].link].launches = @ + 1]
    BY <1>1, <1>3, <1>7 DEF Recovers
  <2>7. UNCHANGED <<job, sup, agreed>>
    BY <1>1
  <2>8. Legacy!Exit(j, "blocked", g)
    BY <1>7 DEF g
  <2> QED BY <2>1, <2>2, <2>4, <2>5, <2>6, <2>7, <2>8, LockedExits DEF Endings
<1>8. CASE ex[j] = "verify" /\ Legacy!Interrupt(j, i) /\ Legacy!Reaped(j)
  <2>1. live' \in [Legacy!Jobs -> BOOLEAN]
    BY <1>2, <1>8 DEF JobTypes, Legacy!Reaped
  <2> QED BY <1>1, <1>3, <1>8, <2>1, Interrupt
<1>9. ASSUME ex[j] = "publish", Legacy!Exit(j, "unsettled", hand), vers' \in {vers, Legacy!_write_outcome(vers, i)},
             UNCHANGED live
      PROVE  JobsInv'
  <2>1. ex[j] \in Legacy!Locked /\ i \in DOMAIN vers
    BY <1>9, Holder DEF Legacy!Locked
  <2>2. /\ HandoffOK' /\ GatesOK' /\ hand' = hand /\ recs' = recs
        /\ vers' \in Seq(VerificationRow) /\ DOMAIN vers' = DOMAIN vers
    BY <1>1, <1>2, <1>3, <1>9, <2>1, HandoffKept DEF Legacy!Exit
  <2>3. live' \in [Legacy!Jobs -> BOOLEAN] /\ worktree' \in Contents /\ passed' \subseteq Contents
    BY <1>1, <1>2, <1>9 DEF JobTypes
  <2> QED BY <1>1, <1>2, <1>9, <2>1, <2>2, <2>3, LockedExits DEF Endings
<1> QED BY <1>4, <1>5, <1>6, <1>7, <1>8, <1>9 DEF Legacy!handle_termination

\* An executor dies where it is; an outcome may have been written down by then.
LEMMA ExecutorDies ==
    ASSUME JobsInv, NEW j \in DOMAIN job, Legacy!ExecutorDies(j)
    PROVE  JobsInv'
<1>1. /\ ex[j] \in Legacy!Alive /\ ex' = [ex EXCEPT ![j] = "dead"]
      /\ vers' \in {vers} \cup IF ex[j] = "publish" THEN {Legacy!_write_outcome(vers, job[j].link)} ELSE {}
      /\ UNCHANGED <<job, recs, hand, agreed, worktree, sup, live, result, booted, passed, edits>>
  BY DEF Legacy!ExecutorDies
<1>2. JobTypes /\ HandoffOK /\ GatesOK /\ StageOK(j) /\ RecoveryOK(j) /\ j \in Legacy!Jobs
  BY InJobs DEF JobsInv
<1>3. ex[j] = "publish" => job[j].link \in DOMAIN vers
  BY <1>2, Holder DEF Legacy!Locked
<1>4. HandoffOK' /\ GatesOK' /\ vers' \in Seq(VerificationRow) /\ DOMAIN vers' = DOMAIN vers
  BY <1>1, <1>2, <1>3, HandoffKept
<1>5. JobTypes'
  BY <1>1, <1>2, <1>4 DEF JobTypes
<1>6. /\ ex'[j] = "dead" /\ \A k \in Legacy!Jobs \ {j} : ex'[k] = ex[k]
      /\ ex'[j] \notin Legacy!Locked
  BY <1>1, <1>2 DEF JobTypes, Legacy!Locked
<1>7. UNCHANGED <<job, recs, hand, sup, result>>
  BY <1>1
<1>8. sup[j] # "spawned" /\ ex[j] \in {"start", "launch", "child", "gates", "verify", "publish"}
  BY <1>1, <1>2 DEF StageOK, Legacy!Alive, Legacy!Locked
<1>9. StageOK(j)' /\ RecoveryOK(j)'
  BY <1>2, <1>4, <1>6, <1>7, <1>8 DEF StageOK, RecoveryOK, Recovers
<1> QED BY <1>4, <1>5, <1>6, <1>7, <1>9, ExecutorStep

-----------------------------------------------------------------------------
(***************************************************************************)
(* The service.                                                            *)
(***************************************************************************)
\* A step that does not concern job k: see Kept.
Untouched(k) ==
    /\ sup'[k] = sup[k] /\ ex'[k] = ex[k] /\ result'[k] = result[k]
    /\ k \in DOMAIN job' <=> k \in DOMAIN job
    /\ k \in DOMAIN job => /\ job'[k].kind = job[k].kind /\ job'[k].link = job[k].link
                           /\ Recovers(k) => /\ job[k].link \in DOMAIN recs'
                                             /\ recs'[job[k].link] = recs[job[k].link]
    /\ \/ hand' = hand
       \/ /\ ex[k] \notin Legacy!Locked
          /\ \/ hand.phase # "recovery_prepared"
             \/ ~(k \in DOMAIN job /\ Recovers(k) /\ hand.recovery = job[k].link)
             \/ recs[job[k].link].status # "dispatched"

\* A step that leaves some jobs untouched and accounts for the others.
LEMMA AnyStep ==
    ASSUME JobsInv, JobTypes', OneLocked', HandoffOK', GatesOK', Legacy!LaunchTruthful',
           DOMAIN vers \subseteq DOMAIN vers',
           \A k \in Legacy!Jobs : Untouched(k) \/ (StageOK(k)' /\ RecoveryOK(k)')
    PROVE  JobsInv'
<1>1. ASSUME NEW k \in Legacy!Jobs PROVE StageOK(k)' /\ RecoveryOK(k)'
  BY <1>1, Kept DEF Untouched
<1> QED BY <1>1 DEF JobsInv, Legacy!Jobs

\* A refresh changes nothing but statuses.
LEMMA Refreshed ==
    ASSUME JobTypes
    PROVE  /\ Legacy!_refresh \in Seq(JobRow) /\ Len(Legacy!_refresh) = Len(job)
           /\ DOMAIN Legacy!_refresh = DOMAIN job
           /\ \A k \in DOMAIN job :
                 /\ Legacy!_refresh[k].kind = job[k].kind
                 /\ Legacy!_refresh[k].link = job[k].link
<1> DEFINE new(k) == IF job[k].status \in Legacy!ACTIVE /\ ~Legacy!Leased(k)
                     THEN [job[k] EXCEPT !.status = "uncertain"] ELSE job[k]
<1>1. Legacy!_refresh = [k \in DOMAIN job |-> new(k)]
  BY DEF Legacy!_refresh
<1>2. ASSUME NEW k \in DOMAIN job
      PROVE  new(k) \in JobRow /\ new(k).kind = job[k].kind /\ new(k).link = job[k].link
  <2>1. job[k] \in JobRow
    BY DEF JobTypes
  <2> QED BY <2>1 DEF JobRow
<1> HIDE DEF new
<1>3. Len(job) \in Nat /\ DOMAIN job = 1 .. Len(job)
  BY DEF JobTypes
<1>4. DOMAIN Legacy!_refresh = DOMAIN job /\ \A k \in DOMAIN job : Legacy!_refresh[k] = new(k)
  BY <1>1
<1>5. Legacy!_refresh \in Seq(JobRow) /\ Len(Legacy!_refresh) = Len(job)
  BY <1>1, <1>2, <1>3
<1> QED BY <1>2, <1>4, <1>5

\* Rows and processes stay as they are; the handoff may move while nobody holds it.
LEMMA QuietStep ==
    ASSUME JobsInv, UNCHANGED <<recs, vers, sup, ex, result, passed>>,
           job' \in Seq(JobRow), Len(job') = Len(job),
           \A k \in DOMAIN job : job'[k].kind = job[k].kind /\ job'[k].link = job[k].link,
           hand' \in HandoffState, HandoffOK',
           hand' = hand \/ (Legacy!LockFree /\ hand.phase # "recovery_prepared"),
           agreed' \in BOOLEAN, worktree' \in Contents, live' \in [Legacy!Jobs -> BOOLEAN]
    PROVE  JobsInv'
<1>1. JobTypes /\ OneLocked /\ GatesOK /\ Legacy!LaunchTruthful
  BY DEF JobsInv
<1>2. JobTypes'
  BY <1>1 DEF JobTypes
<1>3. OneLocked' /\ GatesOK'
  BY <1>1 DEF OneLocked, GatesOK, Legacy!Locked, Legacy!Jobs
<1>4. Legacy!LaunchTruthful'
  BY <1>1 DEF Legacy!LaunchTruthful
<1>5. DOMAIN job' = DOMAIN job
  BY <1>1 DEF JobTypes
<1>6. ASSUME NEW k \in Legacy!Jobs PROVE Untouched(k)
  <2>1. k \in DOMAIN job /\ Recovers(k) => job[k].link \in DOMAIN recs
    BY DEF JobsInv, RecoveryOK
  <2> QED BY <1>5, <2>1 DEF Untouched, Legacy!LockFree
<1> QED BY <1>2, <1>3, <1>4, <1>6, AnyStep

\* The steps that touch neither rows nor processes of a job.
LEMMA QuietSteps ==
    ASSUME JobsInv,
           \/ Legacy!room_spec_put
           \/ \E j \in DOMAIN job : Legacy!room_job_cancel(j)
           \/ \E content \in Contents : Legacy!Edit(content)
           \/ \E j \in DOMAIN job, content \in Contents : Legacy!OrphanEnds(j, content)
    PROVE  JobsInv'
<1>1. JobTypes /\ HandoffOK
  BY DEF JobsInv
<1>2. /\ Legacy!_refresh \in Seq(JobRow) /\ Len(Legacy!_refresh) = Len(job)
      /\ DOMAIN Legacy!_refresh = DOMAIN job
      /\ \A k \in DOMAIN job :
            /\ Legacy!_refresh[k].kind = job[k].kind
            /\ Legacy!_refresh[k].link = job[k].link
  BY <1>1, Refreshed
<1>3. ASSUME UNCHANGED <<recs, vers, hand, passed>> PROVE HandoffOK' /\ hand' \in HandoffState
  BY <1>1, <1>3 DEF HandoffOK, JobTypes
<1>4. /\ hand \in HandoffState /\ agreed \in BOOLEAN /\ worktree \in Contents /\ job \in Seq(JobRow)
      /\ live \in [Legacy!Jobs -> BOOLEAN]
  BY <1>1 DEF JobTypes
<1>5. CASE Legacy!room_spec_put
  <2>1. /\ job' = Legacy!_refresh /\ agreed' = FALSE
        /\ UNCHANGED <<recs, vers, hand, worktree, sup, ex, live, result, passed>>
    BY <1>5 DEF Legacy!room_spec_put, Legacy!processes
  <2> QED BY <1>2, <1>3, <1>4, <2>1, QuietStep
<1>6. ASSUME NEW j \in DOMAIN job, Legacy!room_job_cancel(j) PROVE JobsInv'
  <2>1. /\ job' = [Legacy!_refresh EXCEPT ![j].cancel = TRUE]
        /\ UNCHANGED <<recs, vers, hand, agreed, worktree, sup, ex, live, result, passed>>
    BY <1>6 DEF Legacy!room_job_cancel, Legacy!processes
  <2> DEFINE old == Legacy!_refresh
             new == [old[j] EXCEPT !.cancel = TRUE]
  <2>2. old[j] \in JobRow
    BY <1>2
  <2>3. new \in JobRow /\ new.kind = old[j].kind /\ new.link = old[j].link
    BY <2>2 DEF JobRow
  <2>4. job' = [old EXCEPT ![j] = new]
    BY <2>1
  <2>5. old \in Seq(JobRow) /\ Len(old) = Len(job) /\ j \in DOMAIN old
        /\ \A k \in DOMAIN job : old[k].kind = job[k].kind /\ old[k].link = job[k].link
        /\ DOMAIN old = DOMAIN job
    BY <1>2
  <2> HIDE DEF old, new
  <2>6. job' \in Seq(JobRow) /\ Len(job') = Len(job)
        /\ \A k \in DOMAIN job : job'[k].kind = job[k].kind /\ job'[k].link = job[k].link
    BY <2>3, <2>4, <2>5
  <2> QED BY <1>3, <1>4, <2>1, <2>6, QuietStep
<1>7. ASSUME NEW content \in Contents, Legacy!Edit(content) PROVE JobsInv'
  <2>1. /\ worktree' = content
        /\ UNCHANGED <<job, recs, vers, hand, agreed, sup, ex, live, result, passed>>
    BY <1>7 DEF Legacy!Edit, Legacy!processes
  <2> QED BY <1>3, <1>4, <2>1, QuietStep
<1>8. ASSUME NEW j \in DOMAIN job, NEW content \in Contents, Legacy!OrphanEnds(j, content) PROVE JobsInv'
  <2>1. /\ worktree' = content /\ live' = [live EXCEPT ![j] = FALSE]
        /\ UNCHANGED <<job, recs, vers, hand, agreed, sup, ex, result, passed>>
    BY <1>8 DEF Legacy!OrphanEnds
  <2>2. live' \in [Legacy!Jobs -> BOOLEAN]
    BY <1>4, <2>1
  <2> QED BY <1>3, <1>4, <2>1, <2>2, QuietStep
<1> QED BY <1>5, <1>6, <1>7, <1>8

\* Astra's review and her request for changes move the handoff of an idle room.
LEMMA Reviews ==
    ASSUME JobsInv,
           \/ \E ok \in BOOLEAN : Legacy!room_implementation_review(ok)
           \/ Legacy!room_implementation_revise
    PROVE  JobsInv'
<1>1. JobTypes /\ HandoffOK /\ hand \in HandoffState
  BY DEF JobsInv, JobTypes
<1>2. PICK g : /\ Legacy!Reviewed(g) /\ Legacy!LockFree
               /\ \/ /\ hand.phase = "awaiting_astra_review" /\ hand.passed
                     /\ g = [hand EXCEPT !.phase = "accepted"]
                  \/ /\ hand.phase \in {"awaiting_astra_review", "changes_required"}
                     /\ g = [hand EXCEPT !.phase = "changes_required"]
                         \/ g = [hand EXCEPT !.phase = "correction_pending"]
  <2>1. CASE Legacy!room_implementation_revise
    BY <2>1 DEF Legacy!room_implementation_revise, Legacy!request_changes
  <2>2. ASSUME NEW ok \in BOOLEAN, Legacy!room_implementation_review(ok)
        PROVE  \E g : /\ Legacy!Reviewed(g) /\ Legacy!LockFree
                      /\ \/ /\ hand.phase = "awaiting_astra_review" /\ hand.passed
                            /\ g = [hand EXCEPT !.phase = "accepted"]
                         \/ /\ hand.phase \in {"awaiting_astra_review", "changes_required"}
                            /\ g = [hand EXCEPT !.phase = "changes_required"]
                                \/ g = [hand EXCEPT !.phase = "correction_pending"]
    BY <2>2 DEF Legacy!room_implementation_review
  <2> QED BY <2>1, <2>2
<1>3. /\ job' = Legacy!_refresh /\ hand' = g
      /\ UNCHANGED <<recs, vers, agreed, worktree, sup, ex, live, result, passed>>
  BY <1>2 DEF Legacy!Reviewed, Legacy!processes
<1>4. /\ g \in HandoffState /\ g.verification = hand.verification /\ g.candidate = hand.candidate
      /\ g.passed = hand.passed /\ g.phase \in {"accepted", "changes_required", "correction_pending"}
      /\ g.phase = "accepted" => hand.phase = "awaiting_astra_review" /\ hand.passed
      /\ hand.phase \in {"awaiting_astra_review", "changes_required"}
  BY <1>1, <1>2 DEF HandoffState
<1>5. HandoffOK'
  BY <1>1, <1>3, <1>4 DEF HandoffOK
<1>6. /\ Legacy!_refresh \in Seq(JobRow) /\ Len(Legacy!_refresh) = Len(job)
      /\ \A k \in DOMAIN job :
            /\ Legacy!_refresh[k].kind = job[k].kind
            /\ Legacy!_refresh[k].link = job[k].link
  BY <1>1, Refreshed
<1>7. agreed' \in BOOLEAN /\ worktree' \in Contents /\ live' \in [Legacy!Jobs -> BOOLEAN]
  BY <1>1, <1>3 DEF JobTypes
<1> QED BY <1>2, <1>3, <1>4, <1>5, <1>6, <1>7, QuietStep

-----------------------------------------------------------------------------
(***************************************************************************)
(* Supervisors.                                                            *)
(***************************************************************************)
LEMMA Deaths ==
    ASSUME JobsInv, (\E j \in DOMAIN job : Legacy!SupervisorDies(j)) \/ Legacy!Reboot
    PROVE  JobsInv'
<1>1. JobTypes /\ OneLocked /\ HandoffOK /\ GatesOK /\ Legacy!LaunchTruthful
  BY DEF JobsInv
<1>2. UNCHANGED <<job, recs, vers, hand, agreed, worktree, result, passed>>
  BY DEF Legacy!SupervisorDies, Legacy!Reboot
<1>3. /\ sup' \in [Legacy!Jobs -> {"none", "spawned", "running", "gone"}]
      /\ \A k \in Legacy!Jobs : sup'[k] = sup[k] \/ (sup'[k] = "gone" /\ Legacy!Leased(k))
  BY <1>1 DEF Legacy!SupervisorDies, Legacy!Reboot, JobTypes
<1>4. /\ ex' \in [Legacy!Jobs -> {"none", "start", "launch", "child", "gates", "verify", "publish",
                                "exit", "dead"}]
      /\ \A k \in Legacy!Jobs : ex'[k] = ex[k] \/ (ex'[k] = "dead" /\ ex[k] \in Legacy!Alive)
      /\ live' \in [Legacy!Jobs -> BOOLEAN]
  BY <1>1 DEF Legacy!SupervisorDies, Legacy!Reboot, JobTypes
<1>5. JobTypes'
  BY <1>1, <1>2, <1>3, <1>4 DEF JobTypes
<1>6. OneLocked'
  BY <1>1, <1>4 DEF OneLocked, Legacy!Locked, Legacy!Jobs
<1>7. HandoffOK' /\ GatesOK'
  BY <1>1, <1>2 DEF HandoffOK, GatesOK
<1>8. Legacy!LaunchTruthful'
  BY <1>1, <1>2 DEF Legacy!LaunchTruthful
<1>9. ASSUME NEW k \in Legacy!Jobs PROVE StageOK(k)' /\ RecoveryOK(k)'
  <2>1. StageOK(k) /\ RecoveryOK(k)
    BY DEF JobsInv
  <2>2. ex'[k] = ex[k] \/ (ex'[k] = "dead" /\ ex[k] \in Legacy!Alive)
    BY <1>4
  <2>3. sup'[k] = sup[k] \/ (sup'[k] = "gone" /\ sup[k] \in {"spawned", "running"})
    BY <1>3 DEF Legacy!Leased
  <2>4. StageOK(k)'
    BY <1>2, <2>1, <2>2, <2>3 DEF StageOK, Legacy!Alive, Legacy!Locked
  <2>5. RecoveryOK(k)'
    BY <1>2, <2>1, <2>2, <2>3 DEF RecoveryOK, Recovers, Legacy!Alive, Legacy!Locked
  <2> QED BY <2>4, <2>5
<1> QED BY <1>2, <1>5, <1>6, <1>7, <1>8, <1>9, AnyStep

\* A row gets another status.
LEMMA StatusOnly ==
    ASSUME JobTypes, NEW i \in DOMAIN vers, 
           NEW status \in {"unregistered", "dispatched", "consumed", "invalidated", "interrupted"}
    PROVE  vers' = [vers EXCEPT ![i].status = status] =>
              /\ vers' \in Seq(VerificationRow) /\ DOMAIN vers' = DOMAIN vers
              /\ \A m \in DOMAIN vers :
                    vers'[m].candidate = vers[m].candidate /\ vers'[m].outcome = vers[m].outcome
<1> DEFINE new == [vers[i] EXCEPT !.status = status]
<1>1. vers \in Seq(VerificationRow) /\ vers[i] \in VerificationRow
  BY DEF JobTypes
<1>2. new \in VerificationRow /\ new.candidate = vers[i].candidate /\ new.outcome = vers[i].outcome
  BY <1>1 DEF VerificationRow
<1>3. ASSUME vers' = [vers EXCEPT ![i].status = status] PROVE vers' = [vers EXCEPT ![i] = new]
  BY <1>1, <1>3
<1> HIDE DEF new
<1>4. ASSUME vers' = [vers EXCEPT ![i] = new]
      PROVE  /\ vers' \in Seq(VerificationRow) /\ DOMAIN vers' = DOMAIN vers
             /\ \A m \in DOMAIN vers :
                   vers'[m].candidate = vers[m].candidate /\ vers'[m].outcome = vers[m].outcome
  BY <1>1, <1>2, <1>4
<1> QED BY <1>3, <1>4

\* A row is settled.
LEMMA SettledOnly ==
    ASSUME JobTypes, NEW i \in DOMAIN vers, NEW reconciled \in BOOLEAN,
           NEW status \in {"unregistered", "dispatched", "consumed", "invalidated", "interrupted"}
    PROVE  vers' = [vers EXCEPT ![i].status = status, ![i].reconciled = reconciled] =>
              /\ vers' \in Seq(VerificationRow) /\ DOMAIN vers' = DOMAIN vers
              /\ \A m \in DOMAIN vers :
                    vers'[m].candidate = vers[m].candidate /\ vers'[m].outcome = vers[m].outcome
<1> DEFINE new == [vers[i] EXCEPT !.status = status, !.reconciled = reconciled]
<1>1. vers \in Seq(VerificationRow) /\ vers[i] \in VerificationRow
  BY DEF JobTypes
<1>2. new \in VerificationRow /\ new.candidate = vers[i].candidate /\ new.outcome = vers[i].outcome
  BY <1>1 DEF VerificationRow
<1>3. ASSUME vers' = [vers EXCEPT ![i].status = status, ![i].reconciled = reconciled] PROVE vers' = [vers EXCEPT ![i] = new]
  BY <1>1, <1>3
<1> HIDE DEF new
<1>4. ASSUME vers' = [vers EXCEPT ![i] = new]
      PROVE  /\ vers' \in Seq(VerificationRow) /\ DOMAIN vers' = DOMAIN vers
             /\ \A m \in DOMAIN vers :
                   vers'[m].candidate = vers[m].candidate /\ vers'[m].outcome = vers[m].outcome
  BY <1>1, <1>2, <1>4
<1> QED BY <1>3, <1>4

\* The handoff that lost its verification, or its recovery.
LEMMA Withdrawn ==
    ASSUME hand \in HandoffState, NEW i \in Nat
    PROVE  /\ Legacy!WithoutVerification(hand, i) = hand
              \/ /\ i # 0 /\ hand.verification = i
                 /\ Legacy!WithoutVerification(hand, i) = [hand EXCEPT !.phase = "blocked", !.verification = 0]
           /\ Legacy!WithoutRecovery(hand, i) = hand
              \/ /\ hand.phase = "recovery_prepared" /\ hand.recovery = i
                 /\ Legacy!WithoutRecovery(hand, i) = [hand EXCEPT !.phase = "blocked", !.recovery = 0]
           /\ Legacy!WithoutVerification(hand, i) \in HandoffState
           /\ Legacy!WithoutRecovery(hand, i) \in HandoffState
BY DEF HandoffState, Legacy!WithoutVerification, Legacy!WithoutRecovery

\* Either leaves nothing behind that HandoffOK asks about.
LEMMA WithdrawnOK ==
    ASSUME HandoffOK, hand \in HandoffState, DOMAIN recs \subseteq DOMAIN recs', passed \subseteq passed',
           DOMAIN vers \subseteq DOMAIN vers',
           \A m \in DOMAIN vers : vers'[m].candidate = vers[m].candidate,
           \/ hand' = hand
           \/ hand' = [hand EXCEPT !.phase = "blocked", !.verification = 0]
           \/ hand' = [hand EXCEPT !.phase = "blocked", !.recovery = 0]
    PROVE  HandoffOK'
<1>1. CASE hand' = hand
  BY <1>1 DEF HandoffOK
<1>2. CASE hand' = [hand EXCEPT !.phase = "blocked", !.verification = 0]
  <2>1. hand'.phase = "blocked" /\ hand'.verification = 0
    BY <1>2 DEF HandoffState
  <2> QED BY <2>1, NothingClaimed
<1>3. CASE hand' = [hand EXCEPT !.phase = "blocked", !.recovery = 0]
  <2>1. /\ hand'.phase = "blocked" /\ hand'.verification = hand.verification
        /\ hand'.candidate = hand.candidate /\ hand'.diag = hand.diag
    BY <1>3 DEF HandoffState
  <2> QED BY <2>1 DEF HandoffOK
<1> QED BY <1>1, <1>2, <1>3

\* The final transaction of a supervisor whose executor has not started, or has ended.
LEMMA Finish ==
    ASSUME JobsInv, NEW j \in DOMAIN job, NEW crash \in BOOLEAN,
           NEW status \in {"cancelled", "succeeded", "failed", "uncertain"},
           Legacy!Finish(j, status, crash), UNCHANGED ex,
           \/ sup[j] = "spawned"
           \/ sup[j] = "running" /\ ex[j] \in {"exit", "dead"} /\ status # "cancelled"
    PROVE  JobsInv'
<1> DEFINE i == job[j].link
           rec == job[j].kind = "implementation" /\ i # 0 /\ recs[i].status = "dispatched" /\ recs[i].succ = j
           ver == job[j].kind = "verification" /\ vers[i].status = "dispatched" /\ vers[i].succ = j
<1>1. /\ JobTypes /\ OneLocked /\ HandoffOK /\ GatesOK /\ Legacy!LaunchTruthful /\ StageOK(j) /\ RecoveryOK(j)
      /\ j \in Legacy!Jobs /\ job[j] \in JobRow /\ hand \in HandoffState
      /\ \A k \in Legacy!Jobs : StageOK(k) /\ RecoveryOK(k)
  BY InJobs DEF JobsInv, JobTypes
<1>2. i \in Nat
  BY <1>1 DEF JobRow
<1>3. /\ job' = [job EXCEPT ![j].status = status]
      /\ sup' = [sup EXCEPT ![j] = "gone"]
      /\ recs' = IF rec THEN [recs EXCEPT ![i].status = Legacy!recovery_linkage(j, status)] ELSE recs
      /\ vers' = IF ver THEN [vers EXCEPT ![i].status = Legacy!verification_linkage(i, j, status)] ELSE vers
      /\ agreed' = (agreed /\ result[j].kind # "scope")
      /\ \/ hand' = hand
         \/ Legacy!LockFree /\ rec /\ hand' = Legacy!WithoutRecovery(hand, i)
         \/ Legacy!LockFree /\ hand' = Legacy!WithoutVerification(hand, i)
      /\ UNCHANGED <<worktree, live, result, passed>>
  BY DEF Legacy!Finish
<1>4. /\ job' \in Seq(JobRow) /\ Len(job') = Len(job) /\ DOMAIN job' = DOMAIN job
      /\ \A k \in DOMAIN job : job'[k].kind = job[k].kind /\ job'[k].link = job[k].link
  <2> DEFINE new == [job[j] EXCEPT !.status = status]
  <2>1. new \in JobRow /\ new.kind = job[j].kind /\ new.link = job[j].link
    BY <1>1 DEF JobRow
  <2>2. job' = [job EXCEPT ![j] = new]
    BY <1>3
  <2> HIDE DEF new
  <2> QED BY <1>1, <2>1, <2>2 DEF JobTypes
<1>5. sup' \in [Legacy!Jobs -> {"none", "spawned", "running", "gone"}]
      /\ sup'[j] = "gone" /\ \A k \in Legacy!Jobs \ {j} : sup'[k] = sup[k]
  BY <1>1, <1>3 DEF JobTypes
<1>6. ASSUME Recovers(j)
      PROVE  /\ i \in DOMAIN recs /\ rec
             /\ Legacy!recovery_linkage(j, status) \in {"consumed", "invalidated", "dispatched"}
             /\ Legacy!recovery_linkage(j, status) = "consumed" => recs[i].launches = 1
             /\ Legacy!recovery_linkage(j, status) = "invalidated" => recs[i].launches = 0
  <2>1. i \in DOMAIN recs /\ recs[i].succ = j /\ recs[i].status = "dispatched" /\ rec
    BY <1>1, <1>6 DEF RecoveryOK, Recovers
  <2>2. CASE sup[j] = "spawned"
    <3>1. ~result[j].launched /\ recs[i].launches = 0
      BY <1>1, <1>6, <2>2 DEF StageOK, RecoveryOK, Legacy!NoResult
    <3> QED BY <2>1, <3>1 DEF Legacy!recovery_linkage
  <2>3. CASE sup[j] = "running" /\ status # "cancelled"
    <3>1. /\ result[j].launched => recs[i].launches = 1
          /\ result[j].kind = "refused" => recs[i].launches = 0
      BY <1>1, <1>6, <2>3 DEF RecoveryOK
    <3> QED BY <2>1, <2>3, <3>1 DEF Legacy!recovery_linkage
  <2> QED BY <2>1, <2>2, <2>3
<1>7. rec => Recovers(j)
  BY DEF Recovers
<1>8. /\ recs' \in Seq(RecoveryRow) /\ DOMAIN recs' = DOMAIN recs
      /\ \A m \in DOMAIN recs : m # i => recs'[m] = recs[m]
      /\ ~Recovers(j) => recs' = recs
      /\ Recovers(j) => /\ recs'[i].succ = j /\ recs'[i].launches = recs[i].launches
                        /\ recs'[i].status = Legacy!recovery_linkage(j, status)
  <2>1. CASE ~Recovers(j)
    BY <1>1, <1>3, <1>7, <2>1 DEF JobTypes
  <2>2. CASE Recovers(j)
    <3> DEFINE new == [recs[i] EXCEPT !.status = Legacy!recovery_linkage(j, status)]
    <3>1. i \in DOMAIN recs /\ recs[i] \in RecoveryRow /\ recs[i].succ = j
      BY <1>1, <1>6, <2>2 DEF JobTypes
    <3>2. /\ new \in RecoveryRow /\ new.succ = recs[i].succ /\ new.launches = recs[i].launches
          /\ new.status = Legacy!recovery_linkage(j, status)
      BY <1>6, <2>2, <3>1 DEF RecoveryRow
    <3>3. recs' = [recs EXCEPT ![i] = new]
      BY <1>3, <1>6, <2>2
    <3> HIDE DEF new
    <3> QED BY <1>1, <2>2, <3>1, <3>2, <3>3 DEF JobTypes
  <2> QED BY <2>1, <2>2
<1>9. /\ vers' \in Seq(VerificationRow) /\ DOMAIN vers' = DOMAIN vers
      /\ \A m \in DOMAIN vers : vers'[m].candidate = vers[m].candidate /\ vers'[m].outcome = vers[m].outcome
  <2>1. CASE ~ver
    BY <1>1, <1>3, <2>1 DEF JobTypes
  <2>2. CASE ver
    <3>1. i \in DOMAIN vers
      BY <1>1, <2>2 DEF StageOK
    <3>2. Legacy!verification_linkage(i, j, status) \in {"consumed", "dispatched", "invalidated", "interrupted"}
      BY DEF Legacy!verification_linkage
    <3>3. vers' = [vers EXCEPT ![i].status = Legacy!verification_linkage(i, j, status)]
      BY <1>3, <2>2
    <3> DEFINE row == Legacy!verification_linkage(i, j, status)
    <3>4. row \in {"unregistered", "dispatched", "consumed", "invalidated", "interrupted"}
      BY <3>2
    <3>5. vers' = [vers EXCEPT ![i].status = row]
      BY <3>3
    <3> HIDE DEF row
    <3> QED BY <1>1, <3>1, <3>4, <3>5, StatusOnly
  <2> QED BY <2>1, <2>2
<1> HIDE DEF i, rec, ver
<1>10. /\ hand' \in HandoffState
       /\ \/ hand' = hand
          \/ hand' = [hand EXCEPT !.phase = "blocked", !.verification = 0]
             /\ Legacy!LockFree /\ hand.verification # 0
          \/ hand' = [hand EXCEPT !.phase = "blocked", !.recovery = 0]
             /\ Legacy!LockFree /\ hand.phase = "recovery_prepared" /\ hand.recovery = i /\ Recovers(j)
  BY <1>1, <1>2, <1>3, <1>7, Withdrawn
<1>11. JobTypes'
  BY <1>1, <1>3, <1>4, <1>5, <1>8, <1>9, <1>10 DEF JobTypes
<1>12. OneLocked'
  BY <1>1 DEF OneLocked, Legacy!Locked, Legacy!Jobs
<1>13. HandoffOK' /\ GatesOK'
  <2>1. HandoffOK'
    BY <1>1, <1>3, <1>8, <1>9, <1>10, WithdrawnOK
  <2> QED BY <1>1, <1>3, <1>9, <2>1, GatesKept
<1>14. Legacy!LaunchTruthful'
  <2>1. ASSUME NEW m \in DOMAIN recs'
        PROVE  /\ recs'[m].launches <= 1
               /\ recs'[m].status = "consumed" => recs'[m].launches = 1
               /\ recs'[m].status \in {"invalidated", "unregistered", "prepared"} => recs'[m].launches = 0
    <3>1. /\ m \in DOMAIN recs /\ recs[m].launches <= 1
          /\ recs[m].status = "consumed" => recs[m].launches = 1
          /\ recs[m].status \in {"invalidated", "unregistered", "prepared"} => recs[m].launches = 0
      BY <1>1, <1>8, <2>1 DEF Legacy!LaunchTruthful
    <3>2. CASE Recovers(j) /\ m = i
      BY <1>6, <1>8, <3>1, <3>2
    <3>3. CASE ~(Recovers(j) /\ m = i)
      BY <1>8, <3>1, <3>3
    <3> QED BY <3>2, <3>3
  <2> QED BY <2>1 DEF Legacy!LaunchTruthful
<1>15. StageOK(j)'
  BY <1>1, <1>3, <1>4, <1>5, <1>9, <1>10 DEF StageOK
<1>16. RecoveryOK(j)'
  <2>1. ex[j] \in {"none", "exit", "dead"} /\ ex' = ex /\ result' = result
    BY <1>1, <1>3 DEF StageOK
  <2>2. Recovers(j)' <=> Recovers(j)
    BY <1>4 DEF Recovers
  <2>3. ASSUME Recovers(j)
        PROVE  /\ i \in DOMAIN recs' /\ recs'[i].succ = j
               /\ recs'[i].status \in {"dispatched", "consumed", "invalidated"}
               /\ ex[j] = "none" => recs'[i].launches = 0
               /\ result[j].kind = "refused" => recs'[i].launches = 0
    BY <1>1, <1>6, <1>8, <2>3 DEF RecoveryOK, i
  <2>4. job'[j].link = i
    BY <1>4 DEF i
  <2> QED BY <1>5, <2>1, <2>2, <2>3, <2>4 DEF RecoveryOK
<1>17. ASSUME NEW k \in Legacy!Jobs, k # j PROVE Untouched(k)
  <2>1. ASSUME k \in DOMAIN job, Recovers(k)
        PROVE  job[k].link \in DOMAIN recs' /\ recs'[job[k].link] = recs[job[k].link]
               /\ ~(hand.recovery = job[k].link /\ hand.recovery = i /\ Recovers(j))
    <3>1. job[k].link \in DOMAIN recs /\ recs[job[k].link].succ = k
      BY <1>1, <1>17, <2>1 DEF RecoveryOK
    <3>2. Recovers(j) => i \in DOMAIN recs /\ recs[i].succ = j
      BY <1>1 DEF RecoveryOK, i
    <3> QED BY <1>8, <1>17, <3>1, <3>2
  <2>2. \/ hand' = hand
        \/ /\ ex[k] \notin Legacy!Locked
           /\ hand.phase # "recovery_prepared" \/ (hand.recovery = i /\ Recovers(j))
    BY <1>1, <1>10 DEF Legacy!LockFree, HandoffOK
  <2>3. ex'[k] = ex[k] /\ result'[k] = result[k] /\ sup'[k] = sup[k] /\ DOMAIN job' = DOMAIN job
    BY <1>3, <1>5, <1>17
  <2> QED BY <1>4, <2>1, <2>2, <2>3 DEF Untouched
<1> QED BY <1>9, <1>11, <1>12, <1>13, <1>14, <1>15, <1>16, <1>17, AnyStep

\* A supervisor starts its executor, or records how it ended.
LEMMA Supervise ==
    ASSUME JobsInv, NEW j \in DOMAIN job,
           Legacy!worker_start(j) \/ \E crash \in BOOLEAN : Legacy!worker_finish(j, crash)
    PROVE  JobsInv'
<1>1. /\ JobTypes /\ OneLocked /\ HandoffOK /\ GatesOK /\ Legacy!LaunchTruthful /\ StageOK(j) /\ RecoveryOK(j)
      /\ j \in Legacy!Jobs /\ job[j] \in JobRow
  BY InJobs DEF JobsInv
<1>2. ASSUME NEW crash \in BOOLEAN, Legacy!worker_finish(j, crash) PROVE JobsInv'
  <2>1. PICK status \in {"succeeded", "failed", "uncertain"} : Legacy!Finish(j, status, crash)
    BY <1>2 DEF Legacy!worker_finish
  <2>2. sup[j] = "running" /\ ex[j] \in {"exit", "dead"} /\ UNCHANGED ex
    BY <1>2 DEF Legacy!worker_finish
  <2> QED BY <2>1, <2>2, Finish
<1>3. CASE Legacy!worker_start(j) /\ job[j].cancel
  BY <1>3, Finish DEF Legacy!worker_start
<1>4. CASE Legacy!worker_start(j) /\ ~job[j].cancel
  <2>1. /\ sup[j] = "spawned" /\ ex[j] = "none"
        /\ job' = [job EXCEPT ![j].status = "running"]
        /\ sup' = [sup EXCEPT ![j] = "running"] /\ ex' = [ex EXCEPT ![j] = "start"]
        /\ UNCHANGED <<recs, vers, hand, agreed, worktree, live, result, passed>>
    BY <1>1, <1>4 DEF Legacy!worker_start, StageOK
  <2>2. /\ job' \in Seq(JobRow) /\ Len(job') = Len(job) /\ DOMAIN job' = DOMAIN job
        /\ \A k \in DOMAIN job : job'[k].kind = job[k].kind /\ job'[k].link = job[k].link
    <3> DEFINE new == [job[j] EXCEPT !.status = "running"]
    <3>1. new \in JobRow /\ new.kind = job[j].kind /\ new.link = job[j].link
      BY <1>1 DEF JobRow
    <3>2. job' = [job EXCEPT ![j] = new]
      BY <2>1
    <3> HIDE DEF new
    <3> QED BY <1>1, <3>1, <3>2 DEF JobTypes
  <2>3. /\ sup'[j] = "running" /\ ex'[j] = "start"
        /\ \A k \in Legacy!Jobs \ {j} : sup'[k] = sup[k] /\ ex'[k] = ex[k]
    BY <1>1, <2>1 DEF JobTypes
  <2>4. JobTypes'
    BY <1>1, <2>1, <2>2 DEF JobTypes
  <2>5. OneLocked'
    <3>1. \A k \in Legacy!Jobs : ex'[k] \in Legacy!Locked => ex[k] \in Legacy!Locked
      BY <2>3 DEF Legacy!Locked
    <3> QED BY <1>1, <3>1 DEF OneLocked, Legacy!Locked, Legacy!Jobs
  <2>6. HandoffOK' /\ GatesOK'
    BY <1>1, <2>1 DEF HandoffOK, GatesOK
  <2>7. Legacy!LaunchTruthful'
    BY <1>1, <2>1 DEF Legacy!LaunchTruthful
  <2>8. StageOK(j)'
    BY <1>1, <2>1, <2>2, <2>3 DEF StageOK
  <2>9. RecoveryOK(j)'
    <3>1. result[j] = Legacy!NoResult /\ UNCHANGED <<recs, hand, result>> /\ job'[j].kind = job[j].kind /\ job'[j].link = job[j].link
      BY <1>1, <2>1, <2>2 DEF StageOK
    <3>2. result[j].launched = FALSE
      BY <3>1 DEF Legacy!NoResult
    <3> QED BY <1>1, <2>1, <2>3, <3>1, <3>2 DEF RecoveryOK, Recovers
  <2>10. ASSUME NEW k \in Legacy!Jobs, k # j PROVE Untouched(k)
    <3>1. k \in DOMAIN job /\ Recovers(k) => job[k].link \in DOMAIN recs
      BY DEF JobsInv, RecoveryOK
    <3>2. UNCHANGED <<recs, hand, result>>
      BY <2>1
    <3> QED BY <2>2, <2>3, <2>10, <3>1, <3>2 DEF Untouched
  <2> QED BY <2>1, <2>4, <2>5, <2>6, <2>7, <2>8, <2>9, <2>10, AnyStep
<1> QED BY <1>2, <1>3, <1>4

-----------------------------------------------------------------------------
(***************************************************************************)
(* Submission.                                                             *)
(***************************************************************************)
LEMMA NewJob ==
    ASSUME JobsInv, NEW kind \in {"implementation", "verification"}, NEW link \in Nat,
           NEW how \in {"ok", "failed", "crash"},
           Legacy!NewJob(Legacy!_refresh, kind, link, how),
           recs' \in Seq(RecoveryRow), vers' \in Seq(VerificationRow), DOMAIN vers \subseteq DOMAIN vers',
           \A k \in DOMAIN job : Recovers(k) => /\ job[k].link \in DOMAIN recs'
                                              /\ recs'[job[k].link] = recs[job[k].link],
           hand' \in HandoffState, HandoffOK', GatesOK', Legacy!LaunchTruthful',
           \/ hand' = hand
           \/ /\ Legacy!LockFree
              /\ \A k \in DOMAIN job : \/ hand.phase # "recovery_prepared"
                                      \/ ~(Recovers(k) /\ hand.recovery = job[k].link),
           kind = "verification" => link \in DOMAIN vers',
           kind = "implementation" /\ link # 0 =>
              /\ link \in DOMAIN recs' /\ recs'[link].succ = Len(job) + 1 /\ recs'[link].launches = 0
              /\ recs'[link].status = IF how = "failed" THEN "invalidated" ELSE "dispatched"
              /\ how # "failed" => hand'.phase = "recovery_prepared" /\ hand'.recovery = link
    PROVE  JobsInv'
<1> DEFINE row == [kind |-> kind, link |-> link, cancel |-> FALSE,
                   status |-> IF how = "failed" THEN "failed" ELSE "queued"]
<1>0. PICK n \in Nat : n = Len(job) + 1
  BY DEF JobsInv, JobTypes
<1>1. /\ JobTypes /\ OneLocked /\ MaxJobs \in Nat /\ Len(job) \in Nat /\ DOMAIN job = 1 .. Len(job)
      /\ \A k \in Legacy!Jobs : StageOK(k) /\ RecoveryOK(k)
  BY JobBounds DEF JobsInv, JobTypes
<1>2. /\ n \in Legacy!Jobs /\ job' = Append(Legacy!_refresh, row) /\ sup' = [sup EXCEPT ![n] = Legacy!Spawn[how]]
      /\ UNCHANGED <<agreed, worktree, ex, live, result, passed>>
  BY <1>0 DEF Legacy!NewJob
<1>3. row \in JobRow
  BY DEF JobRow
<1>4. /\ Legacy!_refresh \in Seq(JobRow) /\ Len(Legacy!_refresh) = Len(job)
      /\ DOMAIN Legacy!_refresh = DOMAIN job
      /\ \A k \in DOMAIN job :
            /\ Legacy!_refresh[k].kind = job[k].kind
            /\ Legacy!_refresh[k].link = job[k].link
  BY <1>1, Refreshed
<1>5. /\ job' \in Seq(JobRow) /\ Len(job') = n /\ DOMAIN job' = 1 .. n /\ job'[n] = row
      /\ \A k \in DOMAIN job : job'[k].kind = job[k].kind /\ job'[k].link = job[k].link
  <2> HIDE DEF row
  <2>1. /\ job' \in Seq(JobRow) /\ Len(job') = Len(Legacy!_refresh) + 1
        /\ job'[Len(Legacy!_refresh) + 1] = row
        /\ \A k \in 1 .. Len(Legacy!_refresh) : job'[k] = Legacy!_refresh[k]
    BY <1>2, <1>3, <1>4, AppendProperties
  <2> QED BY <1>0, <1>1, <1>4, <2>1
<1>6. Legacy!Spawn[how] \in {"spawned", "gone"} /\ (how = "failed" => Legacy!Spawn[how] = "gone")
  BY DEF Legacy!Spawn
<1>7. /\ sup' \in [Legacy!Jobs -> {"none", "spawned", "running", "gone"}]
      /\ sup'[n] = Legacy!Spawn[how] /\ \A k \in Legacy!Jobs \ {n} : sup'[k] = sup[k]
  BY <1>1, <1>2, <1>6 DEF JobTypes
<1>8. n \notin DOMAIN job /\ n <= MaxJobs
  BY <1>0, <1>1, <1>2 DEF Legacy!Jobs
<1>9. JobTypes'
  BY <1>0, <1>1, <1>2, <1>5, <1>7, <1>8 DEF JobTypes
<1>10. OneLocked'
  BY <1>1, <1>2 DEF OneLocked, Legacy!Locked, Legacy!Jobs
<1>11. ex[n] = "none" /\ result[n] = Legacy!NoResult
  BY <1>1, <1>2, <1>8 DEF StageOK
<1>12. job'[n].kind = kind /\ job'[n].link = link /\ n \in DOMAIN job'
  BY <1>0, <1>1, <1>5
<1> HIDE DEF row
<1>13. StageOK(n)'
  BY <1>2, <1>6, <1>7, <1>11, <1>12 DEF StageOK
<1>14. RecoveryOK(n)'
  <2>1. ex'[n] = "none" /\ result'[n].kind # "refused"
    BY <1>2, <1>11, JobBounds DEF Legacy!NoResult
  <2>2. link # 0 /\ kind = "implementation" => recs'[link].succ = n
    BY <1>0
  <2> QED BY <1>6, <1>7, <1>12, <2>1, <2>2 DEF RecoveryOK, Recovers
<1>15. ASSUME NEW k \in Legacy!Jobs, k # n PROVE Untouched(k)
  <2>1. k \in DOMAIN job' <=> k \in DOMAIN job
    BY <1>0, <1>1, <1>5, <1>15
  <2>2. ex'[k] = ex[k] /\ result'[k] = result[k] /\ sup'[k] = sup[k]
    BY <1>2, <1>7, <1>15
  <2> QED BY <1>5, <2>1, <2>2 DEF Untouched, Legacy!LockFree
<1> QED BY <1>9, <1>10, <1>13, <1>14, <1>15, AnyStep

\* A job without a recovery.
LEMMA Submit ==
    ASSUME JobsInv, NEW how \in {"ok", "failed", "crash"}, Legacy!room_implementation_submit(how)
    PROVE  JobsInv'
<1>1. JobTypes /\ HandoffOK /\ GatesOK /\ Legacy!LaunchTruthful
  BY DEF JobsInv
<1>2. /\ Legacy!NewJob(Legacy!_refresh, "implementation", 0, how)
      /\ UNCHANGED <<recs, vers, hand, passed>>
  BY DEF Legacy!room_implementation_submit, Legacy!NewJob
<1>3. HandoffOK' /\ GatesOK'
  BY <1>1, <1>2 DEF HandoffOK, GatesOK
<1>4. Legacy!LaunchTruthful'
  BY <1>1, <1>2 DEF Legacy!LaunchTruthful
<1>5. recs' \in Seq(RecoveryRow) /\ vers' \in Seq(VerificationRow) /\ hand' \in HandoffState
  BY <1>1, <1>2 DEF JobTypes
<1>6. \A k \in DOMAIN job : Recovers(k) => job[k].link \in DOMAIN recs'
  BY <1>1, <1>2, InJobs DEF JobsInv, RecoveryOK
<1> QED BY <1>2, <1>3, <1>4, <1>5, <1>6, NewJob

\* A row that is only prepared has no job yet.
LEMMA Unclaimed ==
    ASSUME JobsInv, NEW i, i \in DOMAIN recs => recs[i].status \in {"unregistered", "prepared"},
           NEW k \in DOMAIN job, Recovers(k)
    PROVE  job[k].link \in DOMAIN recs /\ job[k].link # i
BY InJobs DEF JobsInv, RecoveryOK

\* What may be written into a recovery's row before it launches.
LEMMA RowRewritten ==
    ASSUME JobsInv, NEW i \in DOMAIN recs, NEW succ \in Nat, NEW status \in {"dispatched", "invalidated"},
           recs[i].status = "prepared"
    PROVE  recs' = [recs EXCEPT ![i] = [recs[i] EXCEPT !.succ = succ, !.status = status]] =>
              /\ recs' \in Seq(RecoveryRow) /\ DOMAIN recs' = DOMAIN recs
              /\ \A m \in DOMAIN recs : m # i => recs'[m] = recs[m]
              /\ recs'[i].succ = succ /\ recs'[i].status = status /\ recs'[i].launches = 0
              /\ Legacy!LaunchTruthful'
<1> DEFINE new == [recs[i] EXCEPT !.succ = succ, !.status = status]
<1>1. recs \in Seq(RecoveryRow) /\ recs[i] \in RecoveryRow
  BY DEF JobsInv, JobTypes
<1>2. recs[i].launches = 0 /\ Legacy!LaunchTruthful
  BY DEF JobsInv, Legacy!LaunchTruthful
<1>3. /\ new \in RecoveryRow /\ new.succ = succ /\ new.status = status /\ new.launches = 0
  BY <1>1, <1>2 DEF RecoveryRow
<1> HIDE DEF new
<1>4. ASSUME recs' = [recs EXCEPT ![i] = new]
      PROVE  /\ recs' \in Seq(RecoveryRow) /\ DOMAIN recs' = DOMAIN recs
             /\ \A m \in DOMAIN recs : m # i => recs'[m] = recs[m]
             /\ recs'[i] = new
  BY <1>1, <1>3, <1>4
<1>5. ASSUME recs' = [recs EXCEPT ![i] = new] PROVE Legacy!LaunchTruthful'
  <2>1. ASSUME NEW m \in DOMAIN recs'
        PROVE  /\ recs'[m].launches <= 1
               /\ recs'[m].status = "consumed" => recs'[m].launches = 1
               /\ recs'[m].status \in {"invalidated", "unregistered", "prepared"} => recs'[m].launches = 0
    <3>1. CASE m = i
      BY <1>3, <1>4, <1>5, <3>1
    <3>2. CASE m # i
      BY <1>2, <1>4, <1>5, <2>1, <3>2 DEF Legacy!LaunchTruthful
    <3> QED BY <3>1, <3>2
  <2> QED BY <2>1 DEF Legacy!LaunchTruthful
<1> QED BY <1>3, <1>4, <1>5 DEF new

\* A prepared recovery becomes the one of its job, or is given up unlaunched.
LEMMA SubmitRecovery ==
    ASSUME JobsInv, NEW i \in DOMAIN recs, NEW how \in {"ok", "failed", "crash"},
           Legacy!SubmitRecovery(i, how)
    PROVE  JobsInv'
<1>1. /\ JobTypes /\ HandoffOK /\ GatesOK /\ hand \in HandoffState /\ i \in Nat /\ i # 0
      /\ recs[i] \in RecoveryRow /\ Len(job) + 1 \in Nat /\ recs \in Seq(RecoveryRow)
  BY DEF JobsInv, JobTypes
<1>2. recs[i].status = "prepared"
  BY DEF Legacy!SubmitRecovery
<1>3. \A k \in DOMAIN job : Recovers(k) => job[k].link \in DOMAIN recs /\ job[k].link # i
  BY <1>2, Unclaimed
<1>4. CASE /\ Legacy!audit_recovery(Legacy!_refresh, hand, recs[i].pred, i) /\ Legacy!LockFree
           /\ Legacy!NewJob(Legacy!_refresh, "implementation", i, how)
           /\ recs' = [recs EXCEPT ![i].succ = Len(job) + 1,
                                   ![i].status = IF how = "failed" THEN "invalidated" ELSE "dispatched"]
           /\ hand' = IF how = "failed" THEN Legacy!WithoutRecovery(hand, i) ELSE hand
           /\ UNCHANGED vers
  <2> DEFINE status == IF how = "failed" THEN "invalidated" ELSE "dispatched"
             succ == Len(job) + 1
  <2>1. hand.phase = "recovery_prepared" /\ hand.recovery = i
    BY <1>1, <1>4 DEF Legacy!audit_recovery
  <2>2. succ \in Nat /\ status \in {"dispatched", "invalidated"}
    BY <1>1
  <2>3. recs' = [recs EXCEPT ![i] = [recs[i] EXCEPT !.succ = succ, !.status = status]]
    BY <1>1, <1>4
  <2>4. /\ recs' \in Seq(RecoveryRow) /\ DOMAIN recs' = DOMAIN recs
        /\ \A m \in DOMAIN recs : m # i => recs'[m] = recs[m]
        /\ recs'[i].succ = succ /\ recs'[i].status = status /\ recs'[i].launches = 0
        /\ Legacy!LaunchTruthful'
    <3> HIDE DEF status, succ
    <3> QED BY <1>2, <2>2, <2>3, RowRewritten
  <2>5. vers' = vers /\ passed' = passed
    BY <1>4 DEF Legacy!NewJob
  <2>6. /\ hand' \in HandoffState
        /\ how # "failed" => hand' = hand
        /\ hand' = hand \/ hand' = [hand EXCEPT !.phase = "blocked", !.recovery = 0]
    BY <1>1, <1>4 DEF Legacy!WithoutRecovery, HandoffState
  <2>7. HandoffOK'
    BY <1>1, <2>4, <2>5, <2>6, WithdrawnOK
  <2>8. GatesOK' /\ vers' \in Seq(VerificationRow)
    BY <1>1, <2>5 DEF GatesOK, JobTypes
  <2>9. \A k \in DOMAIN job : Recovers(k) => /\ job[k].link \in DOMAIN recs'
                                           /\ recs'[job[k].link] = recs[job[k].link]
                                           /\ hand.recovery # job[k].link
    BY <1>3, <2>1, <2>4
  <2>10. /\ recs'[i].succ = Len(job) + 1 /\ recs'[i].launches = 0 /\ i \in DOMAIN recs'
         /\ recs'[i].status = IF how = "failed" THEN "invalidated" ELSE "dispatched"
         /\ how # "failed" => hand'.phase = "recovery_prepared" /\ hand'.recovery = i
    BY <2>1, <2>4, <2>6
  <2> HIDE DEF status, succ
  <2>11. \/ hand' = hand
         \/ /\ Legacy!LockFree
            /\ \A k \in DOMAIN job : \/ hand.phase # "recovery_prepared"
                                    \/ ~(Recovers(k) /\ hand.recovery = job[k].link)
    BY <1>4, <2>9
  <2>12. /\ Legacy!NewJob(Legacy!_refresh, "implementation", i, how)
         /\ DOMAIN vers \subseteq DOMAIN vers' /\ recs' \in Seq(RecoveryRow) /\ Legacy!LaunchTruthful'
         /\ \A k \in DOMAIN job : Recovers(k) => /\ job[k].link \in DOMAIN recs'
                                                /\ recs'[job[k].link] = recs[job[k].link]
    BY <1>4, <2>4, <2>5, <2>9
  <2>13. i \in Nat /\ hand' \in HandoffState
    BY <1>1, <2>6
  <2> QED BY <2>7, <2>8, <2>10, <2>11, <2>12, <2>13, NewJob
<1>5. CASE /\ hand.recovery = i /\ hand.phase = "recovery_prepared"
           /\ job' = Legacy!_refresh
           /\ Legacy!_invalidate_recovery(i)
           /\ UNCHANGED <<vers, agreed, worktree, Legacy!processes, booted, passed, edits, faults>>
  <2>1. UNCHANGED <<vers, agreed, worktree, sup, ex, live, result, passed>>
    BY <1>5 DEF Legacy!processes
  <2>2. recs' = [recs EXCEPT ![i].status = "invalidated"]
    BY <1>5 DEF Legacy!_invalidate_recovery
  <2>3. recs' = [recs EXCEPT ![i] = [recs[i] EXCEPT !.succ = recs[i].succ, !.status = "invalidated"]]
    <3>1. [recs[i] EXCEPT !.succ = recs[i].succ, !.status = "invalidated"] = [recs[i] EXCEPT !.status = "invalidated"]
      BY <1>1 DEF RecoveryRow
    <3> QED BY <1>1, <2>2, <3>1
  <2>4. /\ recs' \in Seq(RecoveryRow) /\ DOMAIN recs' = DOMAIN recs
        /\ \A m \in DOMAIN recs : m # i => recs'[m] = recs[m]
        /\ Legacy!LaunchTruthful'
    <3>1. recs[i].succ \in Nat
      BY <1>1 DEF RecoveryRow
    <3> QED BY <1>2, <2>3, <3>1, RowRewritten
  <2>5. /\ hand' \in HandoffState
        /\ hand' = hand \/ (Legacy!LockFree /\ hand' = [hand EXCEPT !.phase = "blocked", !.recovery = 0])
    BY <1>1, <1>5 DEF Legacy!_invalidate_recovery, Legacy!WithoutRecovery, HandoffState
  <2>6. HandoffOK'
    BY <1>1, <2>1, <2>4, <2>5, WithdrawnOK
  <2>7. OneLocked' /\ GatesOK'
    BY <1>1, <2>1 DEF JobsInv, OneLocked, GatesOK, Legacy!Locked, Legacy!Jobs
  <2>8. /\ Legacy!_refresh \in Seq(JobRow) /\ Len(Legacy!_refresh) = Len(job)
        /\ DOMAIN Legacy!_refresh = DOMAIN job
        /\ \A k \in DOMAIN job :
              /\ Legacy!_refresh[k].kind = job[k].kind
              /\ Legacy!_refresh[k].link = job[k].link
    BY <1>1, Refreshed
  <2>9. JobTypes'
    BY <1>1, <1>5, <2>1, <2>4, <2>5, <2>8 DEF JobTypes
  <2>10. ASSUME NEW k \in Legacy!Jobs PROVE Untouched(k)
    <3>1. k \in DOMAIN job /\ Recovers(k) => /\ job[k].link \in DOMAIN recs'
                                            /\ recs'[job[k].link] = recs[job[k].link]
                                            /\ hand.recovery # job[k].link
      BY <1>3, <1>5, <2>4
    <3> QED BY <1>5, <2>1, <2>5, <2>8, <3>1 DEF Untouched, Legacy!LockFree
  <2> QED BY <2>1, <2>4, <2>6, <2>7, <2>9, <2>10, AnyStep
<1> QED BY <1>4, <1>5 DEF Legacy!SubmitRecovery

\* The handoff a recovery is prepared from.
LEMMA Reconciled ==
    ASSUME JobTypes, NEW h, h = Legacy!_reconcile_projection
    PROVE  \/ h = hand
           \/ /\ Legacy!LockFree /\ hand.phase = "recovery_prepared"
              /\ recs[hand.recovery].status \in {"unregistered", "invalidated"}
              /\ h = [hand EXCEPT !.phase = "blocked", !.recovery = 0]
BY DEF Legacy!_reconcile_projection, Legacy!WithoutRecovery

\* A recovery is prepared from an interrupted turn, under a row of its own.
LEMMA Recover ==
    ASSUME JobsInv, NEW j \in DOMAIN job, NEW crash \in BOOLEAN,
           Legacy!room_implementation_recover(j, crash)
    PROVE  JobsInv'
<1>1. /\ JobTypes /\ OneLocked /\ HandoffOK /\ GatesOK /\ Legacy!LaunchTruthful
      /\ hand \in HandoffState /\ recs \in Seq(RecoveryRow) /\ Len(recs) \in Nat /\ worktree \in Contents
  BY DEF JobsInv, JobTypes
<1>2. j \in Nat
  BY <1>1 DEF JobTypes
<1>3. PICK h : h = Legacy!_reconcile_projection
  OBVIOUS
<1>4. PICK row : row = [pred |-> j, succ |-> 0, candidate |-> worktree, launches |-> 0,
                        status |-> IF crash THEN "unregistered" ELSE "prepared"]
  OBVIOUS
<1>5. /\ Legacy!audit_recovery(job, h, j, 0) /\ Legacy!LockFree
      /\ recs' = Append(recs, row) /\ hand' = Legacy!prepare_recovery(h, Len(recs) + 1)
      /\ UNCHANGED <<job, vers, agreed, worktree, sup, ex, live, result, passed>>
  BY <1>3, <1>4 DEF Legacy!room_implementation_recover, Legacy!processes
<1>6. row \in RecoveryRow /\ row.launches = 0 /\ row.status \in {"unregistered", "prepared"}
  BY <1>1, <1>2, <1>4 DEF RecoveryRow
<1>7. /\ recs' \in Seq(RecoveryRow) /\ DOMAIN recs' = 1 .. Len(recs) + 1 /\ DOMAIN recs = 1 .. Len(recs)
      /\ recs'[Len(recs) + 1] = row /\ \A m \in DOMAIN recs : recs'[m] = recs[m]
  <2>1. /\ recs' \in Seq(RecoveryRow) /\ Len(recs') = Len(recs) + 1 /\ recs'[Len(recs) + 1] = row
        /\ \A m \in 1 .. Len(recs) : recs'[m] = recs[m]
    BY <1>1, <1>5, <1>6, AppendProperties
  <2> QED BY <1>1, <2>1
<1>8. hand.diag = "model" /\ h.phase = "blocked"
  BY <1>5 DEF Legacy!audit_recovery, Legacy!Interrupted
<1>9. /\ h \in HandoffState
      /\ \/ hand.phase # "recovery_prepared"
         \/ recs[hand.recovery].status \in {"unregistered", "invalidated"}
      /\ h.verification = hand.verification
  <2>1. CASE h = hand
    BY <1>1, <1>8, <2>1
  <2>2. CASE /\ Legacy!LockFree /\ hand.phase = "recovery_prepared"
             /\ recs[hand.recovery].status \in {"unregistered", "invalidated"}
             /\ h = [hand EXCEPT !.phase = "blocked", !.recovery = 0]
    BY <1>1, <2>2 DEF HandoffState
  <2> QED BY <1>1, <1>3, <2>1, <2>2, Reconciled
<1>10. hand.verification = 0
  BY <1>1, <1>8 DEF HandoffOK
<1>11. /\ hand' \in HandoffState /\ hand'.phase = "recovery_prepared" /\ hand'.recovery = Len(recs) + 1
       /\ hand'.launched = FALSE /\ hand'.verification = 0
  <2>1. PICK n \in Nat : n = Len(recs) + 1
    BY <1>1
  <2>2. hand' = [h EXCEPT !.phase = "recovery_prepared", !.recovery = n, !.launched = FALSE]
    BY <1>5, <2>1 DEF Legacy!prepare_recovery
  <2>3. hand' \in HandoffState
    BY <1>9, <2>2 DEF HandoffState
  <2> QED BY <1>9, <1>10, <2>1, <2>2, <2>3 DEF HandoffState
<1>12. JobTypes'
  BY <1>1, <1>5, <1>7, <1>11 DEF JobTypes
<1>13. OneLocked' /\ GatesOK'
  BY <1>1, <1>5 DEF OneLocked, GatesOK, Legacy!Locked, Legacy!Jobs
<1>14. HandoffOK'
  BY <1>1, <1>7, <1>11 DEF HandoffOK
<1>15. Legacy!LaunchTruthful'
  <2>1. ASSUME NEW m \in DOMAIN recs'
        PROVE  /\ recs'[m].launches <= 1
               /\ recs'[m].status = "consumed" => recs'[m].launches = 1
               /\ recs'[m].status \in {"invalidated", "unregistered", "prepared"} => recs'[m].launches = 0
    <3>1. CASE m = Len(recs) + 1
      BY <1>6, <1>7, <3>1
    <3>2. CASE m # Len(recs) + 1
      <4>1. m \in DOMAIN recs
        BY <1>1, <1>7, <2>1, <3>2
      <4> QED BY <1>1, <1>7, <4>1 DEF Legacy!LaunchTruthful
    <3> QED BY <3>1, <3>2
  <2> QED BY <2>1 DEF Legacy!LaunchTruthful
<1>16. ASSUME NEW k \in Legacy!Jobs PROVE Untouched(k)
  <2>1. k \in DOMAIN job /\ Recovers(k) => job[k].link \in DOMAIN recs
    BY DEF JobsInv, RecoveryOK
  <2>2. k \in DOMAIN job /\ Recovers(k) => /\ job[k].link \in DOMAIN recs'
                                           /\ recs'[job[k].link] = recs[job[k].link]
    BY <1>1, <1>7, <2>1
  <2>3. /\ ex[k] \notin Legacy!Locked
        /\ \/ hand.phase # "recovery_prepared"
           \/ ~(k \in DOMAIN job /\ Recovers(k) /\ hand.recovery = job[k].link)
           \/ recs[job[k].link].status # "dispatched"
    BY <1>5, <1>9 DEF Legacy!LockFree
  <2> QED BY <1>5, <2>2, <2>3 DEF Untouched
<1> QED BY <1>5, <1>12, <1>13, <1>14, <1>15, <1>16, AnyStep


-----------------------------------------------------------------------------
(***************************************************************************)
(* The retry of a verification.                                            *)
(***************************************************************************)
VerificationStatuses == {"unregistered", "dispatched", "consumed", "invalidated", "interrupted"}

\* The rows a settlement may leave, and the handoff.
SettledRows(rows) ==
    \/ rows = vers
    \/ \E i \in DOMAIN vers, status \in VerificationStatuses, reconciled \in BOOLEAN :
          rows = [vers EXCEPT ![i].status = status, ![i].reconciled = reconciled]
SettledHand(h) ==
    \/ h = hand
    \/ /\ Legacy!LockFree /\ hand.verification # 0
       /\ \/ h = [hand EXCEPT !.phase = "blocked", !.verification = 0]
          \/ h = Legacy!project_completion(hand, hand.verification)

\* The settlement of a row.
LEMMA SettlesRow ==
    ASSUME NEW i \in DOMAIN vers, NEW status \in VerificationStatuses, NEW h, SettledHand(h),
           NEW r, r = Legacy!Settled(i, status, h)
    PROVE  SettledRows(r.rows) /\ SettledHand(r.hand)
<1>1. r.hand = h /\ r.rows = [vers EXCEPT ![i].status = status, ![i].reconciled = (status = "consumed")]
  BY DEF Legacy!Settled
<1>2. PICK reconciled \in BOOLEAN : reconciled = (status = "consumed")
  OBVIOUS
<1>3. r.rows = [vers EXCEPT ![i].status = status, ![i].reconciled = reconciled]
  BY <1>1, <1>2
<1> QED BY <1>1, <1>3 DEF SettledRows

\* What an earlier retry left is settled by one row and by what the handoff names.
LEMMA Reconciles ==
    ASSUME JobsInv, NEW jobs, NEW r, r = Legacy!_reconcile_verification(jobs)
    PROVE  SettledRows(r.rows) /\ SettledHand(r.hand)
<1> DEFINE i == hand.verification
           dropped == IF Legacy!LockFree THEN Legacy!WithoutVerification(hand, i) ELSE hand
           stale == {k \in DOMAIN vers : vers[k].status = "dispatched" /\ ~Legacy!Active(jobs, vers[k].succ)}
           unchanged == [rows |-> vers, hand |-> hand]
<1>1. hand \in HandoffState /\ i \in Nat /\ (i # 0 => i \in DOMAIN vers)
  BY DEF JobsInv, JobTypes, HandoffOK, HandoffState
<1>2. SettledHand(hand) /\ SettledHand(dropped)
  BY <1>1, Withdrawn DEF SettledHand
<1>3. SettledRows(unchanged.rows) /\ SettledHand(unchanged.hand)
  BY DEF SettledRows, SettledHand
<1>4. \A k \in DOMAIN vers : /\ Legacy!settle_projected(k) \in VerificationStatuses
                             /\ Legacy!reconcile_completion(k) \in VerificationStatuses
  BY DEF VerificationStatuses, Legacy!settle_projected, Legacy!reconcile_completion
<1> HIDE DEF dropped
<1>5. CASE i = 0
  <2>1. r = Legacy!_settle_unbound(jobs)
    BY <1>5 DEF Legacy!_reconcile_verification
  <2>2. CASE stale = {} \/ ~Legacy!LockFree
    <3>1. r = unchanged
      BY <2>1, <2>2 DEF Legacy!_settle_unbound, Legacy!Unchanged
    <3> QED BY <1>3, <3>1
  <2>3. CASE ~(stale = {} \/ ~Legacy!LockFree)
    <3>1. PICK k : k = CHOOSE x \in stale : TRUE
      OBVIOUS
    <3>2. k \in stale
      BY <2>3, <3>1
    <3>3. r = Legacy!Settled(k, IF vers[k].outcome = None THEN "invalidated" ELSE Legacy!settle_projected(k), hand)
      BY <2>1, <2>3, <3>1 DEF Legacy!_settle_unbound
    <3>4. PICK status \in VerificationStatuses : r = Legacy!Settled(k, status, hand)
      BY <1>4, <3>2, <3>3 DEF VerificationStatuses
    <3> QED BY <1>2, <3>2, <3>4, SettlesRow
  <2> QED BY <2>2, <2>3
<1>6. CASE i # 0
  <2>1. CASE vers[i].status \in {"unregistered", "invalidated", "interrupted"}
    <3>1. r = [rows |-> vers, hand |-> dropped]
      BY <1>6, <2>1 DEF Legacy!_reconcile_verification, dropped
    <3> QED BY <1>2, <3>1 DEF SettledRows
  <2>2. CASE vers[i].status \notin {"unregistered", "invalidated", "interrupted"}
    <3>1. CASE vers[i].status # "dispatched" \/ Legacy!Active(jobs, vers[i].succ)
      <4>1. r = unchanged
        BY <1>6, <2>2, <3>1 DEF Legacy!_reconcile_verification, Legacy!Unchanged
      <4> QED BY <1>3, <4>1
    <3>2. CASE ~(vers[i].status # "dispatched" \/ Legacy!Active(jobs, vers[i].succ))
      <4>1. CASE vers[i].outcome = None
        <5>1. r = Legacy!Settled(i, "invalidated", dropped)
          BY <1>6, <2>2, <3>2, <4>1 DEF Legacy!_reconcile_verification, dropped
        <5> QED BY <1>1, <1>2, <1>6, <5>1, SettlesRow DEF VerificationStatuses
      <4>2. CASE vers[i].outcome # None /\ ~Legacy!LockFree
        <5>1. r = unchanged
          BY <1>6, <2>2, <3>2, <4>2 DEF Legacy!_reconcile_verification, Legacy!Unchanged
        <5> QED BY <1>3, <5>1
      <4>3. CASE vers[i].outcome # None /\ Legacy!LockFree
        <5>1. PICK h : h = IF Legacy!reconcile_completion(i) = "consumed"
                           THEN Legacy!project_completion(hand, i) ELSE dropped
          OBVIOUS
        <5>2. r = Legacy!Settled(i, Legacy!reconcile_completion(i), h)
          BY <1>6, <2>2, <3>2, <4>3, <5>1 DEF Legacy!_reconcile_verification, dropped
        <5>3. SettledHand(h)
          BY <1>2, <1>6, <4>3, <5>1 DEF SettledHand
        <5> QED BY <1>1, <1>4, <1>6, <5>2, <5>3, SettlesRow
      <4> QED BY <4>1, <4>2, <4>3
    <3> QED BY <3>1, <3>2
  <2> QED BY <2>1, <2>2
<1> QED BY <1>5, <1>6

\* A projected completion claims only what the gates on the copy have shown.
LEMMA SettledHandOK ==
    ASSUME JobsInv, SettledRows(vers'), SettledHand(hand'), UNCHANGED <<recs, passed>>
    PROVE  /\ vers' \in Seq(VerificationRow) /\ DOMAIN vers' = DOMAIN vers
           /\ hand' \in HandoffState /\ HandoffOK' /\ GatesOK'
           /\ hand' = hand \/ (Legacy!LockFree /\ hand.phase # "recovery_prepared")
<1>1. JobTypes /\ HandoffOK /\ GatesOK /\ hand \in HandoffState
  BY DEF JobsInv, JobTypes
<1>2. /\ vers' \in Seq(VerificationRow) /\ DOMAIN vers' = DOMAIN vers
      /\ \A m \in DOMAIN vers : vers'[m].candidate = vers[m].candidate /\ vers'[m].outcome = vers[m].outcome
  <2>1. CASE vers' = vers
    BY <1>1, <2>1 DEF JobTypes
  <2>2. ASSUME NEW i \in DOMAIN vers, NEW status \in VerificationStatuses, NEW reconciled \in BOOLEAN,
               vers' = [vers EXCEPT ![i].status = status, ![i].reconciled = reconciled]
        PROVE  /\ vers' \in Seq(VerificationRow) /\ DOMAIN vers' = DOMAIN vers
               /\ \A m \in DOMAIN vers :
                     vers'[m].candidate = vers[m].candidate /\ vers'[m].outcome = vers[m].outcome
    BY <1>1, <2>2, SettledOnly DEF VerificationStatuses
  <2> QED BY <2>1, <2>2 DEF SettledRows
<1>3. GatesOK'
  BY <1>1, <1>2, GatesKept
<1>4. \/ hand' = hand
      \/ /\ Legacy!LockFree /\ hand.verification # 0
         /\ \/ hand' = [hand EXCEPT !.phase = "blocked", !.verification = 0]
            \/ hand' = Legacy!project_completion(hand, hand.verification)
  BY DEF SettledHand
<1>5. CASE hand' = hand
  BY <1>1, <1>2, <1>3, <1>5, WithdrawnOK
<1>6. CASE /\ Legacy!LockFree /\ hand.verification # 0
           /\ hand' = [hand EXCEPT !.phase = "blocked", !.verification = 0]
  <2>1. HandoffOK'
    BY <1>1, <1>2, <1>6, WithdrawnOK
  <2>2. hand.phase # "recovery_prepared"
    BY <1>1, <1>6 DEF HandoffOK
  <2> QED BY <1>1, <1>2, <1>3, <1>6, <2>1, <2>2 DEF HandoffState
<1>7. CASE /\ Legacy!LockFree /\ hand.verification # 0
           /\ hand' = Legacy!project_completion(hand, hand.verification)
  <2>1. PICK i \in DOMAIN vers : i = hand.verification /\ vers[i].candidate = hand.candidate
    BY <1>1, <1>7 DEF HandoffOK
  <2>2. hand.phase # "recovery_prepared"
    BY <1>1, <1>7 DEF HandoffOK
  <2>3. PICK shown \in BOOLEAN : shown = (vers[i].outcome = "passed")
    OBVIOUS
  <2>4. hand' = [hand EXCEPT !.phase = "awaiting_astra_review", !.passed = shown, !.verification = 0]
    BY <1>7, <2>1, <2>3 DEF Legacy!project_completion
  <2>5. /\ hand' \in HandoffState /\ hand'.phase = "awaiting_astra_review" /\ hand'.verification = 0
        /\ hand'.passed = shown /\ hand'.candidate = vers[i].candidate
    BY <1>1, <2>1, <2>4 DEF HandoffState
  <2>6. shown => vers[i].candidate \in passed
    BY <1>1, <2>3 DEF GatesOK
  <2>7. HandoffOK'
    BY <2>5, <2>6 DEF HandoffOK
  <2> QED BY <1>2, <1>3, <1>7, <2>2, <2>5, <2>7
<1> QED BY <1>4, <1>5, <1>6, <1>7

\* A retry that settles what an earlier one left.
LEMMA Settlement ==
    ASSUME JobsInv, SettledRows(vers'), SettledHand(hand'), job' = Legacy!_refresh,
           UNCHANGED <<recs, agreed, worktree, sup, ex, live, result, passed>>
    PROVE  JobsInv'
<1>1. JobTypes /\ OneLocked /\ Legacy!LaunchTruthful
  BY DEF JobsInv
<1>2. /\ vers' \in Seq(VerificationRow) /\ DOMAIN vers' = DOMAIN vers
      /\ hand' \in HandoffState /\ HandoffOK' /\ GatesOK'
      /\ hand' = hand \/ (Legacy!LockFree /\ hand.phase # "recovery_prepared")
  BY SettledHandOK
<1>3. /\ job' \in Seq(JobRow) /\ Len(job') = Len(job) /\ DOMAIN job' = DOMAIN job
      /\ \A k \in DOMAIN job : job'[k].kind = job[k].kind /\ job'[k].link = job[k].link
  BY <1>1, Refreshed
<1>4. JobTypes'
  BY <1>1, <1>2, <1>3 DEF JobTypes
<1>5. OneLocked'
  BY <1>1 DEF OneLocked, Legacy!Locked, Legacy!Jobs
<1>6. Legacy!LaunchTruthful'
  BY <1>1 DEF Legacy!LaunchTruthful
<1>7. ASSUME NEW k \in Legacy!Jobs PROVE Untouched(k)
  <2>1. k \in DOMAIN job /\ Recovers(k) => job[k].link \in DOMAIN recs
    BY DEF JobsInv, RecoveryOK
  <2> QED BY <1>2, <1>3, <2>1 DEF Untouched, Legacy!LockFree
<1> QED BY <1>2, <1>4, <1>5, <1>6, <1>7, AnyStep

\* A verification that is bound to the handoff, or was given up at once.
LEMMA Bound ==
    ASSUME JobsInv, NEW row \in VerificationRow, row.outcome = None, row.candidate = hand.candidate,
           vers' = Append(vers, row), UNCHANGED <<recs, passed>>,
           hand.phase = "blocked", hand.diag = "gate",
           hand' = hand \/ hand' = [hand EXCEPT !.verification = Len(vers) + 1]
    PROVE  /\ vers' \in Seq(VerificationRow) /\ DOMAIN vers' = 1 .. Len(vers) + 1
           /\ DOMAIN vers \subseteq DOMAIN vers' /\ Len(vers) + 1 \in Nat /\ Len(vers) + 1 \in DOMAIN vers'
           /\ hand' \in HandoffState /\ HandoffOK' /\ GatesOK'
<1>1. /\ HandoffOK /\ GatesOK /\ hand \in HandoffState /\ vers \in Seq(VerificationRow)
      /\ DOMAIN vers = 1 .. Len(vers) /\ Len(vers) \in Nat
  BY DEF JobsInv, JobTypes
<1>2. PICK n \in Nat : n = Len(vers) + 1
  BY <1>1
<1>3. /\ vers' \in Seq(VerificationRow) /\ Len(vers') = n /\ vers'[n] = row
      /\ \A m \in DOMAIN vers : vers'[m] = vers[m]
  BY <1>1, <1>2, AppendProperties
<1>4. DOMAIN vers' = 1 .. n /\ DOMAIN vers \subseteq DOMAIN vers' /\ n \in DOMAIN vers'
  BY <1>1, <1>2, <1>3
<1>5. GatesOK'
  <2>1. ASSUME NEW m \in DOMAIN vers', vers'[m].outcome = "passed" PROVE vers'[m].candidate \in passed'
    <3>1. CASE m = n
      BY <1>3, <2>1, <3>1, JobBounds
    <3>2. CASE m # n
      BY <1>1, <1>2, <1>3, <1>4, <2>1, <3>2 DEF GatesOK
    <3> QED BY <3>1, <3>2
  <2> QED BY <2>1 DEF GatesOK
<1>6. CASE hand' = hand
  <2>1. HandoffOK'
    BY <1>1, <1>3, <1>4, <1>6 DEF HandoffOK
  <2> QED BY <1>1, <1>2, <1>3, <1>4, <1>5, <1>6, <2>1
<1>7. CASE hand' = [hand EXCEPT !.verification = Len(vers) + 1]
  <2>1. hand' = [hand EXCEPT !.verification = n]
    BY <1>2, <1>7
  <2>2. /\ hand' \in HandoffState /\ hand'.phase = "blocked" /\ hand'.verification = n
        /\ hand'.candidate = hand.candidate /\ hand'.diag = "gate"
    BY <1>1, <2>1 DEF HandoffState
  <2>3. HandoffOK'
    BY <1>3, <1>4, <2>2 DEF HandoffOK
  <2> QED BY <1>2, <1>3, <1>4, <1>5, <2>2, <2>3
<1> QED BY <1>6, <1>7

\* A retry settles, binds a new verification, or dies between the two writes.
LEMMA Retry ==
    ASSUME JobsInv, NEW j \in DOMAIN job, NEW how \in {"ok", "failed", "crash"},
           Legacy!room_verification_retry(j, how)
    PROVE  JobsInv'
<1>1. PICK r : r = Legacy!_reconcile_verification(Legacy!_refresh)
  OBVIOUS
<1>2. SettledRows(r.rows) /\ SettledHand(r.hand)
  BY <1>1, Reconciles
<1>3. JobTypes /\ OneLocked /\ HandoffOK /\ Legacy!LaunchTruthful
      /\ hand \in HandoffState /\ worktree \in Contents /\ Len(job) + 1 \in Nat
  BY DEF JobsInv, JobTypes
<1>4. CASE r # Legacy!Unchanged
  <2>1. /\ job' = Legacy!_refresh /\ vers' = r.rows /\ hand' = r.hand
        /\ UNCHANGED <<recs, agreed, worktree, sup, ex, live, result, passed>>
    BY <1>1, <1>4 DEF Legacy!room_verification_retry, Legacy!processes
  <2>2. SettledRows(vers') /\ SettledHand(hand')
    BY <1>2, <2>1
  <2> QED BY <2>1, <2>2, Settlement
<1>5. CASE r = Legacy!Unchanged
  <2>1. r.hand = hand
    BY <1>5 DEF Legacy!Unchanged
  <2>2. /\ Legacy!audit_verification(job, hand, j, 0) /\ Legacy!LockFree
        /\ \/ /\ Legacy!NewJob(Legacy!_refresh, "verification", Len(vers) + 1, how)
              /\ vers' = Append(vers, [pred |-> j, succ |-> Len(job) + 1, candidate |-> worktree,
                                       outcome |-> None, file |-> FALSE, reconciled |-> FALSE,
                                       status |-> IF how = "failed" THEN "invalidated" ELSE "dispatched"])
              /\ hand' = IF how = "failed" THEN hand ELSE Legacy!prepare_verification(hand, Len(vers) + 1)
              /\ UNCHANGED recs
           \/ /\ vers' = Append(vers, [pred |-> j, succ |-> 0, candidate |-> worktree, outcome |-> None,
                                       file |-> FALSE, reconciled |-> FALSE, status |-> "unregistered"])
              /\ hand' = Legacy!prepare_verification(hand, Len(vers) + 1)
              /\ UNCHANGED <<job, recs, agreed, worktree, sup, ex, live, result, passed>>
    BY <1>1, <1>5, <2>1 DEF Legacy!room_verification_retry, Legacy!processes
  <2>3. /\ hand.diag = "gate" /\ hand.phase = "blocked" /\ worktree = hand.candidate
    BY <2>2 DEF Legacy!audit_verification, Legacy!Interrupted, Legacy!Current, Legacy!AsAuthorized
  <2>4. j \in Nat
    BY <1>3 DEF JobTypes
  <2>5. CASE /\ Legacy!NewJob(Legacy!_refresh, "verification", Len(vers) + 1, how)
             /\ vers' = Append(vers, [pred |-> j, succ |-> Len(job) + 1, candidate |-> worktree,
                                      outcome |-> None, file |-> FALSE, reconciled |-> FALSE,
                                      status |-> IF how = "failed" THEN "invalidated" ELSE "dispatched"])
             /\ hand' = IF how = "failed" THEN hand ELSE Legacy!prepare_verification(hand, Len(vers) + 1)
             /\ UNCHANGED recs
    <3>1. PICK status \in {"invalidated", "dispatched"} :
             status = IF how = "failed" THEN "invalidated" ELSE "dispatched"
      OBVIOUS
    <3>2. PICK row : row = [pred |-> j, succ |-> Len(job) + 1, candidate |-> worktree, outcome |-> None,
                            file |-> FALSE, reconciled |-> FALSE, status |-> status]
      OBVIOUS
    <3>3. row \in VerificationRow /\ row.outcome = None /\ row.candidate = hand.candidate
      BY <1>3, <2>3, <2>4, <3>2 DEF VerificationRow
    <3>4. vers' = Append(vers, row) /\ recs' = recs /\ passed' = passed
      BY <2>5, <3>1, <3>2 DEF Legacy!NewJob
    <3>5. hand' = hand \/ hand' = [hand EXCEPT !.verification = Len(vers) + 1]
      BY <2>5 DEF Legacy!prepare_verification
    <3>6. PICK n \in Nat : n = Len(vers) + 1
      BY <1>3 DEF JobTypes
    <3>7. /\ vers' \in Seq(VerificationRow) /\ DOMAIN vers \subseteq DOMAIN vers'
          /\ n \in DOMAIN vers' /\ hand' \in HandoffState /\ HandoffOK' /\ GatesOK'
      BY <2>3, <3>3, <3>4, <3>5, <3>6, Bound
    <3>8. Legacy!NewJob(Legacy!_refresh, "verification", n, how)
      BY <2>5, <3>6
    <3>9. recs' \in Seq(RecoveryRow) /\ Legacy!LaunchTruthful'
      BY <1>3, <3>4 DEF JobTypes, Legacy!LaunchTruthful
    <3>10. \A k \in DOMAIN job : Recovers(k) => /\ job[k].link \in DOMAIN recs'
                                              /\ recs'[job[k].link] = recs[job[k].link]
      BY <1>3, <3>4, InJobs DEF JobsInv, RecoveryOK
    <3>11. \/ hand' = hand
           \/ /\ Legacy!LockFree
              /\ \A k \in DOMAIN job : \/ hand.phase # "recovery_prepared"
                                      \/ ~(Recovers(k) /\ hand.recovery = job[k].link)
      BY <2>2, <2>3
    <3> QED BY <3>7, <3>8, <3>9, <3>10, <3>11, NewJob
  <2>6. CASE /\ vers' = Append(vers, [pred |-> j, succ |-> 0, candidate |-> worktree, outcome |-> None,
                                      file |-> FALSE, reconciled |-> FALSE, status |-> "unregistered"])
             /\ hand' = Legacy!prepare_verification(hand, Len(vers) + 1)
             /\ UNCHANGED <<job, recs, agreed, worktree, sup, ex, live, result, passed>>
    <3>1. PICK row : row = [pred |-> j, succ |-> 0, candidate |-> worktree, outcome |-> None,
                            file |-> FALSE, reconciled |-> FALSE, status |-> "unregistered"]
      OBVIOUS
    <3>2. row \in VerificationRow /\ row.outcome = None /\ row.candidate = hand.candidate
      BY <1>3, <2>3, <2>4, <3>1 DEF VerificationRow
    <3>3. vers' = Append(vers, row) /\ hand' = [hand EXCEPT !.verification = Len(vers) + 1]
      BY <2>6, <3>1 DEF Legacy!prepare_verification
    <3>4. /\ vers' \in Seq(VerificationRow) /\ DOMAIN vers \subseteq DOMAIN vers'
          /\ hand' \in HandoffState /\ HandoffOK' /\ GatesOK'
      BY <2>3, <2>6, <3>2, <3>3, Bound
    <3>5. JobTypes'
      BY <1>3, <2>6, <3>4 DEF JobTypes
    <3>6. OneLocked'
      BY <1>3, <2>6 DEF OneLocked, Legacy!Locked, Legacy!Jobs
    <3>7. Legacy!LaunchTruthful'
      BY <1>3, <2>6 DEF Legacy!LaunchTruthful
    <3>8. ASSUME NEW k \in Legacy!Jobs PROVE Untouched(k)
      <4>1. k \in DOMAIN job /\ Recovers(k) => job[k].link \in DOMAIN recs
        BY DEF JobsInv, RecoveryOK
      <4> QED BY <2>2, <2>3, <2>6, <4>1 DEF Untouched, Legacy!LockFree
    <3> QED BY <3>4, <3>5, <3>6, <3>7, <3>8, AnyStep
  <2> QED BY <2>2, <2>5, <2>6
<1> QED BY <1>4, <1>5

-----------------------------------------------------------------------------
(***************************************************************************)
(* Every step of the jobs keeps the invariant.                             *)
(***************************************************************************)
LEMMA StepJobs == JobsInv /\ [Legacy!Next]_legacy => JobsInv'
<1> SUFFICES ASSUME JobsInv, [Legacy!Next]_legacy PROVE JobsInv'
  OBVIOUS
<1>1. ASSUME NEW how \in {"ok", "failed", "crash"},
             \/ Legacy!room_implementation_submit(how)
             \/ \E i \in DOMAIN recs : Legacy!SubmitRecovery(i, how)
             \/ \E j \in DOMAIN job : Legacy!room_verification_retry(j, how)
      PROVE  JobsInv'
  BY <1>1, Submit, SubmitRecovery, Retry
<1>2. ASSUME NEW j \in DOMAIN job, NEW crash \in BOOLEAN,
             Legacy!room_implementation_recover(j, crash) \/ Legacy!worker_finish(j, crash)
      PROVE  JobsInv'
  BY <1>2, Recover, Supervise
<1>3. ASSUME NEW j \in DOMAIN job,
             \/ Legacy!worker_start(j) \/ Legacy!room_job_cancel(j)
             \/ Legacy!run_implementation(j) \/ Legacy!LaunchModel(j) \/ Legacy!ModelSpawnError(j)
             \/ Legacy!GatesEnd(j) \/ Legacy!verification_run(j) \/ Legacy!VerifyEnds(j) \/ Legacy!Publish(j)
             \/ Legacy!handle_termination(j) \/ Legacy!ExecutorDies(j) \/ Legacy!SupervisorDies(j)
      PROVE  JobsInv'
  BY <1>3, Supervise, QuietSteps, RunImplementation, LaunchModel, ModelSpawnError, GatesEnd, VerificationRun,
     VerifyEnds, Publish, HandleTermination, ExecutorDies, Deaths
<1>4. ASSUME NEW j \in DOMAIN job, NEW content \in Contents,
             Legacy!ModelEnds(j, content) \/ Legacy!OrphanEnds(j, content)
      PROVE  JobsInv'
  BY <1>4, ModelEnds, QuietSteps
<1>5. ASSUME NEW content \in Contents, Legacy!Edit(content) PROVE JobsInv'
  BY <1>5, QuietSteps
<1>6. ASSUME \/ \E ok \in BOOLEAN : Legacy!room_implementation_review(ok)
             \/ Legacy!room_implementation_revise \/ Legacy!room_spec_put \/ Legacy!Reboot
      PROVE  JobsInv'
  BY <1>6, Reviews, QuietSteps, Deaths
<1>7. ASSUME UNCHANGED legacy PROVE JobsInv'
  <2>1. UNCHANGED <<job, recs, vers, hand, agreed, worktree, sup, ex, live, result, passed>>
    BY <1>7 DEF legacy
  <2>2. JobTypes /\ OneLocked /\ HandoffOK /\ GatesOK /\ Legacy!LaunchTruthful
    BY DEF JobsInv
  <2>3. JobTypes'
    BY <2>1, <2>2 DEF JobTypes
  <2>4. OneLocked' /\ HandoffOK' /\ GatesOK'
    BY <2>1, <2>2 DEF OneLocked, HandoffOK, GatesOK, Legacy!Locked, Legacy!Jobs
  <2>5. Legacy!LaunchTruthful'
    BY <2>1, <2>2 DEF Legacy!LaunchTruthful
  <2>6. ASSUME NEW k \in Legacy!Jobs PROVE Untouched(k)
    <3>1. k \in DOMAIN job /\ Recovers(k) => job[k].link \in DOMAIN recs
      BY DEF JobsInv, RecoveryOK
    <3> QED BY <2>1, <3>1 DEF Untouched
  <2> QED BY <2>1, <2>3, <2>4, <2>5, <2>6, AnyStep
<1> QED BY <1>1, <1>2, <1>3, <1>4, <1>5, <1>6, <1>7 DEF Legacy!Next, Legacy!Spawn

\* What the executors, the rows and the handoff agree on holds throughout, for
\* every number of jobs, contents, edits, deaths, failed spawns and restarts.
THEOREM JobsInvariant == MCSpec => []JobsInv
<1>1. MCInit => JobsInv
  BY JobsInit DEF MCInit
<1>2. JobsInv /\ [MCNext]_<<of, vars, legacy>> => JobsInv'
  <2>1. [MCNext]_<<of, vars, legacy>> => [Legacy!Next]_legacy
    BY DEF MCNext
  <2> QED BY <2>1, StepJobs
<1> QED BY <1>1, <1>2, PTL DEF MCSpec

\* LaunchTruthful: a recovery launches its model at most once, is consumed only
\* if it launched and invalidated, after which another may be prepared, only if
\* it did not; and what was accepted passed every gate on that content.
THEOREM LaunchesRecorded == MCSpec => []LaunchTruthful
<1>1. JobsInv => LaunchTruthful
  BY DEF JobsInv, HandoffOK, LaunchTruthful, Legacy!AcceptedVerified
<1> QED BY <1>1, JobsInvariant, PTL

-----------------------------------------------------------------------------
(***************************************************************************)
(* An idle controller is quiet.  Over: an executor that ended, with what   *)
(* it had started.  Quiet: it does not hold the handoff.                   *)
(***************************************************************************)
Over(j) == ex[j] \in {"exit", "dead"} /\ ~live[j]
Quiet(j) == ex[j] \notin Legacy!Locked /\ ~live[j]

\* A process is alive while its stage lasts or after its executor died; a
\* result that settles the job, or a row that has settled, leaves none.
ProcessOK(j) ==
    /\ live[j] => j \in DOMAIN job /\ ex[j] \in {"child", "gates", "verify", "exit", "dead"}
    /\ result[j].kind \in {"awaiting", "scope", "verified", "refused"} => ~live[j]
    /\ j \in DOMAIN job /\ job[j].status \in {"failed", "cancelled", "succeeded"} =>
          ~Legacy!Leased(j) /\ ~live[j] /\ ex[j] \in {"none", "exit", "dead"}

\* The attempt the handoff is at; that of a recovery counts once it launched.
AtLaunch == \E j \in DOMAIN job : ex[j] = "launch" /\ Recovers(j)
Base == IF AtLaunch THEN hand.attempt - 1 ELSE hand.attempt

\* The handoff is past the attempt that this job stopped at.
Past == {"awaiting_astra_review", "accepted", "changes_required", "correction_pending"}
Behind(j) == result[j].attempt < Base \/ (result[j].attempt = Base /\ hand.phase \in Past)

\* What is recovered or verified again is over.
RecoveredOK == \A i \in DOMAIN recs : recs[i].pred \in DOMAIN job /\ Over(recs[i].pred)
VerifiedOK(i) ==
    /\ vers[i].pred \in DOMAIN job /\ Over(vers[i].pred) /\ result[vers[i].pred].kind = "blocked"
    /\ vers[i].succ # 0 =>
          /\ vers[i].succ \in DOMAIN job
          /\ job[vers[i].succ].kind = "verification" /\ job[vers[i].succ].link = i
    /\ vers[i].outcome # None =>
          /\ vers[i].succ # 0 /\ ~live[vers[i].succ] /\ ex[vers[i].succ] \in {"publish", "exit", "dead"}
    /\ vers[i].reconciled => vers[i].succ # 0 /\ Over(vers[i].succ)
    /\ vers[i].status = "consumed" => Behind(vers[i].pred)
    /\ vers[i].succ # 0 /\ result[vers[i].succ].kind = "verified" => Behind(vers[i].pred)

\* A verification is retried when the earlier ones of that job are given up and quiet.
RetriedOK ==
    \A i, k \in DOMAIN vers : k < i /\ vers[k].pred = vers[i].pred =>
       /\ vers[k].status \notin {"consumed", "dispatched"}
       /\ vers[k].succ # 0 => Quiet(vers[k].succ)

AttemptsOK == \A j \in Legacy!Jobs : result[j].kind = "blocked" => result[j].attempt <= Base

QuietInv ==
    /\ \A j \in Legacy!Jobs : ProcessOK(j)
    /\ \A i \in DOMAIN vers : VerifiedOK(i)
    /\ RecoveredOK /\ RetriedOK /\ AttemptsOK

\* Before the first job nothing runs.
LEMMA QuietInit == ASSUME Legacy!Init PROVE QuietInv
<1>1. \A j \in Legacy!Jobs : ProcessOK(j)
  BY JobBounds DEF ProcessOK, Legacy!NoResult, Legacy!Init
<1>2. DOMAIN recs = {} /\ DOMAIN vers = {}
  BY DEF Legacy!Init
<1>3. AttemptsOK
  BY JobBounds DEF AttemptsOK, Legacy!NoResult, Legacy!Init
<1>4. RecoveredOK /\ RetriedOK
  BY <1>2 DEF RecoveredOK, RetriedOK
<1>5. \A i \in DOMAIN vers : VerifiedOK(i)
  BY <1>2
<1> QED BY <1>1, <1>3, <1>4, <1>5 DEF QuietInv

\* The property: whatever is not quiet blocks the room.
LEMMA IdleIsQuiet == ASSUME JobsInv, QuietInv PROVE Legacy!QuietWhenIdle
<1> SUFFICES ASSUME Legacy!_blocking_jobs(Legacy!_refresh, 0, 0) = {}, NEW j \in Legacy!Jobs, ~Quiet(j) PROVE FALSE
  BY DEF Legacy!QuietWhenIdle, Quiet
<1>1. /\ JobTypes /\ ProcessOK(j) /\ StageOK(j)
  BY DEF JobsInv, QuietInv
<1>2. j \in DOMAIN job
  BY <1>1 DEF Quiet, ProcessOK, StageOK, Legacy!Locked
<1>3. job[j].status \in {"queued", "running", "uncertain"}
  <2>1. job[j] \in JobRow
    BY <1>1, <1>2 DEF JobTypes
  <2> QED BY <1>1, <1>2, <2>1 DEF Quiet, ProcessOK, JobRow, Legacy!Locked
<1>4. j \in DOMAIN Legacy!_refresh /\ Legacy!_refresh[j].status \in Legacy!ACTIVE \cup {"uncertain"}
  BY <1>1, <1>2, <1>3 DEF Legacy!_refresh, Legacy!ACTIVE, JobTypes, JobRow
<1>5. j \in Legacy!_superseded(Legacy!_refresh, 0) \cup Legacy!_verification_edges(Legacy!_refresh, 0)
  BY <1>4 DEF Legacy!_blocking_jobs
<1>6. ~Over(j)
  BY DEF Over, Quiet, Legacy!Locked
<1>7. CASE j \in Legacy!_superseded(Legacy!_refresh, 0)
  <2>1. PICK i \in DOMAIN recs : j = recs[i].pred
    BY <1>7 DEF Legacy!_superseded
  <2> QED BY <1>6, <2>1 DEF QuietInv, RecoveredOK
<1>8. CASE j \in Legacy!_verification_edges(Legacy!_refresh, 0)
  <2> DEFINE edges == {i \in DOMAIN vers :
                \/ vers[i].status = "consumed" /\ ~Legacy!Active(Legacy!_refresh, vers[i].succ)
                \/ vers[i].status = "dispatched" /\ Legacy!Active(Legacy!_refresh, vers[i].succ)}
             covered == {vers[i].pred : i \in edges} \cup ({0} \ {0})
  <2>1. \/ j \in covered
        \/ j \in {vers[i].succ : i \in {i \in edges : vers[i].reconciled}}
        \/ j \in {vers[i].succ : i \in {i \in DOMAIN vers :
                    vers[i].status \in {"interrupted", "invalidated"} /\ vers[i].pred \in covered
                        /\ ~Legacy!Active(Legacy!_refresh, vers[i].succ)}}
    BY <1>8 DEF Legacy!_verification_edges
  <2>2. CASE j \in covered
    <3>1. PICK i \in DOMAIN vers : j = vers[i].pred
      BY <2>2
    <3> QED BY <1>6, <3>1 DEF QuietInv, VerifiedOK
  <2>3. CASE j \in {vers[i].succ : i \in {i \in edges : vers[i].reconciled}}
    <3>1. PICK i \in DOMAIN vers : j = vers[i].succ /\ vers[i].reconciled
      BY <2>3
    <3> QED BY <1>6, <3>1 DEF QuietInv, VerifiedOK
  <2>4. CASE j \in {vers[i].succ : i \in {i \in DOMAIN vers :
                       vers[i].status \in {"interrupted", "invalidated"} /\ vers[i].pred \in covered
                           /\ ~Legacy!Active(Legacy!_refresh, vers[i].succ)}}
    <3>1. PICK i \in DOMAIN vers : /\ j = vers[i].succ /\ vers[i].status \in {"interrupted", "invalidated"}
                                   /\ vers[i].pred \in covered
      BY <2>4
    <3>2. PICK k \in edges : vers[k].pred = vers[i].pred
      BY <3>1
    <3>3. k \in DOMAIN vers /\ vers[k].status \in {"consumed", "dispatched"}
      BY <3>2
    <3>4. i \in Nat /\ k \in Nat /\ i # k
      BY <1>1, <3>1, <3>3 DEF JobTypes
    <3>5. j # 0
      BY DEF Legacy!Jobs
    <3>6. CASE k < i
      BY <3>1, <3>2, <3>3, <3>6 DEF QuietInv, RetriedOK
    <3>7. CASE i < k
      BY <3>1, <3>2, <3>3, <3>5, <3>7 DEF QuietInv, RetriedOK
    <3> QED BY <3>4, <3>6, <3>7
  <2> QED BY <2>1, <2>2, <2>3, <2>4
<1> QED BY <1>5, <1>7, <1>8

-----------------------------------------------------------------------------
(***************************************************************************)
(* What a step may do to processes and rows, and why QuietInv survives it. *)
(***************************************************************************)
\* The same of the job after the step.
OverNext(j) == ex'[j] \in {"exit", "dead"} /\ ~live'[j]
QuietNext(j) == ex'[j] \notin Legacy!Locked /\ ~live'[j]
BehindNext(j) == result'[j].attempt < Base' \/ (result'[j].attempt = Base' /\ hand'.phase \in Past)

\* An executor that ended stays ended, one that has its outcome starts nothing,
\* and one whose row has been given up does not take the handoff.
ProcessMove(j) ==
    /\ ex[j] \in {"exit", "dead"} => ex'[j] = ex[j] /\ result'[j] = result[j] /\ (live'[j] => live[j])
    /\ ex[j] = "publish" => ex'[j] \in {"publish", "exit", "dead"} /\ (live'[j] => live[j])
    /\ Quiet(j) /\ j \in DOMAIN job /\ job[j].kind = "verification" /\ vers[job[j].link].status # "dispatched" =>
          QuietNext(j)

\* A result names an attempt the handoff has reached.
ResultMove(j) ==
    \/ result'[j] = result[j]
    \/ /\ result'[j].kind = "blocked" => result'[j].attempt <= Base'
       /\ result'[j].kind = "verified" =>
             job[j].kind = "verification" /\ BehindNext(vers[job[j].link].pred)

\* The handoff does not go back behind an attempt.
Advance == Base < Base' \/ (Base = Base' /\ (hand.phase \in Past => hand'.phase \in Past))

\* A new recovery or verification is of a job that is over; the rows that
\* exist keep to their jobs and do not leave a settled status.
RecoveriesMove ==
    /\ DOMAIN recs \subseteq DOMAIN recs'
    /\ \A i \in DOMAIN recs : recs'[i].pred = recs[i].pred
    /\ \A i \in DOMAIN recs' \ DOMAIN recs : recs'[i].pred \in DOMAIN job /\ Over(recs'[i].pred)

VerificationMove(i) ==
    /\ vers'[i].pred = vers[i].pred /\ vers'[i].succ = vers[i].succ
    /\ vers'[i].status = vers[i].status \/ vers[i].status = "dispatched"
    /\ \/ vers'[i].outcome = vers[i].outcome
       \/ /\ vers[i].succ # 0 /\ ~live'[vers[i].succ] /\ ex'[vers[i].succ] \in {"publish", "exit", "dead"}
    /\ vers'[i].reconciled => vers[i].reconciled \/ (vers[i].succ # 0 /\ OverNext(vers[i].succ))
    /\ vers'[i].status = "consumed" => vers[i].status = "consumed" \/ BehindNext(vers[i].pred)

NewVerification(i) ==
    /\ vers'[i].pred \in DOMAIN job /\ Over(vers'[i].pred) /\ result[vers'[i].pred].kind = "blocked"
    /\ vers'[i].succ # 0 =>
          /\ vers'[i].succ \in DOMAIN job'
          /\ job'[vers'[i].succ].kind = "verification" /\ job'[vers'[i].succ].link = i
          /\ result'[vers'[i].succ].kind # "verified"
    /\ vers'[i].outcome = None /\ ~vers'[i].reconciled /\ vers'[i].status # "consumed"
    /\ \A k \in DOMAIN vers : vers[k].pred = vers'[i].pred =>
          /\ vers[k].status \notin {"consumed", "dispatched"}
          /\ vers[k].succ # 0 => Quiet(vers[k].succ)

VerificationsMove ==
    /\ DOMAIN vers \subseteq DOMAIN vers' /\ DOMAIN vers' \subseteq DOMAIN vers \cup {Len(vers) + 1}
    /\ \A i \in DOMAIN vers : VerificationMove(i)
    /\ \A i \in DOMAIN vers' \ DOMAIN vers : NewVerification(i)

\* A job keeps its kind and what it is linked to.
JobsKept ==
    /\ DOMAIN job \subseteq DOMAIN job'
    /\ \A k \in DOMAIN job : job'[k].kind = job[k].kind /\ job'[k].link = job[k].link

\* What every step of the controller keeps to.
Conduct ==
    /\ JobsKept /\ RecoveriesMove /\ VerificationsMove /\ Advance
    /\ \A j \in Legacy!Jobs : ProcessMove(j) /\ ResultMove(j) /\ ProcessOK(j)'

\* An executor that is over stays over, with its result.
LEMMA StaysOver ==
    ASSUME NEW j \in Legacy!Jobs, ProcessMove(j), Over(j)
    PROVE  OverNext(j) /\ result'[j] = result[j]
BY DEF ProcessMove, Over, OverNext

\* What the handoff is past, it stays past.
LEMMA StaysBehind ==
    ASSUME NEW j \in Legacy!Jobs, result'[j] = result[j], Advance, Behind(j), JobTypes, JobTypes'
    PROVE  BehindNext(j)
<1>1. result[j].attempt \in Int /\ hand.attempt \in Int /\ hand'.attempt \in Int
  BY DEF JobTypes, Printed, HandoffState
<1>2. Base \in Int /\ Base' \in Int
  BY <1>1 DEF Base
<1>3. result'[j].attempt = result[j].attempt
  OBVIOUS
<1>4. PICK b \in Int : b = Base'
  BY <1>2
<1>5. result[j].attempt < b \/ (result[j].attempt = b /\ hand'.phase \in Past)
  BY <1>1, <1>2, <1>4 DEF Behind, Advance
<1> QED BY <1>3, <1>4, <1>5 DEF BehindNext

\* A step that conducts itself so keeps the controller quiet.
LEMMA QuietKept ==
    ASSUME JobsInv, JobsInv', QuietInv, Conduct
    PROVE  QuietInv'
<1>1. /\ JobTypes /\ JobTypes' /\ \A j \in Legacy!Jobs : ProcessMove(j) /\ ResultMove(j) /\ ProcessOK(j)'
      /\ JobsKept /\ RecoveriesMove /\ VerificationsMove /\ Advance
      /\ \A i \in DOMAIN vers : VerifiedOK(i)
      /\ RecoveredOK /\ RetriedOK /\ AttemptsOK
  BY DEF JobsInv, QuietInv, Conduct
<1>2. /\ DOMAIN job \subseteq Legacy!Jobs /\ DOMAIN job' \subseteq Legacy!Jobs
      /\ DOMAIN vers \subseteq Nat /\ DOMAIN vers' \subseteq Nat
      /\ DOMAIN vers = 1 .. Len(vers) /\ Len(vers) \in Nat
  <2>1. MaxJobs \in Nat
    BY JobBounds
  <2>2. /\ Len(job) \in Nat /\ DOMAIN job = 1 .. Len(job) /\ Len(job) <= MaxJobs
        /\ Len(vers) \in Nat /\ DOMAIN vers = 1 .. Len(vers)
    BY <1>1 DEF JobTypes
  <2>3. /\ Len(job') \in Nat /\ DOMAIN job' = 1 .. Len(job') /\ Len(job') <= MaxJobs
        /\ Len(vers') \in Nat /\ DOMAIN vers' = 1 .. Len(vers')
    BY <1>1 DEF JobTypes
  <2> QED BY <2>1, <2>2, <2>3 DEF Legacy!Jobs
<1>3. RecoveredOK'
  <2>1. ASSUME NEW i \in DOMAIN recs' PROVE recs'[i].pred \in DOMAIN job' /\ OverNext(recs'[i].pred)
    <3>1. PICK p : p = recs'[i].pred
      OBVIOUS
    <3>2. p \in DOMAIN job /\ Over(p)
      BY <1>1, <2>1, <3>1 DEF RecoveredOK, RecoveriesMove
    <3>3. OverNext(p) /\ p \in DOMAIN job'
      BY <1>1, <1>2, <3>2, StaysOver DEF JobsKept
    <3> QED BY <3>1, <3>3
  <2> QED BY <2>1 DEF RecoveredOK, Over, OverNext
<1>4. ASSUME NEW i \in DOMAIN vers' PROVE VerifiedOK(i)'
  <2>1. PICK p : p = vers'[i].pred
    OBVIOUS
  <2>2. PICK s : s = vers'[i].succ
    OBVIOUS
  <2>3. p \in DOMAIN job /\ Over(p) /\ result[p].kind = "blocked"
    BY <1>1, <2>1, <1>4 DEF VerifiedOK, VerificationsMove, VerificationMove, NewVerification
  <2>4. p \in DOMAIN job' /\ OverNext(p) /\ result'[p] = result[p] /\ p \in Legacy!Jobs
    BY <1>1, <1>2, <2>3, StaysOver DEF JobsKept
  <2>5. s # 0 => s \in DOMAIN job' /\ job'[s].kind = "verification" /\ job'[s].link = i
    BY <1>1, <2>2, <1>4 DEF VerifiedOK, VerificationsMove, VerificationMove, NewVerification, JobsKept
  <2>6. s # 0 => s \in Legacy!Jobs
    BY <1>2, <2>5
  <2>7. vers'[i].outcome # None => s # 0 /\ ~live'[s] /\ ex'[s] \in {"publish", "exit", "dead"}
    <3>1. CASE i \in DOMAIN vers
      <4>1. vers[i].succ = s /\ VerifiedOK(i)
        BY <1>1, <2>2, <3>1 DEF VerificationsMove, VerificationMove
      <4>2. CASE vers'[i].outcome = vers[i].outcome
        BY <1>1, <2>6, <4>1, <4>2 DEF VerifiedOK, ProcessMove
      <4>3. CASE vers'[i].outcome # vers[i].outcome
        BY <1>1, <3>1, <4>1, <4>3 DEF VerificationsMove, VerificationMove
      <4> QED BY <4>2, <4>3
    <3>2. CASE i \notin DOMAIN vers
      BY <1>1, <1>4, <3>2 DEF VerificationsMove, NewVerification
    <3> QED BY <3>1, <3>2
  <2>8. vers'[i].reconciled => s # 0 /\ OverNext(s)
    <3>1. CASE i \in DOMAIN vers
      <4>1. vers[i].succ = s /\ VerifiedOK(i) /\ VerificationMove(i)
        BY <1>1, <2>2, <3>1 DEF VerificationsMove, VerificationMove
      <4>2. CASE vers[i].reconciled
        BY <1>1, <2>6, <4>1, <4>2, StaysOver DEF VerifiedOK
      <4>3. CASE ~vers[i].reconciled
        BY <4>1, <4>3 DEF VerificationMove
      <4> QED BY <4>2, <4>3
    <3>2. CASE i \notin DOMAIN vers
      BY <1>1, <1>4, <3>2 DEF VerificationsMove, NewVerification
    <3> QED BY <3>1, <3>2
  <2>9. vers'[i].status = "consumed" => BehindNext(p)
    <3>1. CASE i \in DOMAIN vers
      <4>1. vers[i].pred = p /\ VerifiedOK(i) /\ VerificationMove(i)
        BY <1>1, <2>1, <3>1 DEF VerificationsMove, VerificationMove
      <4>2. CASE vers[i].status = "consumed"
        BY <1>1, <2>4, <4>1, <4>2, StaysBehind DEF VerifiedOK
      <4>3. CASE vers[i].status # "consumed"
        BY <4>1, <4>3 DEF VerificationMove
      <4> QED BY <4>2, <4>3
    <3>2. CASE i \notin DOMAIN vers
      BY <1>1, <1>4, <3>2 DEF VerificationsMove, NewVerification
    <3> QED BY <3>1, <3>2
  <2>10. s # 0 /\ result'[s].kind = "verified" => BehindNext(p)
    <3> SUFFICES ASSUME s # 0, result'[s].kind = "verified" PROVE BehindNext(p)
      OBVIOUS
    <3>1. i \in DOMAIN vers
      BY <1>1, <1>4, <2>2 DEF VerificationsMove, NewVerification
    <3>2. vers[i].pred = p /\ vers[i].succ = s /\ VerifiedOK(i)
      BY <1>1, <2>1, <2>2, <3>1 DEF VerificationsMove, VerificationMove
    <3>3. CASE result'[s] = result[s]
      BY <1>1, <2>4, <3>2, <3>3, StaysBehind DEF VerifiedOK
    <3>4. CASE result'[s] # result[s]
      <4>1. job[s].link = i
        BY <3>2 DEF VerifiedOK
      <4> QED BY <1>1, <2>6, <3>2, <3>4, <4>1 DEF ResultMove
    <3> QED BY <3>3, <3>4
  <2> QED BY <2>1, <2>2, <2>3, <2>4, <2>5, <2>7, <2>8, <2>9, <2>10 DEF VerifiedOK, Over, Behind, OverNext, BehindNext
<1>5. RetriedOK'
  <2>1. ASSUME NEW i \in DOMAIN vers', NEW k \in DOMAIN vers', k < i, vers'[k].pred = vers'[i].pred
        PROVE  vers'[k].status \notin {"consumed", "dispatched"} /\ (vers'[k].succ # 0 => QuietNext(vers'[k].succ))
    <3>1. k \in DOMAIN vers
      BY <1>1, <1>2, <2>1 DEF VerificationsMove
    <3>2. VerificationMove(k) /\ VerifiedOK(k)
      BY <1>1, <3>1 DEF VerificationsMove
    <3>3. PICK s : s = vers[k].succ
      OBVIOUS
    <3>4. vers[k].status \notin {"consumed", "dispatched"} /\ (s # 0 => Quiet(s))
      <4>1. CASE i \in DOMAIN vers
        BY <1>1, <2>1, <3>1, <3>2, <3>3, <4>1 DEF RetriedOK, VerificationsMove, VerificationMove
      <4>2. CASE i \notin DOMAIN vers
        <5>1. NewVerification(i)
          BY <1>1, <2>1, <4>2 DEF VerificationsMove
        <5>2. vers[k].pred = vers'[i].pred
          BY <2>1, <3>2 DEF VerificationMove
        <5> QED BY <3>1, <3>3, <5>1, <5>2 DEF NewVerification
      <4> QED BY <4>1, <4>2
    <3>5. vers'[k].status = vers[k].status /\ vers'[k].succ = s
      BY <3>2, <3>3, <3>4 DEF VerificationMove
    <3>6. s # 0 => QuietNext(s)
      <4>1. s # 0 => s \in DOMAIN job /\ s \in Legacy!Jobs /\ job[s].kind = "verification" /\ job[s].link = k
        BY <1>2, <3>2, <3>3 DEF VerifiedOK
      <4> QED BY <1>1, <3>4, <4>1 DEF ProcessMove
    <3> QED BY <3>4, <3>5, <3>6
  <2> QED BY <2>1 DEF RetriedOK, Quiet, QuietNext
<1>6. AttemptsOK'
  <2>1. ASSUME NEW j \in Legacy!Jobs, result'[j].kind = "blocked" PROVE result'[j].attempt <= Base'
    <3>1. CASE result'[j] = result[j]
      <4>1. /\ result[j].attempt \in Int /\ hand.attempt \in Int /\ hand'.attempt \in Int
        BY <1>1 DEF JobTypes, Printed, HandoffState
      <4>2. PICK a \in Int : a = Base
        BY <4>1 DEF Base
      <4>3. PICK b \in Int : b = Base'
        BY <4>1 DEF Base
      <4>4. result[j].attempt <= a /\ a <= b
        BY <1>1, <2>1, <3>1, <4>2, <4>3 DEF AttemptsOK, Advance
      <4>5. result[j].attempt <= b
        BY <4>1, <4>4
      <4> QED BY <3>1, <4>3, <4>5
    <3>2. CASE result'[j] # result[j]
      BY <1>1, <2>1, <3>2 DEF ResultMove
    <3> QED BY <3>1, <3>2
  <2> QED BY <2>1 DEF AttemptsOK, Legacy!Jobs
<1> QED BY <1>1, <1>3, <1>4, <1>5, <1>6 DEF QuietInv, Legacy!Jobs

-----------------------------------------------------------------------------
(***************************************************************************)
(* The effects of an executor's step.                                      *)
(***************************************************************************)
LEMMA ExitEffect ==
    ASSUME JobTypes, NEW j \in Legacy!Jobs, NEW kind, NEW g, Legacy!Exit(j, kind, g)
    PROVE  /\ ex'[j] = "exit" /\ hand' = g /\ result'[j].kind = kind /\ result'[j].attempt = g.attempt
           /\ \A k \in Legacy!Jobs \ {j} : ex'[k] = ex[k] /\ result'[k] = result[k]
BY DEF JobTypes, Legacy!Exit, Legacy!Result

\* Entering a stage changes one executor and no result.
LEMMA EnterEffect ==
    ASSUME JobTypes, NEW j \in Legacy!Jobs, NEW stage, Legacy!Enter(j, stage)
    PROVE  /\ ex'[j] = stage /\ result' = result
           /\ \A k \in Legacy!Jobs \ {j} : ex'[k] = ex[k]
BY DEF JobTypes, Legacy!Enter

\* Reaping changes one process.
LEMMA ReapedEffect ==
    ASSUME JobTypes, NEW j \in Legacy!Jobs, Legacy!Reaped(j)
    PROVE  ~live'[j] /\ \A k \in Legacy!Jobs \ {j} : live'[k] = live[k]
BY DEF JobTypes, Legacy!Reaped

\* The one launcher there may be.
LEMMA OneLauncher ==
    ASSUME JobsInv, NEW j \in DOMAIN job, ex[j] \in Legacy!Locked
    PROVE  AtLaunch <=> ex[j] = "launch" /\ Recovers(j)
<1>1. OneLocked /\ \A k \in DOMAIN job : k \in Legacy!Jobs
  BY InJobs DEF JobsInv
<1>2. "launch" \in Legacy!Locked
  BY DEF Legacy!Locked
<1> QED BY <1>1, <1>2 DEF AtLaunch, OneLocked

\* With the lock free nobody is launching.
LEMMA NoLauncher ==
    ASSUME JobTypes, Legacy!LockFree
    PROVE  ~AtLaunch /\ Base = hand.attempt
<1>1. "launch" \in Legacy!Locked
  BY DEF Legacy!Locked
<1> QED BY <1>1, InJobs DEF AtLaunch, Base, Legacy!LockFree

\* The attempt that counts is at most the handoff's.
LEMMA BaseType == ASSUME JobTypes PROVE Base \in Int /\ hand.attempt \in Int /\ Base <= hand.attempt
<1>1. hand.attempt \in Int
  BY DEF JobTypes, HandoffState
<1> QED BY <1>1 DEF Base

\* Nobody launches once the executor that holds the handoff is past it.
LEMMA NoLauncherNext ==
    ASSUME JobsInv, NEW j \in DOMAIN job, ex[j] \in Legacy!Locked, job' = job, ex'[j] # "launch",
           \A k \in Legacy!Jobs \ {j} : ex'[k] = ex[k]
    PROVE  Base' = hand'.attempt
<1>1. OneLocked /\ \A k \in DOMAIN job : k \in Legacy!Jobs
  BY InJobs DEF JobsInv
<1>2. "launch" \in Legacy!Locked
  BY DEF Legacy!Locked
<1>3. \A k \in DOMAIN job : ex'[k] # "launch"
  BY <1>1, <1>2 DEF OneLocked
<1> QED BY <1>3 DEF Base, AtLaunch

\* Rows of verifications that a step leaves alone.
LEMMA VerificationsKept ==
    ASSUME JobTypes, vers' = vers
    PROVE  VerificationsMove
BY DEF VerificationsMove, VerificationMove, JobTypes

\* Recoveries, but for their launches.
LEMMA RecoveriesKept ==
    ASSUME JobsInv, NEW j \in DOMAIN job,
           \/ recs' = recs
           \/ Recovers(j) /\ recs' = [recs EXCEPT ![job[j].link].launches = @ + 1]
    PROVE  RecoveriesMove
<1>1. CASE recs' = recs
  BY <1>1 DEF RecoveriesMove
<1>2. CASE Recovers(j) /\ recs' = [recs EXCEPT ![job[j].link].launches = @ + 1]
  <2>1. JobTypes /\ job[j].link \in DOMAIN recs
    BY <1>2, InJobs DEF JobsInv, RecoveryOK
  <2>2. recs \in Seq(RecoveryRow) /\ \A m \in DOMAIN recs : recs[m] \in RecoveryRow
    BY <2>1 DEF JobTypes
  <2>3. DOMAIN recs' = DOMAIN recs /\ \A m \in DOMAIN recs : recs'[m].pred = recs[m].pred
    BY <1>2, <2>1, <2>2 DEF RecoveryRow
  <2> QED BY <2>3 DEF RecoveriesMove
<1> QED BY <1>1, <1>2

\* A step of one executor.
LEMMA ExecutorConduct ==
    ASSUME JobsInv, JobsInv', QuietInv, NEW j \in DOMAIN job, UNCHANGED <<job, sup>>,
           \A k \in Legacy!Jobs \ {j} : ex'[k] = ex[k] /\ result'[k] = result[k] /\ live'[k] = live[k],
           \/ recs' = recs
           \/ Recovers(j) /\ recs' = [recs EXCEPT ![job[j].link].launches = @ + 1],
           VerificationsMove, ProcessMove(j), ResultMove(j), ProcessOK(j)', Advance
    PROVE  QuietInv'
<1>1. JobsKept
  BY DEF JobsKept
<1>2. RecoveriesMove
  BY RecoveriesKept
<1>3. ASSUME NEW k \in Legacy!Jobs, k # j PROVE ProcessMove(k) /\ ResultMove(k) /\ ProcessOK(k)'
  <2>1. ex'[k] = ex[k] /\ result'[k] = result[k] /\ live'[k] = live[k] /\ sup'[k] = sup[k]
    BY <1>3
  <2>2. ProcessMove(k) /\ ResultMove(k)
    BY <2>1 DEF ProcessMove, ResultMove, Quiet, QuietNext
  <2>3. ProcessOK(k)'
    BY <2>1 DEF QuietInv, ProcessOK, Legacy!Leased
  <2> QED BY <2>2, <2>3
<1>4. \A k \in Legacy!Jobs : ProcessMove(k) /\ ResultMove(k) /\ ProcessOK(k)'
  BY <1>3
<1>5. Conduct
  BY <1>1, <1>2, <1>4 DEF Conduct
<1> QED BY <1>5, QuietKept

\* A step of the executor that holds the handoff, past the launch.
LEMMA LockedConduct ==
    ASSUME JobsInv, JobsInv', QuietInv, NEW j \in DOMAIN job, ex[j] \in Legacy!Locked, UNCHANGED <<job, sup>>,
           \A k \in Legacy!Jobs \ {j} : ex'[k] = ex[k] /\ result'[k] = result[k] /\ live'[k] = live[k],
           \/ recs' = recs
           \/ Recovers(j) /\ recs' = [recs EXCEPT ![job[j].link].launches = @ + 1],
           VerificationsMove,
           ex'[j] \in {"child", "gates", "publish", "exit", "dead"},
           ex[j] = "publish" => ex'[j] \in {"exit", "dead"} /\ (live'[j] => live[j]),
           hand'.attempt >= Base,
           \/ result'[j] = result[j]
           \/ /\ result'[j].attempt = hand'.attempt
              /\ result'[j].kind = "verified" =>
                    job[j].kind = "verification" /\ BehindNext(vers[job[j].link].pred),
           live'[j] => ex'[j] # "publish",
           result'[j].kind \in {"awaiting", "scope", "verified", "refused"} => ~live'[j]
    PROVE  QuietInv'
<1>1. JobTypes /\ JobTypes' /\ j \in Legacy!Jobs /\ ProcessOK(j) /\ StageOK(j)
  BY InJobs DEF JobsInv, QuietInv
<1>2. ProcessMove(j)
  BY DEF ProcessMove, Quiet, Legacy!Locked
<1>3. Base' = hand'.attempt /\ Base \in Int /\ hand'.attempt \in Int
  <2>1. hand'.attempt \in Int
    BY <1>1 DEF JobTypes, HandoffState
  <2> QED BY <1>1, <2>1, NoLauncherNext, BaseType
<1>4. ResultMove(j)
  BY <1>3 DEF ResultMove
<1>5. hand.phase \notin Past
  BY <1>1 DEF StageOK, Past, Legacy!Locked
<1>6. Advance
  BY <1>3, <1>5 DEF Advance
<1>7. ProcessOK(j)'
  BY <1>1 DEF ProcessOK, Legacy!Locked
<1> QED BY <1>2, <1>4, <1>6, <1>7, ExecutorConduct

\* What the verifier j may have done to the rows: the file, and its outcome.
Written(j) ==
    /\ DOMAIN vers' = DOMAIN vers
    /\ \A m \in DOMAIN vers :
          /\ vers'[m].pred = vers[m].pred /\ vers'[m].succ = vers[m].succ
          /\ vers'[m].status = vers[m].status /\ vers'[m].reconciled = vers[m].reconciled
          /\ vers'[m].outcome = vers[m].outcome \/ vers[m].succ = j

\* Writing the outcome file touches only the job's own row.
LEMMA FileWritten ==
    ASSUME JobTypes, NEW j \in DOMAIN job, job[j].link \in DOMAIN vers
    PROVE  vers' = Legacy!_write_outcome(vers, job[j].link) => Written(j)
<1> DEFINE i == job[j].link
<1>1. \A m \in DOMAIN vers : vers[m] \in VerificationRow
  BY DEF JobTypes
<1>2. PICK new : new = [vers[i] EXCEPT !.file = TRUE]
  OBVIOUS
<1>3. /\ new.pred = vers[i].pred /\ new.succ = vers[i].succ /\ new.status = vers[i].status
      /\ new.reconciled = vers[i].reconciled /\ new.outcome = vers[i].outcome
  BY <1>1, <1>2 DEF VerificationRow
<1>4. ASSUME vers' = Legacy!_write_outcome(vers, i) PROVE vers' = [vers EXCEPT ![i] = new]
  BY <1>2, <1>4 DEF Legacy!_write_outcome
<1>5. ASSUME vers' = [vers EXCEPT ![i] = new] PROVE Written(j)
  BY <1>3, <1>5 DEF Written
<1> QED BY <1>4, <1>5

\* Registering an outcome touches only the job's own row.
LEMMA OutcomeNoted ==
    ASSUME JobTypes, NEW j \in DOMAIN job, job[j].link \in DOMAIN vers, NEW outcome
    PROVE  vers' = Legacy!_register_outcome(j, outcome) => Written(j)
<1> DEFINE i == job[j].link
           verdict == IF Legacy!_registered_verifier(j) /\ vers[i].outcome = None THEN outcome ELSE vers[i].outcome
<1>1. \A m \in DOMAIN vers : vers[m] \in VerificationRow
  BY DEF JobTypes
<1>2. PICK new : new = [vers[i] EXCEPT !.outcome = verdict]
  OBVIOUS
<1>3. /\ new.pred = vers[i].pred /\ new.succ = vers[i].succ /\ new.status = vers[i].status
      /\ new.reconciled = vers[i].reconciled /\ new.outcome = verdict
  BY <1>1, <1>2 DEF VerificationRow
<1>4. verdict = vers[i].outcome \/ vers[i].succ = j
  BY DEF Legacy!_registered_verifier, Legacy!_registered
<1>5. ASSUME vers' = Legacy!_register_outcome(j, outcome) PROVE vers' = [vers EXCEPT ![i] = new]
  BY <1>2, <1>5 DEF Legacy!_register_outcome
<1> HIDE DEF verdict
<1>6. ASSUME vers' = [vers EXCEPT ![i] = new] PROVE Written(j)
  BY <1>3, <1>4, <1>6 DEF Written
<1> QED BY <1>5, <1>6

\* So does doing both.
LEMMA OutcomeFiled ==
    ASSUME JobTypes, NEW j \in DOMAIN job, job[j].link \in DOMAIN vers, NEW outcome
    PROVE  vers' = Legacy!_write_outcome(Legacy!_register_outcome(j, outcome), job[j].link) => Written(j)
<1> DEFINE i == job[j].link
           verdict == IF Legacy!_registered_verifier(j) /\ vers[i].outcome = None THEN outcome ELSE vers[i].outcome
<1>1. \A m \in DOMAIN vers : vers[m] \in VerificationRow
  BY DEF JobTypes
<1>2. PICK new : new = [vers[i] EXCEPT !.outcome = verdict]
  OBVIOUS
<1>3. PICK filed : filed = [new EXCEPT !.file = TRUE]
  OBVIOUS
<1>4. /\ filed.pred = vers[i].pred /\ filed.succ = vers[i].succ /\ filed.status = vers[i].status
      /\ filed.reconciled = vers[i].reconciled /\ filed.outcome = verdict
  BY <1>1, <1>2, <1>3 DEF VerificationRow
<1>5. verdict = vers[i].outcome \/ vers[i].succ = j
  BY DEF Legacy!_registered_verifier, Legacy!_registered
<1>6. Legacy!_register_outcome(j, outcome) = [vers EXCEPT ![i] = new]
  BY <1>2 DEF Legacy!_register_outcome
<1>7. Legacy!_write_outcome([vers EXCEPT ![i] = new], i) = [vers EXCEPT ![i] = filed]
  BY <1>3 DEF Legacy!_write_outcome
<1> HIDE DEF verdict
<1>8. ASSUME vers' = [vers EXCEPT ![i] = filed] PROVE Written(j)
  BY <1>4, <1>5, <1>8 DEF Written
<1> QED BY <1>6, <1>7, <1>8

\* An executor that writes its outcome has reaped what it started.
LEMMA WrittenMoves ==
    ASSUME JobTypes, NEW j \in Nat \ {0}, Written(j), ~live'[j], ex'[j] \in {"publish", "exit", "dead"}
    PROVE  VerificationsMove
<1>1. ASSUME NEW m \in DOMAIN vers PROVE VerificationMove(m)
  BY <1>1 DEF Written, VerificationMove
<1> QED BY <1>1 DEF Written, VerificationsMove

\* The model is launched, of an implementation or of a recovery.
LEMMA LaunchQuiet ==
    ASSUME JobsInv, JobsInv', QuietInv, NEW j \in DOMAIN job, Legacy!LaunchModel(j)
    PROVE  QuietInv'
<1>1. JobTypes /\ j \in Legacy!Jobs /\ hand \in HandoffState /\ StageOK(j)
  BY InJobs DEF JobsInv, JobTypes
<1>2. /\ ex[j] = "launch" /\ ex[j] \in Legacy!Locked /\ Legacy!Enter(j, "child")
      /\ live' = [live EXCEPT ![j] = TRUE] /\ hand'.attempt = hand.attempt
      /\ UNCHANGED <<job, vers, sup>>
      /\ recs' = recs \/ (job[j].link # 0 /\ recs' = [recs EXCEPT ![job[j].link].launches = @ + 1])
  BY <1>1 DEF Legacy!LaunchModel, Legacy!Locked, HandoffState
<1>3. /\ ex'[j] = "child" /\ result' = result
      /\ \A k \in Legacy!Jobs \ {j} : ex'[k] = ex[k] /\ result'[k] = result[k] /\ live'[k] = live[k]
  BY <1>1, <1>2, EnterEffect DEF JobTypes
<1>4. job[j].link # 0 => Recovers(j)
  BY <1>1, <1>2 DEF StageOK, Recovers
<1>5. result'[j].kind \notin {"awaiting", "scope", "verified", "refused"}
  <2>1. result[j] = Legacy!NoResult
    BY <1>1, <1>2 DEF StageOK
  <2> QED BY <1>3, <2>1, JobBounds DEF Legacy!NoResult
<1> QED BY <1>1, <1>2, <1>3, <1>4, <1>5, BaseType, VerificationsKept, LockedConduct

\* A launch that is refused starts no process.
LEMMA NotLaunchedQuiet ==
    ASSUME JobsInv, JobsInv', QuietInv, NEW j \in DOMAIN job, ex[j] = "launch", Legacy!NotLaunched(j),
           UNCHANGED <<job, recs, vers, sup, live>>
    PROVE  QuietInv'
<1>1. /\ JobTypes /\ j \in Legacy!Jobs /\ hand \in HandoffState /\ StageOK(j) /\ ProcessOK(j)
      /\ ex[j] \in Legacy!Locked
  BY InJobs DEF JobsInv, JobTypes, QuietInv, Legacy!Locked
<1>2. ~live[j]
  BY <1>1 DEF ProcessOK
<1>3. PICK kind, g : kind \in {"refused", "blocked"} /\ Legacy!Exit(j, kind, g) /\ g.attempt >= Base
  <2>1. CASE job[j].link # 0
    <3>1. Base = hand.attempt - 1
      BY <1>1, <2>1, OneLauncher DEF Base, StageOK, Recovers
    <3>2. PICK g : g = [hand EXCEPT !.phase = "recovery_prepared", !.attempt = @ - 1, !.diag = "model"]
      OBVIOUS
    <3>3. g.attempt = hand.attempt - 1
      BY <1>1, <3>2 DEF HandoffState
    <3>4. Legacy!Exit(j, "refused", g)
      BY <2>1, <3>2 DEF Legacy!NotLaunched
    <3> QED BY <1>1, <3>1, <3>3, <3>4, BaseType
  <2>2. CASE job[j].link = 0
    <3>1. PICK g : g = Legacy!Blocked(hand, None)
      OBVIOUS
    <3>2. g.attempt = hand.attempt
      BY <1>1, <3>1 DEF HandoffState, Legacy!Blocked
    <3>3. Legacy!Exit(j, "blocked", g)
      BY <2>2, <3>1 DEF Legacy!NotLaunched
    <3> QED BY <1>1, <3>2, <3>3, BaseType
  <2> QED BY <2>1, <2>2
<1>4. /\ ex'[j] = "exit" /\ hand' = g /\ result'[j].kind = kind /\ result'[j].attempt = g.attempt
      /\ \A k \in Legacy!Jobs \ {j} : ex'[k] = ex[k] /\ result'[k] = result[k] /\ live'[k] = live[k]
  BY <1>1, <1>3, ExitEffect
<1> QED BY <1>1, <1>2, <1>3, <1>4, VerificationsKept, LockedConduct

\* The model ends: gates follow, or the executor exits with nothing alive.
LEMMA ModelEndsQuiet ==
    ASSUME JobsInv, JobsInv', QuietInv, NEW j \in DOMAIN job, NEW content \in Contents, Legacy!ModelEnds(j, content)
    PROVE  QuietInv'
<1>1. JobTypes /\ j \in Legacy!Jobs /\ hand \in HandoffState /\ StageOK(j)
  BY InJobs DEF JobsInv, JobTypes
<1>2. /\ ex[j] = "child" /\ ex[j] \in Legacy!Locked /\ UNCHANGED <<job, recs, vers, sup>>
      /\ \/ /\ Legacy!Enter(j, "gates") /\ UNCHANGED live
            /\ hand' = [hand EXCEPT !.candidate = content, !.phase = "running_gates"]
         \/ /\ Legacy!Reaped(j)
            /\ \/ Legacy!Exit(j, "scope", [hand EXCEPT !.candidate = content, !.phase = "scope_change"])
               \/ \E diag \in Legacy!Diagnoses : Legacy!Exit(j, "blocked", Legacy!Blocked(hand, diag))
  BY <1>1 DEF Legacy!ModelEnds, Legacy!Locked
<1>3. CASE /\ Legacy!Enter(j, "gates") /\ UNCHANGED live
           /\ hand' = [hand EXCEPT !.candidate = content, !.phase = "running_gates"]
  <2>1. hand'.attempt = hand.attempt
    BY <1>1, <1>3 DEF HandoffState
  <2>2. /\ ex'[j] = "gates" /\ result' = result
        /\ \A k \in Legacy!Jobs \ {j} : ex'[k] = ex[k] /\ result'[k] = result[k] /\ live'[k] = live[k]
    BY <1>1, <1>3, EnterEffect
  <2>3. result'[j].kind \notin {"awaiting", "scope", "verified", "refused"}
    <3>1. result[j] = Legacy!NoResult
      BY <1>1, <1>2 DEF StageOK
    <3> QED BY <2>2, <3>1, JobBounds DEF Legacy!NoResult
  <2> QED BY <1>1, <1>2, <2>1, <2>2, <2>3, BaseType, VerificationsKept, LockedConduct
<1>4. ASSUME Legacy!Reaped(j), NEW kind \in {"scope", "blocked"}, NEW g, Legacy!Exit(j, kind, g), g.attempt = hand.attempt
      PROVE  QuietInv'
  <2>1. /\ ex'[j] = "exit" /\ hand' = g /\ result'[j].kind = kind /\ result'[j].attempt = g.attempt /\ ~live'[j]
        /\ \A k \in Legacy!Jobs \ {j} : ex'[k] = ex[k] /\ result'[k] = result[k] /\ live'[k] = live[k]
    BY <1>1, <1>4, ExitEffect, ReapedEffect
  <2> QED BY <1>1, <1>2, <1>4, <2>1, BaseType, VerificationsKept, LockedConduct
<1>5. /\ [hand EXCEPT !.candidate = content, !.phase = "scope_change"].attempt = hand.attempt
      /\ \A diag \in Legacy!Diagnoses : Legacy!Blocked(hand, diag).attempt = hand.attempt
  BY <1>1 DEF HandoffState, Legacy!Blocked
<1> QED BY <1>2, <1>3, <1>4, <1>5

\* The executor that holds the handoff ends with a result other than a verification's.
LEMMA LockedExitQuiet ==
    ASSUME JobsInv, JobsInv', QuietInv, NEW j \in DOMAIN job, ex[j] \in Legacy!Locked,
           NEW kind \in {"awaiting", "scope", "refused", "blocked", "uncertain", "interrupted", "unsettled"},
           NEW g, Legacy!Exit(j, kind, g), g.attempt = hand.attempt, UNCHANGED <<job, sup>>,
           \/ recs' = recs
           \/ Recovers(j) /\ recs' = [recs EXCEPT ![job[j].link].launches = @ + 1],
           VerificationsMove,
           \A k \in Legacy!Jobs \ {j} : live'[k] = live[k],
           live'[j] => kind = "blocked" /\ ex[j] # "publish"
    PROVE  QuietInv'
<1>1. JobTypes /\ j \in Legacy!Jobs
  BY InJobs DEF JobsInv
<1>2. /\ ex'[j] = "exit" /\ hand' = g /\ result'[j].kind = kind /\ result'[j].attempt = g.attempt
      /\ \A k \in Legacy!Jobs \ {j} : ex'[k] = ex[k] /\ result'[k] = result[k]
  BY <1>1, ExitEffect
<1>3. hand'.attempt >= Base
  BY <1>1, <1>2, BaseType
<1> QED BY <1>1, <1>2, <1>3, LockedConduct

\* The gates end and the executor exits with nothing alive.
LEMMA GatesEndQuiet ==
    ASSUME JobsInv, JobsInv', QuietInv, NEW j \in DOMAIN job, Legacy!GatesEnd(j)
    PROVE  QuietInv'
<1>1. JobTypes /\ j \in Legacy!Jobs /\ hand \in HandoffState
  BY InJobs DEF JobsInv, JobTypes
<1>2. /\ ex[j] \in Legacy!Locked /\ Legacy!Reaped(j) /\ UNCHANGED <<job, recs, vers, sup>>
      /\ \/ \E diag \in {"gate", None} : Legacy!Exit(j, "blocked", Legacy!Blocked(hand, diag))
         \/ \E ok \in BOOLEAN : Legacy!Exit(j, "awaiting", [hand EXCEPT !.phase = "awaiting_astra_review", !.passed = ok])
  BY DEF Legacy!GatesEnd, Legacy!Locked
<1>3. ~live'[j] /\ \A k \in Legacy!Jobs \ {j} : live'[k] = live[k]
  BY <1>1, <1>2, ReapedEffect
<1>4. ASSUME NEW diag, Legacy!Exit(j, "blocked", Legacy!Blocked(hand, diag)) PROVE QuietInv'
  <2>1. PICK g : g = Legacy!Blocked(hand, diag)
    OBVIOUS
  <2>2. g.attempt = hand.attempt
    BY <1>1, <2>1 DEF HandoffState, Legacy!Blocked
  <2>3. Legacy!Exit(j, "blocked", g)
    BY <1>4, <2>1
  <2> QED BY <1>1, <1>2, <1>3, <2>2, <2>3, VerificationsKept, LockedExitQuiet
<1>5. ASSUME NEW ok, Legacy!Exit(j, "awaiting", [hand EXCEPT !.phase = "awaiting_astra_review", !.passed = ok])
      PROVE  QuietInv'
  <2>1. PICK g : g = [hand EXCEPT !.phase = "awaiting_astra_review", !.passed = ok]
    OBVIOUS
  <2>2. g.attempt = hand.attempt
    BY <1>1, <2>1 DEF HandoffState
  <2>3. Legacy!Exit(j, "awaiting", g)
    BY <1>5, <2>1
  <2> QED BY <1>1, <1>2, <1>3, <2>2, <2>3, VerificationsKept, LockedExitQuiet
<1> QED BY <1>2, <1>4, <1>5

\* An interrupted executor reaps its process before it leaves.
LEMMA InterruptQuiet ==
    ASSUME JobsInv, JobsInv', QuietInv, NEW j \in DOMAIN job, ex[j] = "verify",
           Legacy!Interrupt(j, job[j].link), Legacy!Reaped(j), UNCHANGED <<job, recs, sup>>
    PROVE  QuietInv'
<1>1. JobTypes /\ j \in Legacy!Jobs /\ j \in Nat \ {0} /\ hand \in HandoffState /\ ex[j] \in Legacy!Locked
  BY InJobs DEF JobsInv, JobTypes, Legacy!Locked, Legacy!Jobs
<1>2. job[j].link \in DOMAIN vers
  BY <1>1, Holder
<1>3. PICK g : g = [hand EXCEPT !.phase = "blocked", !.verification = 0]
  OBVIOUS
<1>4. g.attempt = hand.attempt
  BY <1>1, <1>3 DEF HandoffState
<1>5. /\ Legacy!Exit(j, "interrupted", g)
      /\ vers' = Legacy!_write_outcome(Legacy!_register_outcome(j, "interrupted"), job[j].link)
  BY <1>3 DEF Legacy!Interrupt
<1>6. ~live'[j] /\ \A k \in Legacy!Jobs \ {j} : live'[k] = live[k]
  BY <1>1, ReapedEffect
<1>7. ex'[j] = "exit"
  BY <1>1, <1>5, ExitEffect
<1>8. Written(j)
  BY <1>1, <1>2, <1>5, OutcomeFiled
<1>9. VerificationsMove
  BY <1>1, <1>6, <1>7, <1>8, WrittenMoves
<1> QED BY <1>1, <1>4, <1>5, <1>6, <1>9, LockedExitQuiet

\* A verification ends: what it verified is behind the handoff when it passed.
LEMMA VerifyEndsQuiet ==
    ASSUME JobsInv, JobsInv', QuietInv, NEW j \in DOMAIN job, Legacy!VerifyEnds(j)
    PROVE  QuietInv'
<1>1. JobTypes /\ j \in Legacy!Jobs /\ j \in Nat \ {0} /\ hand \in HandoffState /\ StageOK(j)
  BY InJobs DEF JobsInv, JobTypes, Legacy!Jobs
<1>2. /\ ex[j] = "verify" /\ ex[j] \in Legacy!Locked /\ Legacy!Reaped(j) /\ UNCHANGED <<job, recs, sup>>
      /\ \/ \E outcome \in {"passed", "failed"} :
               /\ vers' = Legacy!_register_outcome(j, outcome)
               /\ Legacy!Enter(j, "publish") /\ UNCHANGED hand
         \/ Legacy!Interrupt(j, job[j].link)
  BY DEF Legacy!VerifyEnds, Legacy!Locked
<1>3. CASE Legacy!Interrupt(j, job[j].link)
  BY <1>2, <1>3, InterruptQuiet
<1>4. ASSUME NEW outcome, vers' = Legacy!_register_outcome(j, outcome), Legacy!Enter(j, "publish"), UNCHANGED hand
      PROVE  QuietInv'
  <2>1. /\ ex'[j] = "publish" /\ result' = result /\ ~live'[j]
        /\ \A k \in Legacy!Jobs \ {j} : ex'[k] = ex[k] /\ result'[k] = result[k] /\ live'[k] = live[k]
    BY <1>1, <1>2, <1>4, EnterEffect, ReapedEffect
  <2>2. Written(j)
    BY <1>1, <1>2, <1>4, Holder, OutcomeNoted
  <2>3. VerificationsMove
    BY <1>1, <2>1, <2>2, WrittenMoves
  <2> QED BY <1>1, <1>2, <1>4, <2>1, <2>3, BaseType, LockedConduct
<1> QED BY <1>2, <1>3, <1>4

\* The published completion moves the handoff past the attempt it verified.
LEMMA PublishQuiet ==
    ASSUME JobsInv, JobsInv', QuietInv, NEW j \in DOMAIN job, Legacy!Publish(j)
    PROVE  QuietInv'
<1> DEFINE i == job[j].link
<1>1. /\ JobTypes /\ JobTypes' /\ j \in Legacy!Jobs /\ j \in Nat \ {0} /\ hand \in HandoffState
      /\ StageOK(j) /\ ProcessOK(j) /\ AttemptsOK
  BY InJobs DEF JobsInv, QuietInv, JobTypes, Legacy!Jobs
<1>2. /\ ex[j] = "publish" /\ ex[j] \in Legacy!Locked /\ UNCHANGED <<job, recs, sup, live>>
      /\ vers' = Legacy!_write_outcome(vers, i)
      /\ Legacy!Exit(j, "verified", Legacy!project_completion(hand, i))
  BY DEF Legacy!Publish, Legacy!Locked
<1>3. i \in DOMAIN vers /\ job[j].kind = "verification"
  BY <1>1, <1>2 DEF StageOK
<1>4. PICK g : g = Legacy!project_completion(hand, i)
  OBVIOUS
<1>5. g.attempt = hand.attempt /\ g.phase = "awaiting_astra_review"
  BY <1>1, <1>4 DEF HandoffState, Legacy!project_completion
<1>6. /\ ex'[j] = "exit" /\ hand' = g /\ result'[j].kind = "verified" /\ result'[j].attempt = g.attempt
      /\ \A k \in Legacy!Jobs \ {j} : ex'[k] = ex[k] /\ result'[k] = result[k]
  <2>1. Legacy!Exit(j, "verified", g)
    BY <1>2, <1>4
  <2> QED BY <1>1, <2>1, ExitEffect
<1>7. ~live[j]
  BY <1>1, <1>2 DEF ProcessOK
<1>8. VerificationsMove
  BY <1>1, <1>2, <1>3, <1>6, <1>7, FileWritten, WrittenMoves
<1>9. PICK p : p = vers[i].pred
  OBVIOUS
<1>10. p \in Legacy!Jobs /\ p # j /\ result[p].kind = "blocked"
  <2>1. VerifiedOK(i)
    BY <1>3 DEF QuietInv
  <2> QED BY <1>2, <1>9, <2>1, InJobs, <1>1 DEF VerifiedOK, Over
<1>11. BehindNext(p)
  <2>1. Base' = hand'.attempt
    BY <1>2, <1>6, NoLauncherNext
  <2>2. result[p].attempt <= Base /\ Base <= hand.attempt /\ Base \in Int /\ hand.attempt \in Int
    BY <1>1, <1>10, BaseType DEF AttemptsOK
  <2>3. result[p].attempt \in Int
    BY <1>1, <1>10 DEF JobTypes, Printed
  <2>4. result'[p] = result[p]
    BY <1>6, <1>10
  <2>5. PICK b : b = Base'
    OBVIOUS
  <2>6. b = hand.attempt /\ hand'.phase \in Past
    BY <1>5, <1>6, <2>1, <2>5 DEF Past
  <2> QED BY <2>2, <2>3, <2>4, <2>5, <2>6 DEF BehindNext
<1>12. BehindNext(vers[job[j].link].pred)
  BY <1>9, <1>11
<1> QED BY <1>1, <1>2, <1>3, <1>5, <1>6, <1>7, <1>8, <1>12, BaseType, LockedConduct

\* While the same executors launch, the attempt that counts moves with the handoff's.
LEMMA BaseSame ==
    ASSUME UNCHANGED job, hand'.attempt = hand.attempt,
           \A k \in DOMAIN job : ex'[k] = "launch" <=> ex[k] = "launch"
    PROVE  Base' = Base
<1>1. AtLaunch' <=> AtLaunch
  BY DEF AtLaunch, Recovers
<1> QED BY <1>1 DEF Base

\* An executor that has not started its attempt ends.
LEMMA StartEndsQuiet ==
    ASSUME JobsInv, JobsInv', QuietInv, NEW j \in DOMAIN job, ex[j] = "start",
           UNCHANGED <<job, recs, vers, sup, live>>, ex'[j] \in {"exit", "dead"},
           \A k \in Legacy!Jobs \ {j} : ex'[k] = ex[k] /\ result'[k] = result[k],
           hand'.attempt = hand.attempt, hand.phase \in Past => hand'.phase \in Past,
           \/ result'[j] = result[j]
           \/ /\ result'[j].kind \in {"uncertain", "refused", "blocked"} /\ result'[j].attempt = hand.attempt
              /\ result'[j].kind = "blocked" => Legacy!LockFree
    PROVE  QuietInv'
<1>1. JobTypes /\ j \in Legacy!Jobs /\ ProcessOK(j) /\ DOMAIN job \subseteq Legacy!Jobs
  BY InJobs DEF JobsInv, QuietInv
<1>2. ~live[j]
  BY <1>1 DEF ProcessOK
<1>3. Base' = Base /\ Base \in Int
  <2>1. \A k \in DOMAIN job : ex'[k] = "launch" <=> ex[k] = "launch"
    BY <1>1
  <2> QED BY <1>1, <2>1, BaseSame, BaseType
<1>4. Advance
  BY <1>3 DEF Advance
<1>5. ProcessMove(j)
  BY <1>2 DEF ProcessMove, QuietNext, Legacy!Locked
<1>6. ResultMove(j)
  <2>1. CASE result'[j] = result[j]
    BY <2>1 DEF ResultMove
  <2>2. CASE /\ result'[j].kind \in {"uncertain", "refused", "blocked"} /\ result'[j].attempt = hand.attempt
             /\ result'[j].kind = "blocked" => Legacy!LockFree
    <3>1. result'[j].kind = "blocked" => result'[j].attempt <= Base
      BY <1>1, <1>3, <2>2, NoLauncher
    <3> QED BY <1>3, <2>2, <3>1 DEF ResultMove
  <2> QED BY <2>1, <2>2
<1>7. ProcessOK(j)'
  BY <1>1, <1>2 DEF ProcessOK
<1>8. VerificationsMove
  BY <1>1, VerificationsKept
<1> QED BY <1>4, <1>5, <1>6, <1>7, <1>8, ExecutorConduct

\* An executor that stops before its stage has started nothing.
LEMMA StartExitQuiet ==
    ASSUME JobsInv, JobsInv', QuietInv, NEW j \in DOMAIN job, ex[j] = "start",
           UNCHANGED <<job, recs, vers, sup, live>>, NEW kind \in {"uncertain", "refused", "blocked"}, NEW g,
           Legacy!Exit(j, kind, g), g.attempt = hand.attempt, hand.phase \in Past => g.phase \in Past,
           kind = "blocked" => Legacy!LockFree
    PROVE  QuietInv'
<1>1. JobTypes /\ j \in Legacy!Jobs
  BY InJobs DEF JobsInv
<1>2. /\ ex'[j] = "exit" /\ hand' = g /\ result'[j].kind = kind /\ result'[j].attempt = g.attempt
      /\ \A k \in Legacy!Jobs \ {j} : ex'[k] = ex[k] /\ result'[k] = result[k]
  BY <1>1, ExitEffect
<1> QED BY <1>2, StartEndsQuiet

\* The attempt is counted; that of a recovery from the launch on.
LEMMA AttemptQuiet ==
    ASSUME JobsInv, JobsInv', QuietInv, NEW j \in DOMAIN job, ex[j] = "start", job[j].kind = "implementation",
           UNCHANGED <<job, recs, vers, sup, live>>, Legacy!LockFree, Legacy!Enter(j, "launch"),
           hand'.attempt = hand.attempt + 1, Recovers(j) => hand.phase \notin Past
    PROVE  QuietInv'
<1>1. JobTypes /\ JobTypes' /\ j \in Legacy!Jobs /\ ProcessOK(j) /\ StageOK(j) /\ DOMAIN job \subseteq Legacy!Jobs
  BY InJobs DEF JobsInv, QuietInv
<1>2. /\ ex'[j] = "launch" /\ result' = result
      /\ \A k \in Legacy!Jobs \ {j} : ex'[k] = ex[k]
  BY <1>1, EnterEffect
<1>3. ~live[j]
  BY <1>1 DEF ProcessOK
<1>4. Base = hand.attempt /\ Base \in Int
  BY <1>1, NoLauncher, BaseType
<1>5. AtLaunch' <=> Recovers(j)
  <2>1. \A k \in DOMAIN job : ex'[k] = "launch" <=> k = j
    BY <1>1, <1>2 DEF Legacy!LockFree, Legacy!Locked
  <2> QED BY <2>1 DEF AtLaunch, Recovers
<1>6. Advance
  <2>1. CASE Recovers(j)
    <3>1. Base' = hand'.attempt - 1
      BY <1>5, <2>1 DEF Base
    <3>2. Base' = Base
      BY <1>4, <3>1
    <3> QED BY <2>1, <3>2 DEF Advance
  <2>2. CASE ~Recovers(j)
    <3>1. Base' = hand'.attempt
      BY <1>5, <2>2 DEF Base
    <3>2. Base < Base'
      BY <1>4, <3>1
    <3> QED BY <3>2 DEF Advance
  <2> QED BY <2>1, <2>2
<1>7. ProcessMove(j)
  BY DEF ProcessMove
<1>8. ResultMove(j)
  BY <1>2 DEF ResultMove
<1>9. ProcessOK(j)'
  BY <1>1, <1>2, <1>3 DEF ProcessOK
<1>10. VerificationsMove
  BY <1>1, VerificationsKept
<1> QED BY <1>2, <1>6, <1>7, <1>8, <1>9, <1>10, ExecutorConduct

\* The start of an implementation or of a recovery.
LEMMA RunImplementationQuiet ==
    ASSUME JobsInv, JobsInv', QuietInv, NEW j \in DOMAIN job, Legacy!run_implementation(j)
    PROVE  QuietInv'
<1> DEFINE i == job[j].link
<1>1. JobTypes /\ j \in Legacy!Jobs /\ hand \in HandoffState
  BY InJobs DEF JobsInv, JobTypes
<1>2. PICK h : h = IF hand.phase \in {"running_model", "running_gates"} THEN Legacy!Blocked(hand, None) ELSE hand
  OBVIOUS
<1>3. /\ h.attempt = hand.attempt /\ (hand.phase \in Past => h.phase \in Past)
      /\ h.phase = "recovery_prepared" => hand.phase = "recovery_prepared"
      /\ h \in HandoffState
  <2>1. CASE hand.phase \in {"running_model", "running_gates"}
    <3>1. /\ h = [hand EXCEPT !.phase = "blocked", !.diag = None]
      BY <1>2, <2>1 DEF Legacy!Blocked
    <3> QED BY <1>1, <2>1, <3>1 DEF HandoffState, Past
  <2>2. CASE hand.phase \notin {"running_model", "running_gates"}
    BY <1>1, <1>2, <2>2
  <2> QED BY <2>1, <2>2
<1>4. /\ ex[j] = "start" /\ job[j].kind = "implementation" /\ UNCHANGED <<job, recs, vers, sup, live>>
      /\ \/ Legacy!Exit(j, "uncertain", hand)
         \/ Legacy!LockFree /\ \E kind \in {"blocked", "uncertain", "refused"} : Legacy!Exit(j, kind, h)
         \/ /\ Legacy!LockFree /\ (i # 0 => h.phase = "recovery_prepared")
            /\ Legacy!_prepare_attempt(j, h)
  BY <1>2 DEF Legacy!run_implementation
<1>5. CASE Legacy!Exit(j, "uncertain", hand)
  BY <1>4, <1>5, StartExitQuiet
<1>6. ASSUME Legacy!LockFree, NEW kind \in {"blocked", "uncertain", "refused"}, Legacy!Exit(j, kind, h)
      PROVE  QuietInv'
  BY <1>3, <1>4, <1>6, StartExitQuiet
<1>7. CASE /\ Legacy!LockFree /\ (i # 0 => h.phase = "recovery_prepared")
           /\ Legacy!_prepare_attempt(j, h)
  <2>1. /\ Legacy!Enter(j, "launch")
        /\ hand' = [h EXCEPT !.phase = "running_model", !.attempt = @ + 1, !.passed = FALSE, !.diag = None]
    BY <1>7 DEF Legacy!_prepare_attempt
  <2>2. hand'.attempt = hand.attempt + 1
    BY <1>3, <2>1 DEF HandoffState
  <2>3. Recovers(j) => hand.phase \notin Past
    BY <1>3, <1>7 DEF Recovers, Past
  <2> QED BY <1>4, <1>7, <2>1, <2>2, <2>3, AttemptQuiet
<1> QED BY <1>4, <1>5, <1>6, <1>7

\* The start of a verification.
LEMMA VerificationRunQuiet ==
    ASSUME JobsInv, JobsInv', QuietInv, NEW j \in DOMAIN job, Legacy!verification_run(j)
    PROVE  QuietInv'
<1> DEFINE i == job[j].link
<1>1. /\ JobTypes /\ JobTypes' /\ j \in Legacy!Jobs /\ hand \in HandoffState /\ ProcessOK(j) /\ StageOK(j)
      /\ DOMAIN job \subseteq Legacy!Jobs
  BY InJobs DEF JobsInv, JobTypes, QuietInv
<1>2. /\ ex[j] = "start" /\ job[j].kind = "verification" /\ UNCHANGED <<job, recs, vers, sup>>
      /\ \/ Legacy!Exit(j, "uncertain", hand) /\ UNCHANGED live
         \/ Legacy!Exit(j, "refused", hand) /\ UNCHANGED live
         \/ /\ Legacy!LockFree /\ Legacy!_registered_verifier(j) /\ hand.phase = "blocked"
            /\ Legacy!Enter(j, "verify") /\ live' = [live EXCEPT ![j] = TRUE]
            /\ hand' = [hand EXCEPT !.phase = "verifying"]
  BY DEF Legacy!verification_run, Legacy!audit_verification
<1>3. CASE Legacy!Exit(j, "uncertain", hand) /\ UNCHANGED live
  BY <1>2, <1>3, StartExitQuiet
<1>4. CASE Legacy!Exit(j, "refused", hand) /\ UNCHANGED live
  BY <1>2, <1>4, StartExitQuiet
<1>5. CASE /\ Legacy!LockFree /\ Legacy!_registered_verifier(j) /\ hand.phase = "blocked"
           /\ Legacy!Enter(j, "verify") /\ live' = [live EXCEPT ![j] = TRUE]
           /\ hand' = [hand EXCEPT !.phase = "verifying"]
  <2>1. /\ ex'[j] = "verify" /\ result' = result
        /\ \A k \in Legacy!Jobs \ {j} : ex'[k] = ex[k] /\ live'[k] = live[k]
    BY <1>1, <1>5, EnterEffect DEF JobTypes
  <2>2. hand'.attempt = hand.attempt
    BY <1>1, <1>5 DEF HandoffState
  <2>3. Base' = Base
    <3>1. \A k \in DOMAIN job : ex'[k] = "launch" <=> ex[k] = "launch"
      BY <1>1, <1>2, <2>1
    <3> QED BY <1>2, <2>2, <3>1, BaseSame
  <2>4. Advance
    BY <1>5, <2>3 DEF Advance, Past
  <2>5. ProcessMove(j)
    BY <1>2, <1>5 DEF ProcessMove, Legacy!_registered_verifier, Legacy!_registered
  <2>6. ResultMove(j)
    BY <2>1 DEF ResultMove
  <2>7. result'[j].kind \notin {"awaiting", "scope", "verified", "refused"}
    <3>1. result[j] = Legacy!NoResult
      BY <1>1, <1>2 DEF StageOK
    <3> QED BY <2>1, <3>1, JobBounds DEF Legacy!NoResult
  <2>8. ProcessOK(j)'
    BY <1>1, <1>2, <2>1, <2>7 DEF ProcessOK
  <2>9. VerificationsMove
    BY <1>1, <1>2, VerificationsKept
  <2> QED BY <1>2, <2>1, <2>4, <2>5, <2>6, <2>8, <2>9, ExecutorConduct
<1> QED BY <1>2, <1>3, <1>4, <1>5

\* The executor is told to terminate.
LEMMA HandleTerminationQuiet ==
    ASSUME JobsInv, JobsInv', QuietInv, NEW j \in DOMAIN job, Legacy!handle_termination(j)
    PROVE  QuietInv'
<1> DEFINE i == job[j].link
<1>1. /\ recs' = IF i # 0 /\ job[j].kind = "implementation" /\ live'[j] /\ ~live[j]
                 THEN [recs EXCEPT ![i].launches = @ + 1] ELSE recs
      /\ UNCHANGED <<job, sup>>
  BY DEF Legacy!handle_termination
<1>2. /\ JobTypes /\ j \in Legacy!Jobs /\ j \in Nat \ {0} /\ hand \in HandoffState /\ ProcessOK(j)
  BY InJobs DEF JobsInv, JobTypes, QuietInv, Legacy!Jobs
<1>3. UNCHANGED live \/ Legacy!Reaped(j) => recs' = recs
  BY <1>1, <1>2 DEF Legacy!Reaped, JobTypes
<1>4. ASSUME ex[j] = "start", NEW kind \in {"uncertain", "refused"}, Legacy!Exit(j, kind, hand), UNCHANGED <<live, vers>>
      PROVE  QuietInv'
  BY <1>1, <1>3, <1>4, StartExitQuiet
<1>5. CASE ex[j] = "launch" /\ Legacy!NotLaunched(j) /\ UNCHANGED <<live, vers>>
  BY <1>1, <1>3, <1>5, NotLaunchedQuiet
<1>6. ASSUME ex[j] = "launch", NEW kind \in {"uncertain", "refused"}, Legacy!Exit(j, kind, hand), UNCHANGED <<live, vers>>
      PROVE  QuietInv'
  <2>1. ex[j] \in Legacy!Locked /\ ~live'[j]
    BY <1>2, <1>6 DEF Legacy!Locked, ProcessOK
  <2> QED BY <1>1, <1>2, <1>3, <1>6, <2>1, VerificationsKept, LockedExitQuiet
<1>7. ASSUME ex[j] \in {"launch", "child", "gates"}, Legacy!Exit(j, "blocked", Legacy!Blocked(hand, None)), UNCHANGED vers,
             \/ ex[j] = "launch" /\ live' \in {live, [live EXCEPT ![j] = TRUE]}
             \/ Legacy!Reaped(j)
      PROVE  QuietInv'
  <2>1. PICK g : g = Legacy!Blocked(hand, None)
    OBVIOUS
  <2>2. g.attempt = hand.attempt
    BY <1>2, <2>1 DEF HandoffState, Legacy!Blocked
  <2>3. Legacy!Exit(j, "blocked", g) /\ ex[j] \in Legacy!Locked /\ ex[j] # "publish"
    BY <1>7, <2>1 DEF Legacy!Locked
  <2>4. \A k \in Legacy!Jobs \ {j} : live'[k] = live[k]
    BY <1>2, <1>7 DEF JobTypes, Legacy!Reaped
  <2>5. \/ recs' = recs
        \/ Recovers(j) /\ recs' = [recs EXCEPT ![job[j].link].launches = @ + 1]
    BY <1>1 DEF Recovers
  <2> QED BY <1>1, <1>2, <1>7, <2>2, <2>3, <2>4, <2>5, VerificationsKept, LockedExitQuiet
<1>8. CASE ex[j] = "verify" /\ Legacy!Interrupt(j, i) /\ Legacy!Reaped(j)
  BY <1>1, <1>3, <1>8, InterruptQuiet
<1>9. ASSUME ex[j] = "publish", Legacy!Exit(j, "unsettled", hand), vers' \in {vers, Legacy!_write_outcome(vers, i)},
             UNCHANGED live
      PROVE  QuietInv'
  <2>1. ex[j] \in Legacy!Locked /\ ~live'[j] /\ i \in DOMAIN vers
    BY <1>2, <1>9, Holder DEF Legacy!Locked, ProcessOK
  <2>2. ex'[j] = "exit"
    BY <1>2, <1>9, ExitEffect
  <2>3. VerificationsMove
    <3>1. CASE vers' = vers
      BY <1>2, <3>1, VerificationsKept
    <3>2. CASE vers' = Legacy!_write_outcome(vers, i)
      BY <1>2, <2>1, <2>2, <3>2, FileWritten, WrittenMoves
    <3> QED BY <1>9, <3>1, <3>2
  <2> QED BY <1>1, <1>2, <1>3, <1>9, <2>1, <2>3, LockedExitQuiet
<1> QED BY <1>4, <1>5, <1>6, <1>7, <1>8, <1>9 DEF Legacy!handle_termination

\* An executor that dies may leave its process: the job's row has not settled then.
LEMMA ExecutorDiesQuiet ==
    ASSUME JobsInv, JobsInv', QuietInv, NEW j \in DOMAIN job, Legacy!ExecutorDies(j)
    PROVE  QuietInv'
<1>1. /\ JobTypes /\ j \in Legacy!Jobs /\ j \in Nat \ {0} /\ hand \in HandoffState /\ ProcessOK(j) /\ StageOK(j)
  BY InJobs DEF JobsInv, JobTypes, QuietInv, Legacy!Jobs
<1>2. /\ ex[j] \in Legacy!Alive /\ ex' = [ex EXCEPT ![j] = "dead"]
      /\ vers' = vers \/ (ex[j] = "publish" /\ vers' = Legacy!_write_outcome(vers, job[j].link))
      /\ UNCHANGED <<job, recs, hand, sup, live, result>>
  BY DEF Legacy!ExecutorDies
<1>3. ex'[j] = "dead" /\ \A k \in Legacy!Jobs \ {j} : ex'[k] = ex[k] /\ result'[k] = result[k] /\ live'[k] = live[k]
  BY <1>1, <1>2 DEF JobTypes
<1>4. CASE ex[j] = "start"
  BY <1>2, <1>3, <1>4, StartEndsQuiet
<1>5. CASE ex[j] \in Legacy!Locked
  <2>1. VerificationsMove
    <3>1. CASE vers' = vers
      BY <1>1, <3>1, VerificationsKept
    <3>2. CASE ex[j] = "publish" /\ vers' = Legacy!_write_outcome(vers, job[j].link)
      <4>1. ~live'[j] /\ job[j].link \in DOMAIN vers
        BY <1>1, <1>2, <1>5, <3>2, Holder DEF ProcessOK
      <4> QED BY <1>1, <1>3, <3>2, <4>1, FileWritten, WrittenMoves
    <3> QED BY <1>2, <3>1, <3>2
  <2>2. result'[j].kind \notin {"awaiting", "scope", "verified", "refused"}
    <3>1. result[j] = Legacy!NoResult
      BY <1>1, <1>5 DEF StageOK, Legacy!Locked
    <3> QED BY <1>2, <3>1, JobBounds DEF Legacy!NoResult
  <2>3. hand'.attempt >= Base
    BY <1>1, <1>2, BaseType
  <2> QED BY <1>2, <1>3, <1>5, <2>1, <2>2, <2>3, LockedConduct
<1> QED BY <1>2, <1>4, <1>5 DEF Legacy!Alive

\* A process whose executor died ends by itself.
LEMMA OrphanEndsQuiet ==
    ASSUME JobsInv, JobsInv', QuietInv, NEW j \in DOMAIN job, NEW content, Legacy!OrphanEnds(j, content)
    PROVE  QuietInv'
<1>1. JobTypes /\ j \in Legacy!Jobs /\ ProcessOK(j) /\ live \in [Legacy!Jobs -> BOOLEAN]
  BY InJobs DEF JobsInv, QuietInv, JobTypes
<1>2. live' = [live EXCEPT ![j] = FALSE] /\ UNCHANGED <<job, recs, vers, hand, sup, ex, result>>
  BY DEF Legacy!OrphanEnds
<1>3. ~live'[j] /\ \A k \in Legacy!Jobs \ {j} : live'[k] = live[k]
  BY <1>1, <1>2
<1>4. Base' = Base
  BY <1>2, BaseSame
<1>5. Advance
  BY <1>2, <1>4 DEF Advance
<1>6. ProcessMove(j)
  BY <1>2, <1>3 DEF ProcessMove, Quiet, QuietNext
<1>7. ResultMove(j)
  BY <1>2 DEF ResultMove
<1>8. ProcessOK(j)'
  BY <1>1, <1>2, <1>3 DEF ProcessOK, Legacy!Leased
<1>9. VerificationsMove
  BY <1>1, <1>2, VerificationsKept
<1> QED BY <1>2, <1>3, <1>5, <1>6, <1>7, <1>8, <1>9, ExecutorConduct

-----------------------------------------------------------------------------
(***************************************************************************)
(* Steps of the service and of the supervisors, which leave the executors  *)
(* as they are.                                                            *)
(***************************************************************************)
\* A row that settles leaves no supervisor, process or executor at work.
SettledQuiet ==
    \A k \in DOMAIN job' : job'[k].status \in {"failed", "cancelled", "succeeded"} =>
       sup'[k] \notin {"spawned", "running"} /\ ~live[k] /\ ex[k] \in {"none", "exit", "dead"}
\* A service leaves the executors alone and the handoff at its attempt.
Service ==
    /\ UNCHANGED <<ex, live, result>> /\ JobsKept /\ SettledQuiet
    /\ hand'.attempt = hand.attempt /\ (hand.phase \in Past => hand'.phase \in Past)

\* A service of the registry leaves the attempt that counts.
LEMMA ServiceBase ==
    ASSUME JobsInv, JobsInv', Service
    PROVE  Base' = Base /\ Advance
<1>1. JobTypes /\ JobTypes' /\ \A k \in Legacy!Jobs : StageOK(k)
  BY DEF JobsInv
<1>2. DOMAIN job' \subseteq Legacy!Jobs
  <2>1. Len(job') \in Nat /\ DOMAIN job' = 1 .. Len(job') /\ Len(job') <= MaxJobs /\ MaxJobs \in Nat
    BY <1>1, JobBounds DEF JobTypes
  <2> QED BY <2>1 DEF Legacy!Jobs
<1>3. \A k \in DOMAIN job' : ex[k] = "launch" => k \in DOMAIN job
  BY <1>1, <1>2 DEF StageOK
<1>4. AtLaunch' <=> AtLaunch
  <2>1. ASSUME NEW k \in DOMAIN job, ex[k] = "launch", Recovers(k) PROVE AtLaunch'
    <3>1. k \in DOMAIN job' /\ ex'[k] = "launch" /\ job'[k].kind = "implementation" /\ job'[k].link # 0
      BY <2>1 DEF Service, JobsKept, Recovers
    <3> QED BY <3>1 DEF AtLaunch, Recovers
  <2>2. ASSUME NEW k \in DOMAIN job', ex'[k] = "launch", job'[k].kind = "implementation", job'[k].link # 0
        PROVE  AtLaunch
    <3>1. k \in DOMAIN job /\ ex[k] = "launch" /\ job[k].kind = "implementation" /\ job[k].link # 0
      BY <1>3, <2>2 DEF Service, JobsKept
    <3> QED BY <3>1 DEF AtLaunch, Recovers
  <2> QED BY <2>1, <2>2 DEF AtLaunch, Recovers
<1>5. Base' = Base
  BY <1>4 DEF Base, Service
<1> QED BY <1>5 DEF Advance, Service

\* A service of the registry conducts itself when its rows do.
LEMMA ServiceConduct ==
    ASSUME JobsInv, JobsInv', QuietInv, Service, RecoveriesMove, VerificationsMove
    PROVE  QuietInv'
<1>1. Advance
  BY ServiceBase
<1>2. ASSUME NEW k \in Legacy!Jobs PROVE ProcessMove(k) /\ ResultMove(k) /\ ProcessOK(k)'
  <2>1. UNCHANGED <<ex, live, result>> /\ ProcessOK(k)
    BY DEF Service, QuietInv
  <2>2. ProcessMove(k) /\ ResultMove(k)
    BY <2>1 DEF ProcessMove, ResultMove, Quiet, QuietNext
  <2>3. ProcessOK(k)'
    BY <2>1 DEF ProcessOK, Service, JobsKept, SettledQuiet, Legacy!Leased
  <2> QED BY <2>2, <2>3
<1>3. Conduct
  BY <1>1, <1>2 DEF Conduct, Service
<1> QED BY <1>3, QuietKept

\* What looking at the registry does to the jobs.
LEMMA RefreshedStatus ==
    ASSUME JobTypes, NEW k \in DOMAIN job
    PROVE  Legacy!_refresh[k].status \in {job[k].status, "uncertain"}
BY DEF JobTypes, JobRow, Legacy!_refresh

\* A refresh only marks the jobs whose supervisor is gone uncertain.
LEMMA RefreshQuiet ==
    ASSUME JobsInv, QuietInv, job' = Legacy!_refresh, UNCHANGED sup
    PROVE  JobsKept /\ SettledQuiet
<1>1. JobTypes
  BY DEF JobsInv
<1>2. DOMAIN job' = DOMAIN job /\ \A k \in DOMAIN job : job'[k].kind = job[k].kind /\ job'[k].link = job[k].link
  BY <1>1, Refreshed
<1>3. JobsKept
  BY <1>2 DEF JobsKept
<1>4. ASSUME NEW k \in DOMAIN job', job'[k].status \in {"failed", "cancelled", "succeeded"}
      PROVE  sup'[k] \notin {"spawned", "running"} /\ ~live[k] /\ ex[k] \in {"none", "exit", "dead"}
  <2>1. k \in DOMAIN job /\ k \in Legacy!Jobs /\ job'[k].status = job[k].status
    BY <1>1, <1>2, <1>4, RefreshedStatus, InJobs
  <2>2. ProcessOK(k)
    BY <2>1 DEF QuietInv
  <2> QED BY <1>4, <2>1, <2>2 DEF ProcessOK, Legacy!Leased
<1>5. SettledQuiet
  BY <1>4 DEF SettledQuiet
<1> QED BY <1>3, <1>5

\* A new job has neither an executor nor a process.
LEMMA NewJobQuiet ==
    ASSUME JobsInv, QuietInv, NEW kind \in {"implementation", "verification"}, NEW link,
           NEW how \in {"ok", "failed", "crash"},
           Legacy!NewJob(Legacy!_refresh, kind, link, how)
    PROVE  /\ JobsKept /\ SettledQuiet /\ UNCHANGED <<ex, live, result>>
           /\ Len(job) + 1 \in DOMAIN job' /\ Len(job) + 1 \in Legacy!Jobs
           /\ job'[Len(job) + 1].kind = kind /\ job'[Len(job) + 1].link = link
           /\ result[Len(job) + 1] = Legacy!NoResult
<1>1. PICK row : row = [kind |-> kind, link |-> link, cancel |-> FALSE,
                        status |-> IF how = "failed" THEN "failed" ELSE "queued"]
  OBVIOUS
<1>2. PICK n \in Nat : n = Len(job) + 1
  BY DEF JobsInv, JobTypes
<1>3. /\ JobTypes /\ Len(job) \in Nat /\ DOMAIN job = 1 .. Len(job)
      /\ \A k \in Legacy!Jobs : StageOK(k) /\ ProcessOK(k)
  BY DEF JobsInv, JobTypes, QuietInv
<1>4. /\ n \in Legacy!Jobs /\ job' = Append(Legacy!_refresh, row) /\ sup' = [sup EXCEPT ![n] = Legacy!Spawn[how]]
      /\ UNCHANGED <<ex, live, result>>
  BY <1>1, <1>2 DEF Legacy!NewJob
<1>5. /\ Len(Legacy!_refresh) = Len(job) /\ DOMAIN Legacy!_refresh = DOMAIN job
      /\ Legacy!_refresh \in Seq(JobRow)
      /\ \A k \in DOMAIN job :
            /\ Legacy!_refresh[k].kind = job[k].kind
            /\ Legacy!_refresh[k].link = job[k].link
  BY <1>3, Refreshed
<1>6. PICK old : old = Legacy!_refresh
  OBVIOUS
<1>7. /\ DOMAIN job' = 1 .. n /\ job'[n] = row
      /\ \A k \in DOMAIN job : job'[k] = old[k]
  BY <1>2, <1>3, <1>4, <1>5, <1>6
<1>8. n \notin DOMAIN job /\ \A k \in DOMAIN job' : k \in DOMAIN job \/ k = n
  BY <1>2, <1>3, <1>7
<1>9. ex[n] = "none" /\ result[n] = Legacy!NoResult /\ ~live[n]
  BY <1>3, <1>4, <1>8 DEF StageOK, ProcessOK
<1>10. JobsKept
  BY <1>2, <1>3, <1>5, <1>6, <1>7 DEF JobsKept
<1>11. ASSUME NEW k \in DOMAIN job', job'[k].status \in {"failed", "cancelled", "succeeded"}
       PROVE  sup'[k] \notin {"spawned", "running"} /\ ~live[k] /\ ex[k] \in {"none", "exit", "dead"}
  <2>1. CASE k = n
    <3>1. how = "failed"
      BY <1>1, <1>7, <1>11, <2>1
    <3>2. sup'[n] = "gone"
      BY <1>3, <1>4, <3>1 DEF JobTypes, Legacy!Spawn
    <3> QED BY <1>9, <2>1, <3>2
  <2>2. CASE k \in DOMAIN job
    <3>1. job[k].status \in {"failed", "cancelled", "succeeded"} /\ k \in Legacy!Jobs
      BY <1>3, <1>6, <1>7, <1>11, <2>2, RefreshedStatus, InJobs
    <3>2. sup'[k] = sup[k]
      BY <1>3, <1>4, <1>8, <2>2, <3>1 DEF JobTypes
    <3> QED BY <1>3, <2>2, <3>1, <3>2 DEF ProcessOK, Legacy!Leased
  <2> QED BY <1>8, <2>1, <2>2
<1>12. SettledQuiet
  BY <1>11 DEF SettledQuiet
<1>13. n \in DOMAIN job' /\ job'[n].kind = kind /\ job'[n].link = link
  BY <1>1, <1>2, <1>7
<1> QED BY <1>2, <1>4, <1>9, <1>10, <1>12, <1>13

\* Steps that leave the rows of both registries alone.
LEMMA RowsKeptQuiet ==
    ASSUME JobsInv, JobsInv', QuietInv, UNCHANGED <<ex, live, result, recs, vers>>, JobsKept, SettledQuiet,
           hand'.attempt = hand.attempt, hand.phase \in Past => hand'.phase \in Past
    PROVE  QuietInv'
<1>1. Service
  BY DEF Service
<1>2. RecoveriesMove
  BY DEF RecoveriesMove
<1>3. VerificationsMove
  BY VerificationsKept DEF JobsInv
<1> QED BY <1>1, <1>2, <1>3, ServiceConduct

\* The services that submit, cancel, review and revise leave the executors alone.
LEMMA RegistryQuiet ==
    ASSUME JobsInv, JobsInv', QuietInv,
           \/ \E how \in {"ok", "failed", "crash"} : Legacy!room_implementation_submit(how)
           \/ \E j \in DOMAIN job : Legacy!room_job_cancel(j)
           \/ \E ok \in BOOLEAN : Legacy!room_implementation_review(ok)
           \/ Legacy!room_implementation_revise \/ Legacy!room_spec_put
           \/ \E content \in Contents : Legacy!Edit(content)
    PROVE  QuietInv'
<1>1. JobTypes /\ hand \in HandoffState
  BY DEF JobsInv, JobTypes
<1>2. ASSUME NEW how \in {"ok", "failed", "crash"}, Legacy!room_implementation_submit(how) PROVE QuietInv'
  <2>1. Legacy!NewJob(Legacy!_refresh, "implementation", 0, how) /\ UNCHANGED <<recs, vers, hand>>
    BY <1>2 DEF Legacy!room_implementation_submit
  <2>2. JobsKept /\ SettledQuiet /\ UNCHANGED <<ex, live, result>>
    BY <2>1, NewJobQuiet
  <2> QED BY <2>1, <2>2, RowsKeptQuiet
<1>3. ASSUME NEW j \in DOMAIN job, Legacy!room_job_cancel(j) PROVE QuietInv'
  <2>1. /\ job' = [Legacy!_refresh EXCEPT ![j].cancel = TRUE]
        /\ UNCHANGED <<recs, vers, hand, sup, ex, live, result>>
    BY <1>3 DEF Legacy!room_job_cancel, Legacy!processes
  <2>2. PICK old : old = Legacy!_refresh
    OBVIOUS
  <2>3. PICK new : new = [old[j] EXCEPT !.cancel = TRUE]
    OBVIOUS
  <2>4. /\ DOMAIN old = DOMAIN job /\ \A k \in DOMAIN job : old[k] \in JobRow
        /\ \A k \in DOMAIN job : old[k].kind = job[k].kind /\ old[k].link = job[k].link
        /\ \A k \in DOMAIN job : old[k].status \in {job[k].status, "uncertain"}
    BY <1>1, <2>2, Refreshed, RefreshedStatus
  <2>5. new.kind = old[j].kind /\ new.link = old[j].link /\ new.status = old[j].status
    BY <2>3, <2>4 DEF JobRow
  <2>6. job' = [old EXCEPT ![j] = new]
    BY <2>1, <2>2, <2>3
  <2>7. /\ DOMAIN job' = DOMAIN job
        /\ \A k \in DOMAIN job : job'[k].kind = job[k].kind /\ job'[k].link = job[k].link
        /\ \A k \in DOMAIN job : job'[k].status \in {job[k].status, "uncertain"}
    BY <2>4, <2>5, <2>6
  <2>8. JobsKept
    BY <2>7 DEF JobsKept
  <2>9. ASSUME NEW k \in DOMAIN job', job'[k].status \in {"failed", "cancelled", "succeeded"}
        PROVE  sup'[k] \notin {"spawned", "running"} /\ ~live[k] /\ ex[k] \in {"none", "exit", "dead"}
    <3>1. k \in DOMAIN job /\ k \in Legacy!Jobs /\ job[k].status \in {"failed", "cancelled", "succeeded"}
      BY <1>1, <2>7, <2>9, InJobs
    <3>2. ProcessOK(k)
      BY <3>1 DEF QuietInv
    <3> QED BY <2>1, <3>1, <3>2 DEF ProcessOK, Legacy!Leased
  <2>10. SettledQuiet
    BY <2>9 DEF SettledQuiet
  <2> QED BY <2>1, <2>8, <2>10, RowsKeptQuiet
<1>4. ASSUME Legacy!Reviewed(hand'), hand'.attempt = hand.attempt, hand'.phase \in Past PROVE QuietInv'
  <2>1. job' = Legacy!_refresh /\ UNCHANGED <<recs, vers, sup, ex, live, result>>
    BY <1>4 DEF Legacy!Reviewed, Legacy!processes
  <2> QED BY <1>4, <2>1, RefreshQuiet, RowsKeptQuiet
<1>5. ASSUME NEW phase \in {"accepted", "changes_required", "correction_pending"},
             Legacy!Reviewed([hand EXCEPT !.phase = phase])
      PROVE  QuietInv'
  <2>1. hand' = [hand EXCEPT !.phase = phase] /\ Legacy!Reviewed(hand')
    BY <1>5 DEF Legacy!Reviewed
  <2>2. hand'.attempt = hand.attempt /\ hand'.phase = phase
    BY <1>1, <2>1 DEF HandoffState
  <2> QED BY <1>4, <2>1, <2>2 DEF Past
<1>6. ASSUME NEW ok \in BOOLEAN, Legacy!room_implementation_review(ok) PROVE QuietInv'
  <2>1. \E phase \in {"accepted", "changes_required"} : Legacy!Reviewed([hand EXCEPT !.phase = phase])
    BY <1>6 DEF Legacy!room_implementation_review
  <2> QED BY <1>5, <2>1
<1>7. CASE Legacy!room_implementation_revise
  <2>1. Legacy!Reviewed([hand EXCEPT !.phase = "correction_pending"])
    BY <1>7 DEF Legacy!room_implementation_revise, Legacy!request_changes
  <2> QED BY <1>5, <2>1
<1>8. CASE Legacy!room_spec_put
  <2>1. job' = Legacy!_refresh /\ UNCHANGED <<recs, vers, hand, sup, ex, live, result>>
    BY <1>8 DEF Legacy!room_spec_put, Legacy!processes
  <2> QED BY <2>1, RefreshQuiet, RowsKeptQuiet
<1>9. ASSUME NEW content \in Contents, Legacy!Edit(content) PROVE QuietInv'
  <2>1. UNCHANGED <<job, recs, vers, hand, sup, ex, live, result>>
    BY <1>9 DEF Legacy!Edit, Legacy!processes
  <2>2. SettledQuiet
    BY <1>1, <2>1, InJobs DEF SettledQuiet, QuietInv, ProcessOK, Legacy!Leased
  <2> QED BY <2>1, <2>2, RowsKeptQuiet DEF JobsKept
<1> QED BY <1>2, <1>3, <1>6, <1>7, <1>8, <1>9

\* The recovery of an attempt whose job is over.
LEMMA RecoverQuiet ==
    ASSUME JobsInv, JobsInv', QuietInv, NEW j \in DOMAIN job, NEW crash \in BOOLEAN,
           Legacy!room_implementation_recover(j, crash)
    PROVE  QuietInv'
<1>1. /\ JobTypes /\ j \in Legacy!Jobs /\ StageOK(j) /\ hand \in HandoffState /\ Len(recs) \in Nat
      /\ recs \in Seq(RecoveryRow) /\ DOMAIN recs = 1 .. Len(recs)
  BY InJobs DEF JobsInv, JobTypes
<1>2. PICK h : h = Legacy!_reconcile_projection
  OBVIOUS
<1>3. PICK row : row = [pred |-> j, succ |-> 0, candidate |-> worktree, launches |-> 0,
                        status |-> IF crash THEN "unregistered" ELSE "prepared"]
  OBVIOUS
<1>4. /\ Legacy!audit_recovery(job, h, j, 0)
      /\ recs' = Append(recs, row) /\ hand' = Legacy!prepare_recovery(h, Len(recs) + 1)
      /\ UNCHANGED <<job, vers, sup, ex, live, result>>
  BY <1>2, <1>3 DEF Legacy!room_implementation_recover, Legacy!processes
<1>5. h \in HandoffState /\ h.attempt = hand.attempt /\ h.phase = "blocked" /\ (h = hand \/ hand.phase = "recovery_prepared")
  <2>1. h.phase = "blocked"
    BY <1>4 DEF Legacy!audit_recovery
  <2>2. h = hand \/ (hand.phase = "recovery_prepared" /\ h = [hand EXCEPT !.phase = "blocked", !.recovery = 0])
    BY <1>1, <1>2, Reconciled
  <2>3. CASE h = hand
    BY <1>1, <2>1, <2>3
  <2>4. CASE hand.phase = "recovery_prepared" /\ h = [hand EXCEPT !.phase = "blocked", !.recovery = 0]
    <3>1. h \in HandoffState /\ h.attempt = hand.attempt
      BY <1>1, <2>4 DEF HandoffState
    <3> QED BY <2>1, <2>4, <3>1
  <2> QED BY <2>2, <2>3, <2>4
<1>6. hand.phase \notin Past /\ hand'.attempt = hand.attempt
  BY <1>4, <1>5 DEF Past, HandoffState, Legacy!prepare_recovery
<1>7. Over(j)
  <2>1. result[j].kind = "blocked" /\ Legacy!process_table = {}
    BY <1>4 DEF Legacy!audit_recovery, Legacy!Interrupted, Legacy!Stopped
  <2>2. ~live[j]
    BY <1>1, <2>1 DEF Legacy!process_table
  <2>3. ex[j] \in {"exit", "dead"}
    BY <1>1, <2>1, JobBounds DEF StageOK, Legacy!NoResult
  <2> QED BY <2>2, <2>3 DEF Over
<1>8. RecoveriesMove
  <2>1. /\ Len(recs') = Len(recs) + 1 /\ recs'[Len(recs) + 1] = row /\ DOMAIN recs' = 1 .. Len(recs) + 1
        /\ \A m \in DOMAIN recs : recs'[m] = recs[m]
    BY <1>1, <1>4
  <2>2. row.pred = j
    BY <1>3
  <2>3. \A m \in DOMAIN recs' \ DOMAIN recs : recs'[m] = row
    BY <1>1, <2>1
  <2> QED BY <1>1, <1>7, <2>1, <2>2, <2>3 DEF RecoveriesMove
<1>9. SettledQuiet
  BY <1>1, <1>4, InJobs DEF SettledQuiet, QuietInv, ProcessOK, Legacy!Leased
<1>10. Service
  BY <1>4, <1>6, <1>9 DEF Service, JobsKept
<1> QED BY <1>1, <1>4, <1>8, <1>10, VerificationsKept, ServiceConduct

\* A recovery is submitted for the row that was prepared.
LEMMA SubmitRecoveryQuiet ==
    ASSUME JobsInv, JobsInv', QuietInv, NEW i \in DOMAIN recs, NEW how \in {"ok", "failed", "crash"},
           Legacy!SubmitRecovery(i, how)
    PROVE  QuietInv'
<1>1. /\ JobTypes /\ hand \in HandoffState /\ i \in Nat /\ recs \in Seq(RecoveryRow)
      /\ \A m \in DOMAIN recs : recs[m] \in RecoveryRow
  BY DEF JobsInv, JobTypes
<1>2. ASSUME NEW h, h = hand \/ h = Legacy!WithoutRecovery(hand, i)
      PROVE  h.attempt = hand.attempt /\ (hand.phase \in Past => h.phase \in Past)
  <2>1. h = hand \/ (hand.phase = "recovery_prepared" /\ h = [hand EXCEPT !.phase = "blocked", !.recovery = 0])
    BY <1>1, <1>2, Withdrawn
  <2> QED BY <1>1, <2>1 DEF HandoffState, Past
<1>3. CASE /\ Legacy!NewJob(Legacy!_refresh, "implementation", i, how)
           /\ recs' = [recs EXCEPT ![i].succ = Len(job) + 1,
                                   ![i].status = IF how = "failed" THEN "invalidated" ELSE "dispatched"]
           /\ hand' = IF how = "failed" THEN Legacy!WithoutRecovery(hand, i) ELSE hand
           /\ UNCHANGED vers
  <2>1. JobsKept /\ SettledQuiet /\ UNCHANGED <<ex, live, result>>
    BY <1>3, NewJobQuiet
  <2>2. Service
    BY <1>2, <1>3, <2>1 DEF Service
  <2>3. RecoveriesMove
    <3>1. DOMAIN recs' = DOMAIN recs /\ \A m \in DOMAIN recs : recs'[m].pred = recs[m].pred
      BY <1>1, <1>3 DEF RecoveryRow
    <3> QED BY <3>1 DEF RecoveriesMove
  <2> QED BY <1>1, <1>3, <2>2, <2>3, VerificationsKept, ServiceConduct
<1>4. CASE /\ job' = Legacy!_refresh /\ Legacy!_invalidate_recovery(i)
           /\ UNCHANGED <<vers, sup, ex, live, result>>
  <2>1. /\ recs' = [recs EXCEPT ![i].status = "invalidated"]
        /\ hand' = hand \/ hand' = Legacy!WithoutRecovery(hand, i)
    BY <1>4 DEF Legacy!_invalidate_recovery
  <2>2. Service
    BY <1>2, <1>4, <2>1, RefreshQuiet DEF Service
  <2>3. RecoveriesMove
    <3>1. DOMAIN recs' = DOMAIN recs /\ \A m \in DOMAIN recs : recs'[m].pred = recs[m].pred
      BY <1>1, <2>1 DEF RecoveryRow
    <3> QED BY <3>1 DEF RecoveriesMove
  <2> QED BY <1>1, <1>4, <2>2, <2>3, VerificationsKept, ServiceConduct
<1> QED BY <1>3, <1>4 DEF Legacy!SubmitRecovery, Legacy!processes

\* What a settlement may do: a dispatched row is given up, or consumed with the
\* handoff past the attempt.
SettlesTo(rows, h) ==
    /\ h.attempt = hand.attempt /\ (hand.phase \in Past => h.phase \in Past)
    /\ \/ rows = vers
       \/ \E i \in DOMAIN vers, status \in VerificationStatuses :
             /\ rows = [vers EXCEPT ![i].status = status, ![i].reconciled = (status = "consumed")]
             /\ vers[i].status = "dispatched"
             /\ status = "consumed" =>
                   Legacy!LockFree /\ vers[i].outcome # None /\ h.phase = "awaiting_astra_review"

\* Settling one row of the verifications leaves the others.
LEMMA SettlesOne ==
    ASSUME NEW i \in DOMAIN vers, vers[i].status = "dispatched", NEW status \in VerificationStatuses, NEW h,
           h.attempt = hand.attempt, hand.phase \in Past => h.phase \in Past,
           status = "consumed" =>
              Legacy!LockFree /\ vers[i].outcome # None /\ h.phase = "awaiting_astra_review",
           NEW r, r = Legacy!Settled(i, status, h)
    PROVE  SettlesTo(r.rows, r.hand)
<1>1. r.hand = h /\ r.rows = [vers EXCEPT ![i].status = status, ![i].reconciled = (status = "consumed")]
  BY DEF Legacy!Settled
<1> QED BY <1>1 DEF SettlesTo

\* Reconciling the verifications settles at most one row, and consumes it only with its outcome.
LEMMA SettlingQuiet ==
    ASSUME JobsInv, NEW jobs, NEW r, r = Legacy!_reconcile_verification(jobs)
    PROVE  SettlesTo(r.rows, r.hand)
<1> DEFINE i == hand.verification
           dropped == IF Legacy!LockFree THEN Legacy!WithoutVerification(hand, i) ELSE hand
           stale == {k \in DOMAIN vers : vers[k].status = "dispatched" /\ ~Legacy!Active(jobs, vers[k].succ)}
           unchanged == [rows |-> vers, hand |-> hand]
<1>1. /\ hand \in HandoffState /\ i \in Nat
      /\ i # 0 => i \in DOMAIN vers /\ hand.phase \in {"blocked", "verifying"}
  BY DEF JobsInv, JobTypes, HandoffOK, HandoffState
<1>2. dropped.attempt = hand.attempt /\ (hand.phase \in Past => dropped.phase \in Past)
  <2>1. dropped = hand \/ (i # 0 /\ dropped = [hand EXCEPT !.phase = "blocked", !.verification = 0])
    BY <1>1, Withdrawn
  <2> QED BY <1>1, <2>1 DEF HandoffState, Past
<1>3. SettlesTo(unchanged.rows, unchanged.hand)
  BY DEF SettlesTo
<1>4. \A k \in DOMAIN vers : /\ Legacy!settle_projected(k) \in VerificationStatuses
                             /\ Legacy!reconcile_completion(k) \in VerificationStatuses
                             /\ Legacy!settle_projected(k) = "consumed" => hand.phase = "awaiting_astra_review"
  BY DEF VerificationStatuses, Legacy!settle_projected, Legacy!reconcile_completion
<1> HIDE DEF dropped
<1>5. CASE i = 0
  <2>1. r = Legacy!_settle_unbound(jobs)
    BY <1>5 DEF Legacy!_reconcile_verification
  <2>2. CASE stale = {} \/ ~Legacy!LockFree
    <3>1. r = unchanged
      BY <2>1, <2>2 DEF Legacy!_settle_unbound, Legacy!Unchanged
    <3> QED BY <1>3, <3>1
  <2>3. CASE ~(stale = {} \/ ~Legacy!LockFree)
    <3>1. PICK k : k = CHOOSE x \in stale : TRUE
      OBVIOUS
    <3>2. k \in stale
      BY <2>3, <3>1
    <3>3. r = Legacy!Settled(k, IF vers[k].outcome = None THEN "invalidated" ELSE Legacy!settle_projected(k), hand)
      BY <2>1, <2>3, <3>1 DEF Legacy!_settle_unbound
    <3>4. PICK status : status = IF vers[k].outcome = None THEN "invalidated" ELSE Legacy!settle_projected(k)
      OBVIOUS
    <3>5. /\ status \in VerificationStatuses /\ k \in DOMAIN vers /\ vers[k].status = "dispatched"
          /\ status = "consumed" =>
                Legacy!LockFree /\ vers[k].outcome # None /\ hand.phase = "awaiting_astra_review"
      BY <1>4, <2>3, <3>2, <3>4 DEF VerificationStatuses
    <3>6. r = Legacy!Settled(k, status, hand)
      BY <3>3, <3>4
    <3> QED BY <3>5, <3>6, SettlesOne
  <2> QED BY <2>2, <2>3
<1>6. CASE i # 0
  <2>1. CASE vers[i].status \in {"unregistered", "invalidated", "interrupted"}
    <3>1. r = [rows |-> vers, hand |-> dropped]
      BY <1>6, <2>1 DEF Legacy!_reconcile_verification, dropped
    <3> QED BY <1>2, <3>1 DEF SettlesTo
  <2>2. CASE vers[i].status \notin {"unregistered", "invalidated", "interrupted"}
    <3>1. CASE vers[i].status # "dispatched" \/ Legacy!Active(jobs, vers[i].succ)
      <4>1. r = unchanged
        BY <1>6, <2>2, <3>1 DEF Legacy!_reconcile_verification, Legacy!Unchanged
      <4> QED BY <1>3, <4>1
    <3>2. CASE ~(vers[i].status # "dispatched" \/ Legacy!Active(jobs, vers[i].succ))
      <4>1. CASE vers[i].outcome = None
        <5>1. r = Legacy!Settled(i, "invalidated", dropped)
          BY <1>6, <2>2, <3>2, <4>1 DEF Legacy!_reconcile_verification, dropped
        <5>2. i \in DOMAIN vers /\ vers[i].status = "dispatched" /\ "invalidated" \in VerificationStatuses
          BY <1>1, <1>6, <3>2 DEF VerificationStatuses
        <5> QED BY <1>2, <5>1, <5>2, SettlesOne
      <4>2. CASE vers[i].outcome # None /\ ~Legacy!LockFree
        <5>1. r = unchanged
          BY <1>6, <2>2, <3>2, <4>2 DEF Legacy!_reconcile_verification, Legacy!Unchanged
        <5> QED BY <1>3, <5>1
      <4>3. CASE vers[i].outcome # None /\ Legacy!LockFree
        <5>1. PICK status : status = Legacy!reconcile_completion(i)
          OBVIOUS
        <5>2. PICK h : h = IF status = "consumed" THEN Legacy!project_completion(hand, i) ELSE dropped
          OBVIOUS
        <5>3. r = Legacy!Settled(i, status, h)
          BY <1>6, <2>2, <3>2, <4>3, <5>1, <5>2 DEF Legacy!_reconcile_verification, dropped
        <5>4. CASE status = "consumed"
          <6>1. h = Legacy!project_completion(hand, i)
            BY <5>2, <5>4
          <6>2. h.attempt = hand.attempt /\ h.phase = "awaiting_astra_review"
            BY <1>1, <6>1 DEF HandoffState, Legacy!project_completion
          <6>3. i \in DOMAIN vers /\ vers[i].status = "dispatched" /\ status \in VerificationStatuses
            BY <1>1, <1>4, <1>6, <3>2, <5>1
          <6>4. h.phase \in Past
            BY <6>2 DEF Past
          <6> QED BY <4>3, <5>3, <6>2, <6>3, <6>4, SettlesOne
        <5>5. CASE status # "consumed"
          <6>1. h = dropped
            BY <5>2, <5>5
          <6>2. i \in DOMAIN vers /\ vers[i].status = "dispatched" /\ status \in VerificationStatuses
            BY <1>1, <1>4, <1>6, <3>2, <5>1
          <6> QED BY <1>2, <5>3, <5>5, <6>1, <6>2, SettlesOne
        <5> QED BY <5>4, <5>5
      <4> QED BY <4>1, <4>2, <4>3
    <3> QED BY <3>1, <3>2
  <2> QED BY <2>1, <2>2
<1> QED BY <1>5, <1>6

\* Nobody holds the handoff: what a row's outcome was written by is over.
LEMMA SettledMoves ==
    ASSUME JobsInv, JobsInv', QuietInv, Service, SettlesTo(vers', hand')
    PROVE  VerificationsMove
<1>1. /\ JobTypes /\ vers \in Seq(VerificationRow) /\ \A m \in DOMAIN vers : vers[m] \in VerificationRow
  BY DEF JobsInv, JobTypes
<1>2. CASE vers' = vers
  BY <1>1, <1>2, VerificationsKept
<1>3. ASSUME NEW i \in DOMAIN vers, NEW status \in VerificationStatuses,
             vers' = [vers EXCEPT ![i].status = status, ![i].reconciled = (status = "consumed")],
             vers[i].status = "dispatched",
             status = "consumed" =>
                Legacy!LockFree /\ vers[i].outcome # None /\ hand'.phase = "awaiting_astra_review"
      PROVE  VerificationsMove
  <2>1. PICK reconciled \in BOOLEAN : reconciled = (status = "consumed")
    OBVIOUS
  <2>2. PICK new : new = [vers[i] EXCEPT !.status = status, !.reconciled = reconciled]
    OBVIOUS
  <2>3. /\ new.pred = vers[i].pred /\ new.succ = vers[i].succ /\ new.outcome = vers[i].outcome
        /\ new.status = status /\ new.reconciled = reconciled
    BY <1>1, <2>2 DEF VerificationRow
  <2>4. vers' = [vers EXCEPT ![i] = new]
    BY <1>3, <2>1, <2>2
  <2>5. /\ DOMAIN vers' = DOMAIN vers /\ vers'[i] = new
        /\ \A m \in DOMAIN vers : m # i => vers'[m] = vers[m]
    BY <2>4
  <2>6. status = "consumed" => vers[i].succ # 0 /\ OverNext(vers[i].succ) /\ BehindNext(vers[i].pred)
    <3> SUFFICES ASSUME status = "consumed"
                 PROVE  vers[i].succ # 0 /\ OverNext(vers[i].succ) /\ BehindNext(vers[i].pred)
      OBVIOUS
    <3>1. /\ VerifiedOK(i) /\ AttemptsOK /\ vers[i].outcome # None /\ Legacy!LockFree
          /\ hand'.phase = "awaiting_astra_review"
      BY <1>3 DEF QuietInv
    <3>2. PICK s : s = vers[i].succ
      OBVIOUS
    <3>3. PICK p : p = vers[i].pred
      OBVIOUS
    <3>4. /\ s # 0 /\ s \in Legacy!Jobs /\ ~live[s] /\ ex[s] \in {"publish", "exit", "dead"}
          /\ p \in Legacy!Jobs /\ result[p].kind = "blocked"
      BY <1>1, <3>1, <3>2, <3>3, InJobs DEF VerifiedOK
    <3>5. OverNext(s)
      BY <3>1, <3>4 DEF OverNext, Service, Legacy!LockFree, Legacy!Locked
    <3>6. BehindNext(p)
      <4>1. Base' = Base /\ Base \in Int /\ result[p].attempt <= Base /\ result[p].attempt \in Int
        BY <1>1, <3>1, <3>4, ServiceBase, BaseType DEF AttemptsOK, JobTypes, Printed
      <4>2. result'[p] = result[p] /\ hand'.phase \in Past
        BY <3>1 DEF Service, Past
      <4> QED BY <4>1, <4>2 DEF BehindNext
    <3> QED BY <3>2, <3>3, <3>4, <3>5, <3>6
  <2>7. VerificationMove(i)
    BY <1>3, <2>1, <2>3, <2>5, <2>6 DEF VerificationMove
  <2>8. ASSUME NEW m \in DOMAIN vers, m # i PROVE VerificationMove(m)
    BY <2>5, <2>8 DEF VerificationMove
  <2> QED BY <2>5, <2>7, <2>8 DEF VerificationsMove
<1> QED BY <1>2, <1>3 DEF SettlesTo

\* A row is added for a job whose attempt the handoff is still at.
LEMMA AddedMoves ==
    ASSUME JobsInv, JobsInv', QuietInv, NEW j \in DOMAIN job, Legacy!LockFree,
           Legacy!audit_verification(job, hand, j, 0),
           \A k \in DOMAIN vers : vers[k].pred = j => vers[k].status # "dispatched",
           NEW row, vers' = Append(vers, row), row.pred = j, row.outcome = None, ~row.reconciled,
           row.status # "consumed", UNCHANGED <<ex, live, result>>,
           row.succ # 0 => /\ row.succ \in DOMAIN job'
                           /\ job'[row.succ].kind = "verification" /\ job'[row.succ].link = Len(vers) + 1
                           /\ result[row.succ] = Legacy!NoResult
    PROVE  VerificationsMove
<1>1. /\ JobTypes /\ j \in Legacy!Jobs /\ StageOK(j) /\ vers \in Seq(VerificationRow)
      /\ Len(vers) \in Nat /\ DOMAIN vers = 1 .. Len(vers) /\ hand.attempt \in Int
      /\ \A k \in DOMAIN job : k \in Legacy!Jobs
  BY InJobs DEF JobsInv, JobTypes, HandoffState
<1>2. PICK n \in Nat : n = Len(vers) + 1
  BY <1>1
<1>3. /\ Len(vers') = n /\ vers'[n] = row /\ DOMAIN vers' = 1 .. n
      /\ \A m \in DOMAIN vers : vers'[m] = vers[m]
  BY <1>1, <1>2
<1>4. /\ result[j].kind = "blocked" /\ result[j].attempt = hand.attempt /\ hand.phase = "blocked"
      /\ \A k \in Legacy!Jobs : ~live[k]
  BY DEF Legacy!audit_verification, Legacy!Interrupted, Legacy!observe_gate, Legacy!Stopped, Legacy!process_table
<1>5. Over(j)
  <2>1. ex[j] \in {"exit", "dead"}
    BY <1>1, <1>4, JobBounds DEF StageOK, Legacy!NoResult
  <2> QED BY <1>1, <1>4, <2>1 DEF Over
<1>6. ASSUME NEW k \in DOMAIN vers, vers[k].pred = j
      PROVE  vers[k].status \notin {"consumed", "dispatched"} /\ (vers[k].succ # 0 => Quiet(vers[k].succ))
  <2>1. VerifiedOK(k)
    BY DEF QuietInv
  <2>2. ~Behind(j)
    <3>1. Base = hand.attempt
      BY <1>1, NoLauncher
    <3> QED BY <1>1, <1>4, <3>1 DEF Behind, Past
  <2>3. vers[k].status # "consumed"
    BY <1>6, <2>1, <2>2 DEF VerifiedOK
  <2>4. vers[k].succ # 0 => Quiet(vers[k].succ)
    BY <1>1, <1>4, <2>1 DEF VerifiedOK, Quiet, Legacy!LockFree
  <2> QED BY <1>6, <2>3, <2>4
<1>7. NewVerification(n)
  <2>1. row.succ # 0 => result'[row.succ].kind # "verified"
    BY JobBounds DEF Legacy!NoResult
  <2>2. vers'[n].pred = j /\ vers'[n].succ = row.succ
    BY <1>3
  <2>3. /\ row.outcome = None /\ ~row.reconciled /\ row.status # "consumed"
        /\ row.succ # 0 => /\ row.succ \in DOMAIN job'
                           /\ job'[row.succ].kind = "verification" /\ job'[row.succ].link = n
    BY <1>2
  <2> QED BY <1>3, <1>4, <1>5, <1>6, <2>1, <2>2, <2>3 DEF NewVerification
<1>8. ASSUME NEW m \in DOMAIN vers PROVE VerificationMove(m)
  BY <1>3, <1>8 DEF VerificationMove
<1>9. DOMAIN vers' = DOMAIN vers \cup {n} /\ n \notin DOMAIN vers
  BY <1>1, <1>2, <1>3
<1> QED BY <1>2, <1>7, <1>8, <1>9 DEF VerificationsMove

\* A verification is retried from a blocked job the handoff has not passed, the earlier retries given up.
LEMMA RetryQuiet ==
    ASSUME JobsInv, JobsInv', QuietInv, NEW j \in DOMAIN job, NEW how \in {"ok", "failed", "crash"},
           Legacy!room_verification_retry(j, how)
    PROVE  QuietInv'
<1>1. PICK r : r = Legacy!_reconcile_verification(Legacy!_refresh)
  OBVIOUS
<1>2. SettlesTo(r.rows, r.hand)
  BY <1>1, SettlingQuiet
<1>3. JobTypes /\ hand \in HandoffState
  BY DEF JobsInv, JobTypes
<1>4. CASE r # Legacy!Unchanged
  <2>1. /\ job' = Legacy!_refresh /\ vers' = r.rows /\ hand' = r.hand
        /\ UNCHANGED <<recs, sup, ex, live, result>>
    BY <1>1, <1>4 DEF Legacy!room_verification_retry, Legacy!processes
  <2>2. SettlesTo(vers', hand')
    BY <1>2, <2>1
  <2>3. Service
    BY <2>1, <2>2, RefreshQuiet DEF Service, SettlesTo
  <2>4. RecoveriesMove
    BY <2>1 DEF RecoveriesMove
  <2> QED BY <2>2, <2>3, <2>4, SettledMoves, ServiceConduct
<1>5. CASE r = Legacy!Unchanged
  <2>1. r.hand = hand
    BY <1>5 DEF Legacy!Unchanged
  <2>2. /\ Legacy!audit_verification(job, hand, j, 0) /\ Legacy!LockFree
        /\ \A k \in DOMAIN vers : vers[k].pred = j => vers[k].status # "dispatched"
        /\ \/ /\ Legacy!NewJob(Legacy!_refresh, "verification", Len(vers) + 1, how)
              /\ vers' = Append(vers, [pred |-> j, succ |-> Len(job) + 1, candidate |-> worktree,
                                       outcome |-> None, file |-> FALSE, reconciled |-> FALSE,
                                       status |-> IF how = "failed" THEN "invalidated" ELSE "dispatched"])
              /\ hand' = IF how = "failed" THEN hand ELSE Legacy!prepare_verification(hand, Len(vers) + 1)
              /\ UNCHANGED recs
           \/ /\ vers' = Append(vers, [pred |-> j, succ |-> 0, candidate |-> worktree, outcome |-> None,
                                       file |-> FALSE, reconciled |-> FALSE, status |-> "unregistered"])
              /\ hand' = Legacy!prepare_verification(hand, Len(vers) + 1)
              /\ UNCHANGED <<job, recs, sup, ex, live, result>>
    BY <1>1, <1>5, <2>1 DEF Legacy!room_verification_retry, Legacy!processes
  <2>3. /\ hand'.attempt = hand.attempt /\ hand'.phase = hand.phase
    BY <1>3, <2>2 DEF HandoffState, Legacy!prepare_verification
  <2>4. RecoveriesMove
    BY <2>2 DEF RecoveriesMove
  <2>5. CASE /\ Legacy!NewJob(Legacy!_refresh, "verification", Len(vers) + 1, how)
             /\ vers' = Append(vers, [pred |-> j, succ |-> Len(job) + 1, candidate |-> worktree,
                                      outcome |-> None, file |-> FALSE, reconciled |-> FALSE,
                                      status |-> IF how = "failed" THEN "invalidated" ELSE "dispatched"])
    <3>1. PICK row : row = [pred |-> j, succ |-> Len(job) + 1, candidate |-> worktree, outcome |-> None,
                            file |-> FALSE, reconciled |-> FALSE,
                            status |-> IF how = "failed" THEN "invalidated" ELSE "dispatched"]
      OBVIOUS
    <3>2. /\ row.pred = j /\ row.outcome = None /\ ~row.reconciled /\ row.status # "consumed"
          /\ row.succ = Len(job) + 1
      BY <3>1
    <3>3. vers' = Append(vers, row)
      BY <2>5, <3>1
    <3>4. PICK n : n = Len(vers) + 1
      OBVIOUS
    <3>5. Legacy!NewJob(Legacy!_refresh, "verification", n, how)
      BY <2>5, <3>4
    <3>6. /\ JobsKept /\ SettledQuiet /\ UNCHANGED <<ex, live, result>>
          /\ Len(job) + 1 \in DOMAIN job'
          /\ job'[Len(job) + 1].kind = "verification" /\ job'[Len(job) + 1].link = n
          /\ result[Len(job) + 1] = Legacy!NoResult
      BY <3>5, NewJobQuiet
    <3>7. VerificationsMove
      BY <2>2, <3>2, <3>3, <3>4, <3>6, AddedMoves
    <3>8. Service
      BY <2>3, <3>6 DEF Service
    <3> QED BY <2>4, <3>7, <3>8, ServiceConduct
  <2>6. CASE /\ vers' = Append(vers, [pred |-> j, succ |-> 0, candidate |-> worktree, outcome |-> None,
                                      file |-> FALSE, reconciled |-> FALSE, status |-> "unregistered"])
             /\ UNCHANGED <<job, recs, sup, ex, live, result>>
    <3>1. PICK row : row = [pred |-> j, succ |-> 0, candidate |-> worktree, outcome |-> None,
                            file |-> FALSE, reconciled |-> FALSE, status |-> "unregistered"]
      OBVIOUS
    <3>2. row.pred = j /\ row.outcome = None /\ ~row.reconciled /\ row.status # "consumed" /\ row.succ = 0
      BY <3>1
    <3>3. vers' = Append(vers, row)
      BY <2>6, <3>1
    <3>4. VerificationsMove
      BY <2>2, <2>6, <3>2, <3>3, AddedMoves
    <3>5. SettledQuiet
      BY <1>3, <2>6, InJobs DEF SettledQuiet, QuietInv, ProcessOK, Legacy!Leased
    <3>6. Service
      BY <2>3, <2>6, <3>5 DEF Service, JobsKept
    <3> QED BY <2>4, <3>4, <3>6, ServiceConduct
  <2> QED BY <2>2, <2>5, <2>6
<1> QED BY <1>4, <1>5

-----------------------------------------------------------------------------
(***************************************************************************)
(* Supervisors, and their deaths.                                          *)
(***************************************************************************)
\* The final transaction: what settles the job is nothing that still runs.
LEMMA FinishQuiet ==
    ASSUME JobsInv, JobsInv', QuietInv, NEW j \in DOMAIN job, NEW crash \in BOOLEAN,
           NEW status \in {"cancelled", "succeeded", "failed", "uncertain"},
           Legacy!Finish(j, status, crash), UNCHANGED ex,
           status # "uncertain" => ~live[j] /\ ex[j] \in {"none", "exit", "dead"}
    PROVE  QuietInv'
<1> DEFINE i == job[j].link
           rec == job[j].kind = "implementation" /\ i # 0 /\ recs[i].status = "dispatched" /\ recs[i].succ = j
           ver == job[j].kind = "verification" /\ vers[i].status = "dispatched" /\ vers[i].succ = j
<1>1. /\ JobTypes /\ JobTypes' /\ j \in Legacy!Jobs /\ StageOK(j) /\ RecoveryOK(j) /\ job[j] \in JobRow /\ hand \in HandoffState
      /\ HandoffOK /\ \A k \in DOMAIN job : k \in Legacy!Jobs /\ ProcessOK(k) /\ job[k] \in JobRow
  BY InJobs DEF JobsInv, JobTypes, QuietInv
<1>2. PICK link : link = Legacy!recovery_linkage(j, status)
  OBVIOUS
<1>3. PICK vlink : vlink = Legacy!verification_linkage(i, j, status)
  OBVIOUS
<1>4. /\ job' = [job EXCEPT ![j].status = status] /\ sup' = [sup EXCEPT ![j] = "gone"]
      /\ recs' = IF rec THEN [recs EXCEPT ![i].status = link] ELSE recs
      /\ vers' = IF ver THEN [vers EXCEPT ![i].status = vlink] ELSE vers
      /\ hand' = hand \/ hand' = Legacy!WithoutRecovery(hand, i) \/ hand' = Legacy!WithoutVerification(hand, i)
      /\ UNCHANGED <<live, result>>
  BY <1>2, <1>3 DEF Legacy!Finish
<1>5. hand'.attempt = hand.attempt /\ (hand.phase \in Past => hand'.phase \in Past)
  <2>1. i \in Nat
    BY <1>1 DEF JobRow
  <2>2. /\ hand' = hand
           \/ (hand.verification # 0 /\ hand' = [hand EXCEPT !.phase = "blocked", !.verification = 0])
           \/ (hand.phase = "recovery_prepared" /\ hand' = [hand EXCEPT !.phase = "blocked", !.recovery = 0])
    BY <1>1, <1>4, <2>1, Withdrawn
  <2>3. hand.verification # 0 => hand.phase \notin Past
    BY <1>1 DEF HandoffOK, Past
  <2> QED BY <1>1, <2>2, <2>3 DEF HandoffState, Past
<1>6. /\ DOMAIN job' = DOMAIN job /\ job'[j].status = status
      /\ \A k \in DOMAIN job : job'[k].kind = job[k].kind /\ job'[k].link = job[k].link
      /\ \A k \in DOMAIN job \ {j} : job'[k].status = job[k].status
  BY <1>1, <1>4 DEF JobRow
<1>7. sup'[j] = "gone" /\ \A k \in Legacy!Jobs \ {j} : sup'[k] = sup[k]
  BY <1>1, <1>4 DEF JobTypes
<1>8. SettledQuiet
  BY <1>1, <1>6, <1>7 DEF SettledQuiet, ProcessOK, Legacy!Leased
<1>9. Service
  BY <1>4, <1>5, <1>6, <1>8 DEF Service, JobsKept
<1>10. RecoveriesMove
  <2>1. CASE rec
    <3>1. i \in DOMAIN recs /\ \A m \in DOMAIN recs : recs[m] \in RecoveryRow
      BY <1>1, <2>1 DEF RecoveryOK, Recovers, JobTypes
    <3>2. DOMAIN recs' = DOMAIN recs /\ \A m \in DOMAIN recs : recs'[m].pred = recs[m].pred
      BY <1>4, <2>1, <3>1 DEF RecoveryRow
    <3> QED BY <3>2 DEF RecoveriesMove
  <2>2. CASE ~rec
    BY <1>4, <2>2 DEF RecoveriesMove
  <2> QED BY <2>1, <2>2
<1>11. VerificationsMove
  <2>1. CASE ~ver
    BY <1>1, <1>4, <2>1, VerificationsKept
  <2>2. CASE ver
    <3>1. i \in DOMAIN vers /\ \A m \in DOMAIN vers : vers[m] \in VerificationRow
      BY <1>1, <2>2 DEF StageOK, JobTypes
    <3>2. PICK new : new = [vers[i] EXCEPT !.status = vlink]
      OBVIOUS
    <3>3. /\ new.pred = vers[i].pred /\ new.succ = vers[i].succ /\ new.outcome = vers[i].outcome
          /\ new.status = vlink /\ new.reconciled = vers[i].reconciled
      BY <3>1, <3>2 DEF VerificationRow
    <3>4. vers' = [vers EXCEPT ![i] = new]
      BY <1>4, <2>2, <3>2
    <3>5. DOMAIN vers' = DOMAIN vers /\ vers'[i] = new /\ \A m \in DOMAIN vers : m # i => vers'[m] = vers[m]
      BY <3>1, <3>4
    <3>6. vlink = "consumed" => BehindNext(vers[i].pred)
      <4> SUFFICES ASSUME vlink = "consumed" PROVE BehindNext(vers[i].pred)
        OBVIOUS
      <4>1. result[j].kind = "verified"
        BY <1>3 DEF Legacy!verification_linkage
      <4>2. PICK p : p = vers[i].pred
        OBVIOUS
      <4>3. VerifiedOK(i) /\ vers[i].succ = j /\ j # 0
        BY <1>1, <2>2, <3>1 DEF QuietInv, Legacy!Jobs
      <4>4. Behind(p) /\ p \in Legacy!Jobs
        BY <1>1, <4>1, <4>2, <4>3 DEF VerifiedOK
      <4>5. result'[p] = result[p]
        BY <1>4
      <4> QED BY <1>1, <1>9, <4>2, <4>4, <4>5, ServiceBase, StaysBehind
    <3>7. VerificationMove(i)
      BY <2>2, <3>3, <3>5, <3>6 DEF VerificationMove
    <3>8. ASSUME NEW m \in DOMAIN vers, m # i PROVE VerificationMove(m)
      BY <3>5, <3>8 DEF VerificationMove
    <3> QED BY <3>5, <3>7, <3>8 DEF VerificationsMove
  <2> QED BY <2>1, <2>2
<1> QED BY <1>9, <1>10, <1>11, ServiceConduct

\* The supervisor takes its job, or settles its row once the executor has ended.
LEMMA SuperviseQuiet ==
    ASSUME JobsInv, JobsInv', QuietInv, NEW j \in DOMAIN job,
           Legacy!worker_start(j) \/ \E crash \in BOOLEAN : Legacy!worker_finish(j, crash)
    PROVE  QuietInv'
<1>1. /\ JobTypes /\ j \in Legacy!Jobs /\ StageOK(j) /\ ProcessOK(j) /\ job[j] \in JobRow
      /\ \A k \in DOMAIN job : k \in Legacy!Jobs /\ job[k] \in JobRow
  BY InJobs DEF JobsInv, QuietInv
<1>2. ASSUME NEW crash \in BOOLEAN, Legacy!worker_finish(j, crash) PROVE QuietInv'
  <2>1. PICK status \in {"succeeded", "failed", "uncertain"} :
            /\ Legacy!Finish(j, status, crash)
            /\ status = "succeeded" => result[j].kind \in {"awaiting", "scope", "verified"}
            /\ status = "failed" => result[j].kind = "refused"
    BY <1>2 DEF Legacy!worker_finish
  <2>2. ex[j] \in {"exit", "dead"} /\ UNCHANGED ex
    BY <1>2 DEF Legacy!worker_finish
  <2>3. status # "uncertain" => ~live[j]
    BY <1>1, <2>1 DEF ProcessOK
  <2> QED BY <2>1, <2>2, <2>3, FinishQuiet
<1>3. CASE Legacy!worker_start(j) /\ job[j].cancel
  <2>1. PICK crash \in BOOLEAN : Legacy!Finish(j, "cancelled", crash)
    BY <1>3 DEF Legacy!worker_start
  <2>2. sup[j] = "spawned" /\ UNCHANGED ex
    BY <1>3 DEF Legacy!worker_start
  <2>3. ex[j] = "none" /\ ~live[j]
    BY <1>1, <2>2 DEF StageOK, ProcessOK
  <2> QED BY <2>1, <2>2, <2>3, FinishQuiet
<1>4. CASE Legacy!worker_start(j) /\ ~job[j].cancel
  <2>1. /\ sup[j] = "spawned" /\ ex[j] = "none" /\ ~live[j]
        /\ job' = [job EXCEPT ![j].status = "running"]
        /\ sup' = [sup EXCEPT ![j] = "running"] /\ ex' = [ex EXCEPT ![j] = "start"]
        /\ UNCHANGED <<recs, vers, hand, live, result>>
    BY <1>1, <1>4 DEF Legacy!worker_start, StageOK, ProcessOK
  <2>2. /\ DOMAIN job' = DOMAIN job /\ job'[j].status = "running"
        /\ \A k \in DOMAIN job : job'[k].kind = job[k].kind /\ job'[k].link = job[k].link
        /\ \A k \in DOMAIN job \ {j} : job'[k].status = job[k].status
    BY <1>1, <2>1 DEF JobRow
  <2>3. /\ ex'[j] = "start" /\ \A k \in Legacy!Jobs \ {j} : sup'[k] = sup[k] /\ ex'[k] = ex[k]
    BY <1>1, <2>1 DEF JobTypes
  <2>4. Advance
    <3>1. \A k \in DOMAIN job : ex'[k] = "launch" <=> ex[k] = "launch"
      BY <1>1, <2>1, <2>3
    <3>2. AtLaunch' <=> AtLaunch
      BY <2>2, <3>1 DEF AtLaunch, Recovers
    <3>3. Base' = Base
      BY <2>1, <3>2 DEF Base
    <3> QED BY <2>1, <3>3 DEF Advance
  <2>5. ASSUME NEW k \in Legacy!Jobs PROVE ProcessMove(k) /\ ResultMove(k) /\ ProcessOK(k)'
    <3>1. ResultMove(k)
      BY <2>1 DEF ResultMove
    <3>2. ProcessOK(k)
      BY DEF QuietInv
    <3>3. CASE k = j
      <4>1. ProcessMove(j)
        BY <2>1, <2>3 DEF ProcessMove, QuietNext, Legacy!Locked
      <4>2. ProcessOK(j)'
        BY <2>1, <2>2 DEF ProcessOK
      <4> QED BY <3>1, <3>3, <4>1, <4>2
    <3>4. CASE k # j
      <4>1. ex'[k] = ex[k] /\ sup'[k] = sup[k] /\ UNCHANGED <<live, result>>
        BY <2>1, <2>3, <3>4
      <4>2. ProcessMove(k)
        BY <4>1 DEF ProcessMove, Quiet, QuietNext
      <4>3. ProcessOK(k)'
        BY <2>2, <3>2, <3>4, <4>1 DEF ProcessOK, Legacy!Leased
      <4> QED BY <3>1, <4>2, <4>3
    <3> QED BY <3>3, <3>4
  <2>6. JobsKept /\ RecoveriesMove /\ VerificationsMove
    BY <1>1, <2>1, <2>2, VerificationsKept DEF JobsKept, RecoveriesMove
  <2>7. Conduct
    BY <2>4, <2>5, <2>6 DEF Conduct
  <2> QED BY <2>7, QuietKept
<1> QED BY <1>2, <1>3, <1>4

\* A supervisor dies, or the machine restarts.
LEMMA DeathsQuiet ==
    ASSUME JobsInv, JobsInv', QuietInv, (\E j \in DOMAIN job : Legacy!SupervisorDies(j)) \/ Legacy!Reboot
    PROVE  QuietInv'
<1>1. JobTypes /\ JobTypes' /\ \A k \in Legacy!Jobs : ProcessOK(k) /\ StageOK(k)
  BY DEF JobsInv, QuietInv
<1>2. UNCHANGED <<job, recs, vers, hand, result>>
  BY DEF Legacy!SupervisorDies, Legacy!Reboot
<1>3. \A k \in Legacy!Jobs : sup'[k] = sup[k] \/ sup'[k] = "gone"
  BY <1>1 DEF Legacy!SupervisorDies, Legacy!Reboot, JobTypes
<1>4. \A k \in Legacy!Jobs : /\ \/ ex'[k] = ex[k]
                                \/ ex'[k] = "dead" /\ ex[k] \in Legacy!Alive
                             /\ live'[k] => live[k] /\ ex'[k] = ex[k]
  BY <1>1 DEF Legacy!SupervisorDies, Legacy!Reboot, JobTypes
<1>5. Advance
  <2>1. \A k \in DOMAIN job : ex'[k] = "launch" => ex[k] = "launch"
    BY <1>1, <1>4, InJobs
  <2>2. AtLaunch' => AtLaunch
    BY <1>2, <2>1 DEF AtLaunch, Recovers
  <2>3. hand.attempt \in Int /\ hand' = hand
    BY <1>2, BaseType, <1>1
  <2>4. CASE AtLaunch' <=> AtLaunch
    <3>1. Base' = Base
      BY <2>3, <2>4 DEF Base
    <3> QED BY <2>3, <3>1 DEF Advance
  <2>5. CASE AtLaunch /\ ~AtLaunch'
    <3>1. Base = hand.attempt - 1
      BY <2>5 DEF Base
    <3>2. Base' = hand'.attempt
      BY <2>5 DEF Base
    <3>3. Base < Base'
      BY <2>3, <3>1, <3>2
    <3> QED BY <3>3 DEF Advance
  <2> QED BY <2>2, <2>4, <2>5
<1>6. ASSUME NEW k \in Legacy!Jobs PROVE ProcessMove(k) /\ ResultMove(k) /\ ProcessOK(k)'
  <2>1. ProcessOK(k) /\ UNCHANGED <<job, vers, result>> /\ (sup'[k] = sup[k] \/ sup'[k] = "gone")
    BY <1>1, <1>2, <1>3
  <2>2. (ex'[k] = ex[k] \/ (ex'[k] = "dead" /\ ex[k] \in Legacy!Alive)) /\ (live'[k] => live[k] /\ ex'[k] = ex[k])
    BY <1>4
  <2>3. ResultMove(k)
    BY <2>1 DEF ResultMove
  <2>4. ProcessMove(k)
    BY <2>1, <2>2 DEF ProcessMove, Quiet, QuietNext, Legacy!Alive, Legacy!Locked
  <2>5. ProcessOK(k)'
    BY <2>1, <2>2 DEF ProcessOK, Legacy!Leased
  <2> QED BY <2>3, <2>4, <2>5
<1>7. JobsKept /\ RecoveriesMove /\ VerificationsMove
  BY <1>1, <1>2, VerificationsKept DEF JobsKept, RecoveriesMove
<1>8. Conduct
  BY <1>5, <1>6, <1>7 DEF Conduct
<1> QED BY <1>8, QuietKept

\* Every step of the legacy controller keeps it quiet.
LEMMA StepQuiet == JobsInv /\ QuietInv /\ [Legacy!Next]_legacy => QuietInv'
<1> SUFFICES ASSUME JobsInv, QuietInv, [Legacy!Next]_legacy PROVE QuietInv'
  OBVIOUS
<1>0. JobsInv'
  BY StepJobs
<1>1. ASSUME NEW how \in {"ok", "failed", "crash"},
             \/ Legacy!room_implementation_submit(how)
             \/ \E i \in DOMAIN recs : Legacy!SubmitRecovery(i, how)
             \/ \E j \in DOMAIN job : Legacy!room_verification_retry(j, how)
      PROVE  QuietInv'
  BY <1>0, <1>1, RegistryQuiet, SubmitRecoveryQuiet, RetryQuiet
<1>2. ASSUME NEW j \in DOMAIN job, NEW crash \in BOOLEAN,
             Legacy!room_implementation_recover(j, crash) \/ Legacy!worker_finish(j, crash)
      PROVE  QuietInv'
  BY <1>0, <1>2, RecoverQuiet, SuperviseQuiet
<1>3. ASSUME NEW j \in DOMAIN job,
             \/ Legacy!worker_start(j) \/ Legacy!room_job_cancel(j) \/ Legacy!SupervisorDies(j)
      PROVE  QuietInv'
  BY <1>0, <1>3, SuperviseQuiet, RegistryQuiet, DeathsQuiet
<1>4. ASSUME NEW j \in DOMAIN job,
             \/ Legacy!run_implementation(j) \/ Legacy!LaunchModel(j) \/ Legacy!ModelSpawnError(j)
             \/ Legacy!GatesEnd(j) \/ Legacy!verification_run(j) \/ Legacy!VerifyEnds(j) \/ Legacy!Publish(j)
             \/ Legacy!handle_termination(j) \/ Legacy!ExecutorDies(j)
      PROVE  QuietInv'
  <2>1. CASE Legacy!ModelSpawnError(j)
    BY <1>0, <2>1, NotLaunchedQuiet DEF Legacy!ModelSpawnError
  <2> QED BY <1>0, <1>4, <2>1, RunImplementationQuiet, LaunchQuiet, GatesEndQuiet, VerificationRunQuiet,
             VerifyEndsQuiet, PublishQuiet, HandleTerminationQuiet, ExecutorDiesQuiet
<1>5. ASSUME NEW j \in DOMAIN job, NEW content \in Contents,
             Legacy!ModelEnds(j, content) \/ Legacy!OrphanEnds(j, content)
      PROVE  QuietInv'
  BY <1>0, <1>5, ModelEndsQuiet, OrphanEndsQuiet
<1>6. ASSUME NEW content \in Contents, Legacy!Edit(content) PROVE QuietInv'
  BY <1>0, <1>6, RegistryQuiet
<1>7. ASSUME \/ \E ok \in BOOLEAN : Legacy!room_implementation_review(ok)
             \/ Legacy!room_implementation_revise \/ Legacy!room_spec_put \/ Legacy!Reboot
      PROVE  QuietInv'
  BY <1>0, <1>7, RegistryQuiet, DeathsQuiet
<1>8. ASSUME UNCHANGED legacy PROVE QuietInv'
  <2>1. UNCHANGED <<job, recs, vers, hand, sup, ex, live, result>>
    BY <1>8 DEF legacy
  <2>2. SettledQuiet
    BY <2>1, InJobs DEF SettledQuiet, QuietInv, ProcessOK, Legacy!Leased, JobsInv
  <2> QED BY <1>0, <2>1, <2>2, RowsKeptQuiet DEF JobsKept
<1> QED BY <1>1, <1>2, <1>3, <1>4, <1>5, <1>6, <1>7, <1>8 DEF Legacy!Next, Legacy!Spawn

\* An idle controller has no executor at work and no process left by one.
THEOREM IdleRoomsQuiet == MCSpec => []QuietWhenIdle
<1>1. MCInit => QuietInv
  BY QuietInit DEF MCInit
<1>2. JobsInv /\ QuietInv /\ [MCNext]_<<of, vars, legacy>> => QuietInv'
  <2>1. [MCNext]_<<of, vars, legacy>> => [Legacy!Next]_legacy
    BY DEF MCNext
  <2> QED BY <2>1, StepQuiet
<1>3. JobsInv /\ QuietInv => QuietWhenIdle
  BY IdleIsQuiet DEF QuietWhenIdle
<1> QED BY <1>1, <1>2, <1>3, JobsInvariant, PTL DEF MCSpec

====
