--------------------------- MODULE Reviews_proof ---------------------------
(***************************************************************************)
(* Theorems about the components of MCReviews: ReviewerAttempts (every      *)
(* attempt beyond the third is the one its own grant names), ProviderEpoch  *)
(* (what a crash cuts short can be reconciled, one provider works for the   *)
(* room), SpecReviews (every allowance is spent once) and LegacyReview      *)
(* (a round stays within its budget, a handoff rests on the last reply).    *)
(***************************************************************************)
EXTENDS MCReviews, FiniteSetTheorems, SequenceTheorems, WellFoundedInduction, TLAPS

-----------------------------------------------------------------------------
(***************************************************************************)
(* The inductive invariant.                                                *)
(***************************************************************************)
\* The attempts up to request i, and the attempts beyond the third.
UpTo(i) == {j \in _reviewer_requests : j <= i}
Beyond(i) == Cardinality(UpTo(i)) > LIMIT

\* A request is the review the grant before entry e admits, on what was audited.
Granted(turn, e) ==
    /\ files[e].kind = "consumption" /\ files[e - 1].kind = "grant"
    /\ files[e - 1].review = turn.id
    /\ turn.cand = files[e - 1].audit.checkpoint
    /\ turn.spec = files[e - 1].audit.spec
    /\ turn.session = files[e - 1].audit.reviewer

\* At most one file is ahead of the projection; inside an operation it is the operation's.
JournalInv ==
    /\ named <= Len(files) /\ Len(files) <= named + 1
    /\ win.op \in {"extend", "consume"} => Len(files) = named + 1
    /\ win.op = "consume" =>
          /\ win.turn.role = "reviewer" /\ win.turn.session = reviewer
          /\ win.turn.entry = named + 1 /\ named >= 1
          /\ Granted(win.turn, named + 1)

\* Each attempt beyond the third has its own consumption, of the grant that names it.
AccountInv ==
    /\ \A i \in DOMAIN turns : turns[i].entry <= named
    /\ \A i \in _reviewer_requests :
          Beyond(i) => turns[i].entry \in 2..named /\ Granted(turns[i], turns[i].entry)
    /\ \A i, j \in _reviewer_requests :
          Beyond(i) /\ Beyond(j) /\ turns[i].entry = turns[j].entry => i = j

\* The reviewer is replaced only while no request was ever its own.
SessionsInv ==
    /\ ReviewerNotRenewed
    /\ win.op = "recover" =>
          /\ _reviewer_requests = {} /\ recovery.receipt # None
          /\ recovery.receipt.original = reviewer
          /\ recovery.receipt.replacement \notin {reviewer, other}
    /\ recovery.ref => recovery.receipt # None

IInv == TypeOK /\ JournalInv /\ AccountInv /\ SessionsInv

-----------------------------------------------------------------------------
(***************************************************************************)
(* The sequences and the counts.                                           *)
(***************************************************************************)
Entries == GrantRecord \cup ConsumptionRecord

LEMMA Numbered ==
    ASSUME TypeOK
    PROVE  /\ Len(turns) \in Nat /\ DOMAIN turns = 1..Len(turns)
           /\ \A i \in DOMAIN turns : turns[i] \in TurnRecord /\ i \in Nat
           /\ Len(files) \in Nat /\ DOMAIN files = 1..Len(files)
           /\ \A e \in DOMAIN files : files[e] \in Entries
           /\ named \in Nat
<1>1. turns \in Seq(TurnRecord) /\ files \in Seq(Entries) /\ named \in Nat
  BY DEF TypeOK, Entries
<1>2. Len(turns) \in Nat /\ DOMAIN turns = 1..Len(turns)
      /\ Len(files) \in Nat /\ DOMAIN files = 1..Len(files)
  BY <1>1, LenProperties
<1>3. \A i \in DOMAIN turns : turns[i] \in TurnRecord
  BY <1>1, <1>2, ElementOfSeq
<1>4. \A e \in DOMAIN files : files[e] \in Entries
  BY <1>1, <1>2, ElementOfSeq
<1> QED BY <1>1, <1>2, <1>3, <1>4

LEMMA Counted ==
    ASSUME TypeOK
    PROVE  /\ IsFiniteSet(_reviewer_requests) /\ Cardinality(_reviewer_requests) \in Nat
           /\ \A i : IsFiniteSet(UpTo(i)) /\ Cardinality(UpTo(i)) \in Nat
                     /\ Cardinality(UpTo(i)) <= Cardinality(_reviewer_requests)
<1>1. IsFiniteSet(1..Len(turns)) /\ _reviewer_requests \in SUBSET (1..Len(turns))
  BY Numbered, FS_Interval DEF _reviewer_requests
<1>2. IsFiniteSet(_reviewer_requests)
  BY <1>1, FS_Subset
<1>3. \A i : UpTo(i) \in SUBSET _reviewer_requests
  BY DEF UpTo
<1> QED BY <1>2, <1>3, FS_Subset, FS_CardinalityType

(***************************************************************************)
(* What a step may do to the requests and to the journal.                  *)
(***************************************************************************)
\* A request keeps what identifies it; a review also the candidate it is about.
SameTurn(t, u) ==
    /\ u.role = t.role /\ u.id = t.id /\ u.session = t.session /\ u.spec = t.spec /\ u.entry = t.entry
    /\ t.role = "reviewer" => u.cand = t.cand

SameTurns ==
    /\ turns' \in Seq(TurnRecord) /\ DOMAIN turns' = DOMAIN turns
    /\ \A i \in DOMAIN turns : SameTurn(turns[i], turns'[i])

\* The journal only grows, and so does its projection.
Grown ==
    /\ Len(files) <= Len(files') /\ Len(files') \in Nat
    /\ \A e \in DOMAIN files : files'[e] = files[e]
    /\ named' \in Nat /\ named <= named'

LEMMA UnchangedTurns ==
    ASSUME TypeOK, UNCHANGED turns
    PROVE  SameTurns
BY Numbered DEF SameTurns, SameTurn, TypeOK

LEMMA UnchangedFiles ==
    ASSUME TypeOK, UNCHANGED <<files, named>>
    PROVE  Grown
BY Numbered DEF Grown

LEMMA SameReviews ==
    ASSUME TypeOK, SameTurns
    PROVE  /\ _reviewer_requests' = _reviewer_requests
           /\ \A i : UpTo(i)' = UpTo(i) /\ (Beyond(i)' <=> Beyond(i))
<1>1. _reviewer_requests' = _reviewer_requests
  BY DEF SameTurns, SameTurn, _reviewer_requests
<1>2. \A i : UpTo(i)' = UpTo(i)
  BY <1>1 DEF UpTo
<1> QED BY <1>1, <1>2 DEF Beyond

LEMMA GrantedKept ==
    ASSUME TypeOK, JournalInv, Grown, NEW t, NEW u, NEW e \in 2..Len(files), Granted(t, e),
           u.id = t.id, u.cand = t.cand, u.spec = t.spec, u.session = t.session
    PROVE  Granted(u, e)'
<1>1. files'[e] = files[e] /\ files'[e - 1] = files[e - 1]
  BY Numbered DEF Grown
<1> QED BY <1>1 DEF Granted

LEMMA AccountKept ==
    ASSUME IInv, SameTurns, Grown
    PROVE  AccountInv'
<1>0. TypeOK /\ JournalInv /\ AccountInv
  BY DEF IInv
<1>1. /\ _reviewer_requests' = _reviewer_requests
      /\ \A i : Beyond(i)' <=> Beyond(i)
  BY <1>0, SameReviews
<1>2. \A i \in DOMAIN turns' : turns'[i].entry = turns[i].entry /\ turns[i].entry \in Nat
  BY <1>0, Numbered DEF SameTurns, SameTurn, TurnRecord
<1>3. \A i \in DOMAIN turns' : turns'[i].entry <= named'
  BY <1>0, <1>2, Numbered DEF AccountInv, SameTurns, Grown
<1>4. ASSUME NEW i \in _reviewer_requests', Beyond(i)'
      PROVE  turns'[i].entry \in 2..named' /\ Granted(turns[i], turns[i].entry)'
  <2>1. i \in _reviewer_requests /\ i \in DOMAIN turns /\ turns[i].role = "reviewer"
    BY <1>1, <1>4 DEF _reviewer_requests
  <2>2. turns[i].entry \in 2..named /\ Granted(turns[i], turns[i].entry)
    BY <1>0, <1>1, <1>4, <2>1 DEF AccountInv
  <2>3. SameTurn(turns[i], turns'[i]) /\ turns'[i].cand = turns[i].cand
    BY <2>1 DEF SameTurns, SameTurn
  <2>4. turns[i].entry \in 2..Len(files)
    BY <1>0, <2>2, Numbered DEF JournalInv
  <2>5. \E e, t, u : e = turns[i].entry /\ t = turns[i] /\ u = turns'[i]
    OBVIOUS
  <2>6. PICK e, t, u : e = turns[i].entry /\ t = turns[i] /\ u = turns'[i]
    BY <2>5
  <2>7. Granted(u, e)'
    BY <1>0, <2>2, <2>3, <2>4, <2>6, GrantedKept DEF SameTurn
  <2>8. u = turns'[i] /\ e = turns'[i].entry
    BY <2>3, <2>6 DEF SameTurn
  <2> QED BY <1>0, <2>2, <2>3, <2>7, <2>8, Numbered DEF SameTurn, Grown
<1>5. \A i, j \in _reviewer_requests' :
         Beyond(i)' /\ Beyond(j)' /\ turns'[i].entry = turns'[j].entry => i = j
  BY <1>0, <1>1, <1>2 DEF AccountInv, _reviewer_requests, SameTurns
<1> QED BY <1>3, <1>4, <1>5 DEF AccountInv

\* A request added to the others: the counts of those stay as they are.
LEMMA Appended ==
    ASSUME TypeOK, NEW n, n = Len(turns), NEW new \in TurnRecord, turns' = Append(turns, new)
    PROVE  /\ turns' \in Seq(TurnRecord) /\ DOMAIN turns' = 1..n + 1
           /\ \A i \in DOMAIN turns : turns'[i] = turns[i]
           /\ turns'[n + 1] = new
           /\ new.role # "reviewer" => _reviewer_requests' = _reviewer_requests
           /\ new.role = "reviewer" =>
                 /\ _reviewer_requests' = _reviewer_requests \cup {n + 1}
                 /\ UpTo(n + 1)' = _reviewer_requests \cup {n + 1}
                 /\ Cardinality(UpTo(n + 1)') = Cardinality(_reviewer_requests) + 1
           /\ \A i \in DOMAIN turns : UpTo(i)' = UpTo(i)
<1>1. /\ turns \in Seq(TurnRecord) /\ n \in Nat /\ DOMAIN turns = 1..n
  BY Numbered DEF TypeOK
<1>2. /\ turns' \in Seq(TurnRecord) /\ Len(turns') = n + 1
      /\ \A i \in 1..n : turns'[i] = turns[i]
      /\ turns'[n + 1] = new
  BY <1>1, AppendProperties
<1>3. DOMAIN turns' = 1..n + 1
  BY <1>2, LenProperties
<1>4. new.role # "reviewer" => _reviewer_requests' = _reviewer_requests
  BY <1>1, <1>2, <1>3 DEF _reviewer_requests
<1>5. new.role = "reviewer" => _reviewer_requests' = _reviewer_requests \cup {n + 1}
  BY <1>1, <1>2, <1>3 DEF _reviewer_requests
<1>6. n + 1 \notin _reviewer_requests /\ \A j \in _reviewer_requests : j \in 1..n
  BY <1>1 DEF _reviewer_requests
<1>7. \A i \in DOMAIN turns : UpTo(i)' = UpTo(i)
  BY <1>1, <1>4, <1>5, <1>6 DEF UpTo
<1>8. new.role = "reviewer" => UpTo(n + 1)' = _reviewer_requests \cup {n + 1}
  <2> SUFFICES ASSUME new.role = "reviewer" PROVE UpTo(n + 1)' = _reviewer_requests \cup {n + 1}
    OBVIOUS
  <2>1. UpTo(n + 1)' = {j \in _reviewer_requests' : j <= n + 1}
    BY DEF UpTo
  <2> QED BY <1>1, <1>5, <1>6, <2>1
<1>9. Cardinality(_reviewer_requests \cup {n + 1}) = Cardinality(_reviewer_requests) + 1
  BY <1>6, Counted, FS_AddElement
<1> QED BY <1>1, <1>2, <1>3, <1>4, <1>5, <1>7, <1>8, <1>9

LEMMA AccountAppended ==
    ASSUME IInv, Grown, NEW n, n = Len(turns), NEW new \in TurnRecord, turns' = Append(turns, new),
           new.entry <= named',
           new.role = "reviewer" /\ Cardinality(_reviewer_requests) >= LIMIT =>
              /\ new.entry \in 2..named' /\ new.entry > named
              /\ Granted(new, new.entry)'
    PROVE  AccountInv'
<1>0. TypeOK /\ JournalInv /\ AccountInv
  BY DEF IInv
<1>1. /\ DOMAIN turns' = 1..n + 1 /\ DOMAIN turns = 1..n /\ n \in Nat
      /\ \A i \in DOMAIN turns : turns'[i] = turns[i] /\ UpTo(i)' = UpTo(i) /\ (Beyond(i)' <=> Beyond(i))
      /\ turns'[n + 1] = new
  BY <1>0, Appended, Numbered DEF Beyond
<1>2. \A i \in DOMAIN turns' : i \in DOMAIN turns \/ i = n + 1
  BY <1>1
<1>3. \A i \in _reviewer_requests' : (i \in _reviewer_requests /\ i \in DOMAIN turns) \/ (i = n + 1 /\ new.role = "reviewer")
  BY <1>1, <1>2 DEF _reviewer_requests
<1>4. new.role = "reviewer" /\ Beyond(n + 1)' => Cardinality(_reviewer_requests) >= LIMIT
  <2> SUFFICES ASSUME new.role = "reviewer", Beyond(n + 1)' PROVE Cardinality(_reviewer_requests) >= LIMIT
    OBVIOUS
  <2>1. Cardinality(UpTo(n + 1)') = Cardinality(_reviewer_requests) + 1
    BY <1>0, Appended
  <2> QED BY <1>0, <2>1, Counted DEF Beyond, LIMIT
<1>5. \A i \in DOMAIN turns : turns[i].entry \in Nat
  BY <1>0, Numbered DEF TurnRecord
<1>6. \A i \in DOMAIN turns' : turns'[i].entry <= named'
  BY <1>0, <1>1, <1>2, <1>5, Numbered DEF AccountInv, Grown
<1>7. ASSUME NEW i \in _reviewer_requests', Beyond(i)'
      PROVE  turns'[i].entry \in 2..named' /\ Granted(turns[i], turns[i].entry)'
  <2>1. CASE i \in _reviewer_requests /\ i \in DOMAIN turns
    <3>1. turns[i].entry \in 2..named /\ Granted(turns[i], turns[i].entry)
      BY <1>0, <1>1, <1>7, <2>1 DEF AccountInv
    <3>2. \E e, t : e = turns[i].entry /\ t = turns[i]
      OBVIOUS
    <3>3. PICK e, t : e = turns[i].entry /\ t = turns[i]
      BY <3>2
    <3>4. e \in 2..Len(files)
      BY <1>0, <3>1, <3>3, Numbered DEF JournalInv
    <3>5. Granted(t, e)'
      BY <1>0, <3>1, <3>3, <3>4, GrantedKept
    <3>6. t = turns'[i] /\ e = turns'[i].entry
      BY <1>1, <2>1, <3>3
    <3>7. e \in 2..named'
      BY <1>0, <3>1, <3>3, Numbered DEF Grown
    <3> QED BY <3>5, <3>6, <3>7
  <2>2. CASE i = n + 1 /\ new.role = "reviewer"
    <3>1. turns'[i] = new /\ Cardinality(_reviewer_requests) >= LIMIT
      BY <1>1, <1>4, <1>7, <2>2
    <3>2. new.entry \in 2..named' /\ Granted(new, new.entry)'
      BY <2>2, <3>1
    <3> QED BY <3>1, <3>2
  <2> QED BY <1>3, <2>1, <2>2
<1>8. ASSUME NEW i \in _reviewer_requests', NEW j \in _reviewer_requests', Beyond(i)', Beyond(j)',
             turns'[i].entry = turns'[j].entry
      PROVE  i = j
  <2>1. CASE i \in DOMAIN turns /\ j \in DOMAIN turns
    <3>1. i \in _reviewer_requests /\ j \in _reviewer_requests /\ Beyond(i) /\ Beyond(j)
      BY <1>1, <1>3, <1>8, <2>1
    <3> QED BY <1>0, <1>1, <1>8, <2>1, <3>1 DEF AccountInv
  <2>2. ASSUME NEW k \in DOMAIN turns, new.role = "reviewer", Beyond(n + 1)'
        PROVE  turns'[k].entry # turns'[n + 1].entry
    BY <1>0, <1>1, <1>4, <1>5, <2>2, Numbered DEF AccountInv
  <2> QED BY <1>3, <1>8, <2>1, <2>2
<1> QED BY <1>6, <1>7, <1>8 DEF AccountInv

-----------------------------------------------------------------------------
(***************************************************************************)
(* The steps.                                                              *)
(***************************************************************************)
\* Whatever an operation demands of the journal, its projection is complete, but for a
\* grant the same request reconciles.
LEMMA Validated ==
    ASSUME TypeOK, NEW pending \in BOOLEAN, validate(pending)
    PROVE  /\ Len(files) = named \/ Len(files) = named + 1
           /\ ~pending => Len(files) = named
           /\ Len(files) = named + 1 => PendingGrant = files[named + 1] /\ files[named + 1] \in GrantRecord
           /\ Unconsumed # None => named \in DOMAIN files /\ Unconsumed = files[named] /\ files[named].kind = "grant"
<1>1. CASE files = <<>> /\ named = 0
  BY <1>1, EmptySeq DEF Unconsumed
<1>2. CASE ~(files = <<>> /\ named = 0)
  <2>1. _journal(pending)
    BY <1>2 DEF validate, _verified
  <2>2. Len(files) = named + 1 => files[named + 1] \in GrantRecord /\ pending /\ files[named + 1].kind = "grant"
    <3> SUFFICES ASSUME Len(files) = named + 1
                 PROVE  files[named + 1] \in GrantRecord /\ pending /\ files[named + 1].kind = "grant"
      OBVIOUS
    <3>1. files[named + 1].kind = "grant" /\ pending
      BY <2>1, Numbered DEF _journal
    <3>2. files[named + 1] \in Entries
      BY Numbered
    <3> QED BY <3>1, <3>2 DEF Entries, GrantRecord, ConsumptionRecord
  <2>3. Unconsumed # None => named \in DOMAIN files /\ Unconsumed = files[named] /\ files[named].kind = "grant"
    BY <2>1, Numbered DEF Unconsumed, _journal
  <2> QED BY <2>1, <2>2, <2>3 DEF _journal, PendingGrant
<1> QED BY <1>1, <1>2

\* The new request of a send.
LEMMA TurnType ==
    ASSUME TypeOK, NEW role \in {"engineer", "reviewer"}, NEW id \in Reviews \cup {None},
           NEW s \in Sessions \cup {None}
    PROVE  /\ Turn(role, id, s) \in TurnRecord
           /\ Turn(role, id, s).role = role /\ Turn(role, id, s).session = s /\ Turn(role, id, s).entry = 0
           /\ Turn(role, id, s).id = id /\ Turn(role, id, s).spec = spec
           /\ role = "reviewer" => Turn(role, id, s).cand = checkpoint
BY DEF Turn, TurnRecord, TypeOK

\* What consume writes is the grant's own request, on what its audit saw.
LEMMA Consumed ==
    ASSUME IInv, NEW id \in Reviews, send_granted(id)
    PROVE  /\ win' = [op |-> "consume", turn |-> win'.turn] /\ win'.turn \in TurnRecord
           /\ files' \in Seq(Entries) /\ Len(files') = Len(files) + 1 /\ Len(files) = named
           /\ \A e \in DOMAIN files : files'[e] = files[e]
           /\ named >= 1 /\ win'.turn.role = "reviewer" /\ win'.turn.session = reviewer
           /\ win'.turn.entry = named + 1
           /\ \E r, e : r = win'.turn /\ e = named + 1 /\ Granted(r, e)'
<1>0. TypeOK
  BY DEF IInv
<1> DEFINE request == [Turn("reviewer", id, reviewer) EXCEPT !.entry = Len(files) + 1]
<1>1. /\ files' = Append(files, Consumption(request))
      /\ win' = [op |-> "consume", turn |-> request]
      /\ UNCHANGED named
  BY DEF send_granted, consume, journal
<1>2. /\ Unconsumed # None /\ Unconsumed.review = id /\ validate(FALSE)
      /\ [evidence(id) EXCEPT !.entries = 0, !.recovery = None] =
             [Unconsumed.audit EXCEPT !.entries = 0, !.recovery = None]
  BY DEF send_granted, admission
<1>3. /\ named \in DOMAIN files /\ Unconsumed = files[named] /\ files[named].kind = "grant" /\ Len(files) = named
  BY <1>0, <1>2, Validated
<1>4. files[named] \in GrantRecord
  BY <1>0, <1>3, Numbered DEF Entries, GrantRecord, ConsumptionRecord
<1>5. /\ request \in TurnRecord /\ request.role = "reviewer" /\ request.session = reviewer
      /\ request.id = id /\ request.spec = spec /\ request.cand = checkpoint /\ request.entry = Len(files) + 1
  <2> DEFINE turn == Turn("reviewer", id, reviewer)
  <2>1. reviewer \in Sessions
    BY <1>0 DEF TypeOK
  <2>2. /\ turn \in TurnRecord /\ turn.role = "reviewer" /\ turn.session = reviewer
        /\ turn.id = id /\ turn.spec = spec /\ turn.cand = checkpoint
    BY <1>0, <2>1, TurnType
  <2>3. Len(files) + 1 \in Nat
    BY <1>0, Numbered
  <2> HIDE DEF turn
  <2>4. request = [turn EXCEPT !.entry = Len(files) + 1]
    BY DEF turn
  <2> HIDE DEF request
  <2> QED BY <2>2, <2>3, <2>4 DEF TurnRecord
<1>6. Consumption(request) \in Entries /\ Consumption(request).kind = "consumption"
  BY <1>5 DEF Consumption, ConsumptionRecord, Entries
<1>7. /\ files' \in Seq(Entries) /\ Len(files') = Len(files) + 1
      /\ \A e \in 1..Len(files) : files'[e] = files[e]
      /\ files'[Len(files) + 1] = Consumption(request)
  <2>1. files \in Seq(Entries)
    BY <1>0 DEF TypeOK, Entries
  <2> QED BY <1>1, <1>6, <2>1, AppendProperties
<1>8. /\ files[named].audit.checkpoint = checkpoint /\ files[named].audit.spec = spec
      /\ files[named].audit.reviewer = reviewer
  <2> DEFINE left == [evidence(id) EXCEPT !.entries = 0, !.recovery = None]
             right == [files[named].audit EXCEPT !.entries = 0, !.recovery = None]
  <2>1. left = right
    BY <1>2, <1>3
  <2>2. left.checkpoint = checkpoint /\ left.spec = spec /\ left.reviewer = reviewer
    BY DEF evidence
  <2>3. /\ right.checkpoint = files[named].audit.checkpoint /\ right.spec = files[named].audit.spec
        /\ right.reviewer = files[named].audit.reviewer
    BY <1>4 DEF GrantRecord, ExtensionAudit
  <2> HIDE DEF left, right
  <2> QED BY <2>1, <2>2, <2>3
<1>9. /\ named \in Nat /\ named >= 1 /\ DOMAIN files = 1..named
  BY <1>0, <1>3, Numbered
<1>10. PICK r, e : r = request /\ e = named + 1
  OBVIOUS
<1>11. Granted(r, e)'
  <2>1. files'[e].kind = "consumption" /\ e - 1 = named /\ files'[e - 1] = files[named]
    BY <1>3, <1>6, <1>7, <1>9, <1>10
  <2>2. r.id = id /\ r.spec = spec /\ r.cand = checkpoint /\ r.session = reviewer
    BY <1>5, <1>10
  <2> QED BY <1>2, <1>3, <1>8, <2>1, <2>2 DEF Granted
<1>12. win'.turn = request /\ win' = [op |-> "consume", turn |-> win'.turn]
  BY <1>1
<1> HIDE DEF request
<1> QED BY <1>3, <1>5, <1>7, <1>9, <1>10, <1>11, <1>12

\* A grant's file is added at most once, one ahead of the projection.
LEMMA Extended ==
    ASSUME TypeOK, NEW id \in Requests, extend(id)
    PROVE  /\ files' \in Seq(Entries) /\ Grown /\ Len(files') = named + 1
           /\ win' = [op |-> "extend"] /\ UNCHANGED <<named, turns, reviewer>>
<1>1. /\ win' = [op |-> "extend"] /\ UNCHANGED <<named, turns, reviewer>>
      /\ validate(TRUE)
  BY DEF extend, sessions, room
<1>2. files \in Seq(Entries) /\ Len(files) \in Nat /\ named \in Nat
  BY Numbered DEF TypeOK, Entries
<1>3. CASE PendingGrant # None
  <2>1. UNCHANGED files
    BY <1>3 DEF extend
  <2>2. Len(files) = named + 1
    BY <1>3 DEF PendingGrant
  <2> QED BY <1>1, <1>2, <2>1, <2>2, UnchangedFiles
<1>4. CASE PendingGrant = None
  <2>1. files' = Append(files, Grant(id, audit)) /\ audit # None /\ audit.lane = "acceptance"
    BY <1>4 DEF extend
  <2>2. audit \in ExtensionAudit
    BY <2>1 DEF TypeOK, RecoveryAudit
  <2>3. Grant(id, audit) \in Entries
    BY <2>2, Counted DEF Grant, Entries, GrantRecord, ExtensionAudit
  <2>4. Len(files) = named
    <3>1. Len(files) # named + 1
      <4> SUFFICES ASSUME Len(files) = named + 1 PROVE FALSE
        OBVIOUS
      <4>1. PendingGrant \in GrantRecord
        BY <1>1, Validated
      <4> QED BY <1>4, <4>1, NoneAssumption
    <3> QED BY <1>1, <3>1, Validated
  <2>5. /\ files' \in Seq(Entries) /\ Len(files') = Len(files) + 1
        /\ \A e \in 1..Len(files) : files'[e] = files[e]
    BY <1>2, <2>1, <2>3, AppendProperties
  <2> QED BY <1>1, <1>2, <2>4, <2>5, Numbered DEF Grown
<1> QED BY <1>3, <1>4

LEMMA TypeStep ==
    ASSUME IInv, [Next]_vars
    PROVE  TypeOK'
<1>0. TypeOK
  BY DEF IInv
<1> USE BoundsAssumption
<1>1. ASSUME NEW id \in Requests, extend(id) PROVE TypeOK'
  BY <1>0, <1>1, Extended DEF TypeOK, Entries, Grown, extend, room, sessions, native
<1>2. ASSUME NEW id \in Reviews, audit_grant(id) PROVE TypeOK'
  <2>1. evidence(id) \in ExtensionAudit
    BY <1>0, Numbered DEF TypeOK, evidence, ExtensionAudit
  <2> QED BY <1>0, <1>2, <2>1 DEF TypeOK, audit_grant, room, journal, sessions, native
<1>3. ASSUME NEW id \in Reviews, send_granted(id) PROVE TypeOK'
  BY <1>0, <1>3, Consumed DEF TypeOK, Entries, send_granted, room, sessions, native
<1>4. ASSUME NEW role \in {"engineer", "reviewer"}, NEW s \in Sessions \cup {None},
             turns' = Append(turns, Turn(role, None, s))
      PROVE  turns' \in Seq(TurnRecord) /\ acceptances \subseteq DOMAIN turns'
  <2>1. PICK n, new : n = Len(turns) /\ new = Turn(role, None, s)
    OBVIOUS
  <2>2. new \in TurnRecord /\ turns' = Append(turns, new)
    BY <1>0, <1>4, <2>1, TurnType
  <2>3. turns' \in Seq(TurnRecord) /\ DOMAIN turns' = 1..n + 1
    BY <1>0, <2>1, <2>2, Appended
  <2> QED BY <1>0, <2>1, <2>3, Numbered DEF TypeOK
<1>5. CASE send_review
  BY <1>0, <1>4, <1>5 DEF TypeOK, send_review, journal, sessions
<1>6. CASE send_engineering
  BY <1>0, <1>4, <1>6 DEF TypeOK, send_engineering, journal, sessions, native
<1>7. CASE extend_save
  BY <1>0, <1>7 DEF TypeOK, extend_save, room, sessions, native, Idle
<1>8. CASE send_granted_save
  <2>1. win.turn \in TurnRecord
    BY <1>0, <1>8 DEF TypeOK, send_granted_save, Idle
  <2>2. turns' \in Seq(TurnRecord) /\ acceptances \subseteq DOMAIN turns'
    BY <1>0, <1>8, <2>1, Appended, Numbered DEF TypeOK, send_granted_save
  <2> QED BY <1>0, <1>8, <2>2 DEF TypeOK, send_granted_save, sessions
<1>9. CASE recover_save
  BY <1>0, <1>9, NoneAssumption DEF TypeOK, IInv, SessionsInv, recover_save, room, journal,
     native, Idle, Recoveries
<1>10. ASSUME NEW i \in DOMAIN turns, NEW u \in TurnRecord, turns' = [turns EXCEPT ![i] = u]
       PROVE  turns' \in Seq(TurnRecord) /\ DOMAIN turns' = DOMAIN turns
  BY <1>0, <1>10, Numbered, ExceptSeq DEF TypeOK
<1>11. ASSUME NEW i \in DOMAIN turns, settle(i) PROVE TypeOK'
  BY <1>0, <1>10, <1>11, Numbered DEF TypeOK, TurnRecord, settle, journal, sessions, native
<1>12. ASSUME NEW i \in DOMAIN turns, accept(i) PROVE TypeOK'
  BY <1>0, <1>12 DEF TypeOK, accept, journal, sessions, native
<1>13. ASSUME NEW i \in DOMAIN turns, NEW c \in 0..MaxCand, NEW a \in Answers(turns[i].role), sync(i, a, c)
       PROVE  TypeOK'
  <2>1. a \in {"done", "unusable", "approved", "rejected"}
    BY DEF Answers
  <2> DEFINE u == [turns[i] EXCEPT !.state = "completed", !.answer = a,
                                   !.cand = IF turns[i].role = "engineer" THEN c ELSE @]
  <2>2. u \in TurnRecord
    <3>1. turns[i] \in TurnRecord /\ c \in Candidates
      BY <1>0, Numbered DEF Candidates
    <3>2. (IF turns[i].role = "engineer" THEN c ELSE turns[i].cand) \in Candidates \cup {None}
      BY <3>1 DEF TurnRecord
    <3> QED BY <2>1, <3>1, <3>2 DEF TurnRecord
  <2>3. turns' = [turns EXCEPT ![i] = u]
    BY <1>13 DEF sync
  <2> HIDE DEF u
  <2> QED BY <1>0, <1>10, <1>13, <2>2, <2>3 DEF TypeOK, Candidates, sync, journal, sessions
<1>14. ASSUME NEW passed \in BOOLEAN, verify(passed) PROVE TypeOK'
  BY <1>0, <1>14 DEF TypeOK, verify, journal, sessions, native
<1>15. CASE spec_put
  BY <1>0, <1>15 DEF TypeOK, spec_put, journal, sessions, native
<1>16. CASE audit_recovery
  BY <1>0, <1>16 DEF TypeOK, audit_recovery, recovery_evidence, RecoveryAudit, room, journal,
     sessions, native
<1>17. ASSUME NEW s \in Sessions, recover(s) PROVE TypeOK'
  BY <1>0, <1>17 DEF TypeOK, recover, Recoveries, room, journal, native
<1>18. ASSUME NEW s \in Sessions, bind(s) PROVE TypeOK'
  BY <1>0, <1>18 DEF TypeOK, bind, room, journal, native
<1>19. CASE Edit
  BY <1>0, <1>19 DEF TypeOK, Edit, Candidates, room, journal, sessions
<1>20. CASE Crash
  BY <1>0, <1>20 DEF TypeOK, Crash, room, journal, sessions, native
<1>21. CASE UNCHANGED vars
  BY <1>0, <1>21 DEF TypeOK, vars, room, journal, sessions, native
<1> QED BY <1>1, <1>2, <1>3, <1>5, <1>6, <1>7, <1>8, <1>9, <1>11, <1>12, <1>13, <1>14, <1>15, <1>16,
           <1>17, <1>18, <1>19, <1>20, <1>21 DEF Next

LEMMA JournalStep ==
    ASSUME IInv, [Next]_vars
    PROVE  JournalInv'
<1>0. TypeOK /\ JournalInv
  BY DEF IInv
<1>1. ASSUME UNCHANGED <<files, named, reviewer>>, UNCHANGED win \/ win'.op \in {"idle", "recover"}
      PROVE  JournalInv'
  BY <1>0, <1>1 DEF JournalInv, Granted
<1>2. ASSUME NEW id \in Requests, extend(id) PROVE JournalInv'
  BY <1>0, <1>2, Extended, Numbered DEF JournalInv, Grown
<1>3. ASSUME NEW id \in Reviews, send_granted(id) PROVE JournalInv'
  <2>1. PICK r, e : r = win'.turn /\ e = named + 1 /\ Granted(r, e)'
    BY <1>3, Consumed
  <2>2. UNCHANGED <<named, reviewer>>
    BY <1>3 DEF send_granted, sessions
  <2>3. e = named' + 1 /\ r = win'.turn
    BY <2>1, <2>2
  <2>4. Granted(win.turn, named + 1)'
    BY <2>1, <2>3
  <2> QED BY <1>0, <1>3, <2>2, <2>4, Consumed, Numbered DEF JournalInv
<1>4. CASE extend_save
  BY <1>0, <1>4, Numbered DEF extend_save, JournalInv, Idle
<1>5. CASE send_granted_save
  BY <1>0, <1>5, Numbered DEF send_granted_save, JournalInv, Idle
<1>6. CASE recover_save \/ Crash
  BY <1>0, <1>6, Numbered DEF recover_save, Crash, journal, JournalInv, Idle
<1>7. ASSUME NEW s \in Sessions, recover(s) PROVE JournalInv'
  BY <1>1, <1>7 DEF recover, journal
<1>8. CASE \/ send_review \/ send_engineering \/ spec_put \/ audit_recovery \/ Edit
           \/ (\E id \in Reviews : audit_grant(id)) \/ (\E passed \in BOOLEAN : verify(passed))
  BY <1>1, <1>8 DEF send_review, send_engineering, spec_put, audit_recovery, Edit, audit_grant,
     verify,
     journal, sessions
<1>9. ASSUME NEW i \in DOMAIN turns, settle(i) \/ accept(i) PROVE JournalInv'
  BY <1>1, <1>9 DEF settle, accept, journal, sessions
<1>10. ASSUME NEW i \in DOMAIN turns, NEW c \in 0..MaxCand, NEW a \in Answers(turns[i].role), sync(i, a, c)
       PROVE  JournalInv'
  BY <1>1, <1>10 DEF sync, journal, sessions
<1>11. ASSUME NEW s \in Sessions, bind(s) PROVE JournalInv'
  BY <1>1, <1>11 DEF bind, journal
<1>12. CASE UNCHANGED vars
  BY <1>1, <1>12 DEF vars, journal, sessions
<1> QED BY <1>2, <1>3, <1>4, <1>5, <1>6, <1>7, <1>8, <1>9, <1>10, <1>11, <1>12 DEF Next

\* A turn that ends keeps what identifies its request.
LEMMA Ended ==
    ASSUME TypeOK, TypeOK', NEW i \in DOMAIN turns,
           \/ settle(i)
           \/ \E c \in 0..MaxCand : \E a \in Answers(turns[i].role) : sync(i, a, c)
    PROVE  SameTurns
<1>1. turns' \in Seq(TurnRecord) /\ turns \in [1..Len(turns) -> TurnRecord]
      /\ DOMAIN turns = 1..Len(turns)
  BY Numbered, LenProperties DEF TypeOK
<1>2. ASSUME settle(i) PROVE SameTurns
  <2>1. turns' = [turns EXCEPT ![i].state = "settled_failure"]
    BY <1>2 DEF settle
  <2>2. DOMAIN turns' = DOMAIN turns /\ \A j \in DOMAIN turns : j # i => turns'[j] = turns[j]
    BY <1>1, <2>1
  <2>3. SameTurn(turns[i], turns'[i])
    BY <1>1, <2>1 DEF SameTurn, TurnRecord
  <2> QED BY <1>1, <2>2, <2>3 DEF SameTurns, SameTurn
<1>3. ASSUME NEW c \in 0..MaxCand, NEW a \in Answers(turns[i].role), sync(i, a, c) PROVE SameTurns
  <2>1. turns' = [turns EXCEPT ![i].state = "completed", ![i].answer = a,
                               ![i].cand = IF turns[i].role = "engineer" THEN c ELSE @]
    BY <1>3 DEF sync
  <2>2. DOMAIN turns' = DOMAIN turns /\ \A j \in DOMAIN turns : j # i => turns'[j] = turns[j]
    BY <1>1, <2>1
  <2>3. SameTurn(turns[i], turns'[i])
    BY <1>1, <2>1 DEF SameTurn, TurnRecord
  <2> QED BY <1>1, <2>2, <2>3 DEF SameTurns, SameTurn
<1> QED BY <1>2, <1>3

LEMMA AccountStep ==
    ASSUME IInv, TypeOK', [Next]_vars
    PROVE  AccountInv'
<1>0. TypeOK /\ JournalInv
  BY DEF IInv
<1>1. ASSUME UNCHANGED <<turns, files, named>> PROVE AccountInv'
  BY <1>0, <1>1, AccountKept, UnchangedTurns, UnchangedFiles
<1>2. ASSUME NEW id \in Requests, extend(id) PROVE AccountInv'
  BY <1>0, <1>2, Extended, AccountKept, UnchangedTurns
<1>3. ASSUME NEW id \in Reviews, send_granted(id) PROVE AccountInv'
  <2>1. UNCHANGED <<turns, named>>
    BY <1>3 DEF send_granted, room
  <2>2. Grown
    BY <1>0, <1>3, <2>1, Consumed, Numbered DEF Grown
  <2> QED BY <1>0, <2>1, <2>2, AccountKept, UnchangedTurns
<1>4. CASE extend_save
  <2>1. UNCHANGED <<turns, files>> /\ named' = named + 1
    BY <1>4 DEF extend_save, room
  <2>2. Grown
    BY <1>0, <2>1, Numbered DEF Grown
  <2> QED BY <1>0, <2>1, <2>2, AccountKept, UnchangedTurns
<1>5. CASE send_granted_save
  <2>1. PICK n, new, e : n = Len(turns) /\ new = win.turn /\ e = named + 1
    OBVIOUS
  <2>2. /\ win.op = "consume" /\ UNCHANGED files /\ named' = e
        /\ turns' = Append(turns, new)
    BY <1>5, <2>1 DEF send_granted_save
  <2>3. new \in TurnRecord
    BY <1>0, <2>1, <2>2 DEF TypeOK, Idle
  <2>4. Grown
    BY <1>0, <2>1, <2>2, Numbered DEF Grown
  <2>5. new.entry = e /\ e \in 2..named' /\ e > named /\ Granted(new, e)
    BY <1>0, <2>1, <2>2, Numbered DEF JournalInv
  <2>6. e \in 2..Len(files)
    BY <1>0, <2>1, <2>2, <2>5, Numbered DEF JournalInv
  <2>7. Granted(new, e)'
    BY <1>0, <2>4, <2>5, <2>6, GrantedKept
  <2>8. Granted(new, new.entry)'
    BY <2>5, <2>7
  <2> QED BY <2>1, <2>2, <2>3, <2>4, <2>5, <2>8, AccountAppended
<1>6. ASSUME NEW role \in {"engineer", "reviewer"}, NEW s \in Sessions \cup {None},
             UNCHANGED <<files, named>>, turns' = Append(turns, Turn(role, None, s)),
             role = "reviewer" => Cardinality(_reviewer_requests) < LIMIT
      PROVE  AccountInv'
  <2>1. PICK n, new : n = Len(turns) /\ new = Turn(role, None, s)
    OBVIOUS
  <2>2. new \in TurnRecord /\ new.role = role /\ new.entry = 0 /\ turns' = Append(turns, new)
    BY <1>0, <1>6, <2>1, TurnType
  <2>3. new.entry <= named' /\ Grown
    BY <1>0, <1>6, <2>2, UnchangedFiles, Numbered
  <2>4. ~(new.role = "reviewer" /\ Cardinality(_reviewer_requests) >= LIMIT)
    BY <1>0, <1>6, <2>2, Counted DEF LIMIT
  <2> QED BY <2>1, <2>2, <2>3, <2>4, AccountAppended
<1>7. CASE send_review
  BY <1>0, <1>6, <1>7 DEF send_review, TypeOK, journal
<1>8. CASE send_engineering
  BY <1>6, <1>8 DEF send_engineering, journal
<1>9. ASSUME NEW i \in DOMAIN turns, settle(i) PROVE AccountInv'
  BY <1>0, <1>9, Ended, AccountKept, UnchangedFiles DEF settle, journal
<1>10. ASSUME NEW i \in DOMAIN turns, NEW c \in 0..MaxCand, NEW a \in Answers(turns[i].role), sync(i, a, c)
       PROVE  AccountInv'
  <2>1. SameTurns
    BY <1>0, <1>10, Ended
  <2> QED BY <1>0, <1>10, <2>1, AccountKept, UnchangedFiles DEF sync, journal
<1>11. CASE \/ recover_save \/ Crash \/ spec_put \/ audit_recovery \/ Edit
            \/ (\E id \in Reviews : audit_grant(id)) \/ (\E passed \in BOOLEAN : verify(passed))
  BY <1>1, <1>11 DEF recover_save, Crash, spec_put, audit_recovery, Edit, audit_grant, verify,
     room, journal
<1>12. ASSUME NEW s \in Sessions, recover(s) \/ bind(s) PROVE AccountInv'
  BY <1>1, <1>12 DEF recover, bind, room, journal
<1>13. ASSUME NEW i \in DOMAIN turns, accept(i) PROVE AccountInv'
  BY <1>1, <1>13 DEF accept, journal
<1>14. CASE UNCHANGED vars
  BY <1>1, <1>14 DEF vars, room, journal
<1> QED BY <1>2, <1>3, <1>4, <1>5, <1>7, <1>8, <1>9, <1>10, <1>11, <1>12, <1>13, <1>14 DEF Next

LEMMA SessionsStep ==
    ASSUME IInv, TypeOK', [Next]_vars
    PROVE  SessionsInv'
<1>0. TypeOK /\ JournalInv /\ SessionsInv
  BY DEF IInv
<1>1. ASSUME UNCHANGED sessions, SameTurns, UNCHANGED win \/ win'.op # "recover" PROVE SessionsInv'
  <2>1. /\ _reviewer_requests' = _reviewer_requests
        /\ \A i \in _reviewer_requests : turns'[i].session = turns[i].session
    BY <1>0, <1>1, SameReviews DEF SameTurns, SameTurn, _reviewer_requests
  <2> QED BY <1>0, <1>1, <2>1 DEF SessionsInv, ReviewerNotRenewed, sessions
<1>2. ASSUME NEW new \in TurnRecord, turns' = Append(turns, new), UNCHANGED sessions,
             win'.op # "recover", new.role = "reviewer" => new.session = reviewer
      PROVE  SessionsInv'
  <2>1. PICK n : n = Len(turns)
    OBVIOUS
  <2>2. /\ \A i \in DOMAIN turns : turns'[i] = turns[i]
        /\ turns'[n + 1] = new
        /\ new.role # "reviewer" => _reviewer_requests' = _reviewer_requests
        /\ new.role = "reviewer" => _reviewer_requests' = _reviewer_requests \cup {n + 1}
    BY <1>0, <1>2, <2>1, Appended
  <2>3. \A i \in _reviewer_requests' : turns'[i].session = reviewer
    BY <1>0, <1>2, <2>2 DEF SessionsInv, ReviewerNotRenewed, _reviewer_requests
  <2> QED BY <1>0, <1>2, <2>3 DEF SessionsInv, ReviewerNotRenewed, sessions
<1>3. CASE send_review
  <2>1. PICK new : new = Turn("reviewer", None, reviewer)
    OBVIOUS
  <2>2. new \in TurnRecord /\ new.session = reviewer
    <3>1. reviewer \in Sessions \cup {None} /\ None \in Reviews \cup {None}
      BY <1>0 DEF TypeOK
    <3> QED BY <1>0, <2>1, <3>1, TurnType
  <2> QED BY <1>2, <1>3, <2>1, <2>2 DEF send_review, Sendable, Idle
<1>4. CASE send_engineering
  <2>1. PICK new : new = Turn("engineer", None, None)
    OBVIOUS
  <2>2. new \in TurnRecord /\ new.role = "engineer"
    BY <1>0, <2>1, TurnType
  <2> QED BY <1>2, <1>4, <2>1, <2>2 DEF send_engineering, Sendable, Idle
<1>5. CASE send_granted_save
  <2>1. PICK new : new = win.turn
    OBVIOUS
  <2>2. new \in TurnRecord /\ new.session = reviewer
    BY <1>0, <1>5, <2>1 DEF TypeOK, Idle, JournalInv, send_granted_save
  <2> QED BY <1>2, <1>5, <2>1, <2>2 DEF send_granted_save, Idle
<1>6. ASSUME NEW id \in Requests, extend(id) PROVE SessionsInv'
  BY <1>0, <1>1, <1>6, UnchangedTurns DEF extend, room
<1>7. ASSUME NEW id \in Reviews, send_granted(id) PROVE SessionsInv'
  BY <1>0, <1>1, <1>7, UnchangedTurns DEF send_granted, consume, room
<1>8. CASE extend_save \/ Crash
  BY <1>0, <1>1, <1>8, UnchangedTurns DEF extend_save, Crash, room, Idle
<1>9. ASSUME NEW s \in Sessions, recover(s) PROVE SessionsInv'
  <2>1. /\ recovery' = [receipt |-> [original |-> reviewer, replacement |-> s], ref |-> FALSE]
        /\ UNCHANGED <<turns, reviewer, other>>
        /\ _reviewer_requests = {} /\ s \notin {reviewer, other} /\ other # reviewer
    BY <1>0, <1>9 DEF recover, room, recovery_inspect, _target, claims, SessionsInv,
       ReviewerNotRenewed
  <2>2. _reviewer_requests' = {}
    BY <2>1 DEF _reviewer_requests
  <2>3. recovery'.receipt # None
    BY <1>0, <2>1, NoneAssumption DEF TypeOK
  <2> QED BY <2>1, <2>2, <2>3 DEF SessionsInv, ReviewerNotRenewed
<1>10. CASE recover_save
  <2>1. /\ recovery' = [recovery EXCEPT !.ref = TRUE] /\ reviewer' = recovery.receipt.replacement
        /\ UNCHANGED <<turns, other>> /\ win' = Idle
        /\ _reviewer_requests = {} /\ recovery.receipt # None
        /\ recovery.receipt.original = reviewer
        /\ recovery.receipt.replacement \notin {reviewer, other}
    BY <1>0, <1>10 DEF recover_save, room, SessionsInv
  <2>2. _reviewer_requests' = {}
    BY <2>1 DEF _reviewer_requests
  <2>3. recovery'.receipt = recovery.receipt /\ other # reviewer
    BY <1>0, <2>1 DEF TypeOK, Recoveries, SessionsInv, ReviewerNotRenewed
  <2> QED BY <2>1, <2>2, <2>3 DEF SessionsInv, ReviewerNotRenewed, Idle
<1>11. ASSUME NEW s \in Sessions, bind(s) PROVE SessionsInv'
  <2>1. _reviewer_requests' = _reviewer_requests
    BY <1>11 DEF bind, room, _reviewer_requests
  <2> QED BY <1>0, <1>11, <2>1 DEF bind, room, claims, Idle, SessionsInv, ReviewerNotRenewed
<1>12. ASSUME NEW i \in DOMAIN turns, settle(i) PROVE SessionsInv'
  BY <1>0, <1>1, <1>12, Ended DEF settle
<1>13. ASSUME NEW i \in DOMAIN turns, NEW c \in 0..MaxCand, NEW a \in Answers(turns[i].role), sync(i, a, c)
       PROVE  SessionsInv'
  <2>1. SameTurns
    BY <1>0, <1>13, Ended
  <2> QED BY <1>1, <1>13, <2>1 DEF sync
<1>14. CASE \/ spec_put \/ audit_recovery \/ Edit
            \/ (\E id \in Reviews : audit_grant(id)) \/ (\E passed \in BOOLEAN : verify(passed))
  BY <1>0, <1>1, <1>14, UnchangedTurns DEF spec_put, audit_recovery, Edit, audit_grant, verify, room
<1>15. ASSUME NEW i \in DOMAIN turns, accept(i) PROVE SessionsInv'
  BY <1>0, <1>1, <1>15, UnchangedTurns DEF accept
<1>16. CASE UNCHANGED vars
  BY <1>0, <1>1, <1>16, UnchangedTurns DEF vars, room
<1> QED BY <1>3, <1>4, <1>5, <1>6, <1>7, <1>8, <1>9, <1>10, <1>11, <1>12, <1>13, <1>14, <1>15,
           <1>16 DEF Next

LEMMA Starts ==
    ASSUME Init
    PROVE  IInv
<1> USE BoundsAssumption
<1> DEFINE done == Past("engineer", None, "done", 0)
           rejected == Past("reviewer", reviewer, "rejected", 0)
<1>1. reviewer \in Sessions
  BY SessionsAssumption DEF Init
<1>2. done \in TurnRecord /\ done.role = "engineer" /\ done.entry = 0
  BY DEF Past, TurnRecord, Candidates
<1>3. rejected \in TurnRecord /\ rejected.role = "reviewer" /\ rejected.entry = 0 /\ rejected.session = reviewer
  BY <1>1 DEF Past, TurnRecord, Candidates
<1>4. /\ turns \in Seq(TurnRecord)
      /\ \A i \in DOMAIN turns : turns[i].entry = 0
      /\ \A i \in _reviewer_requests : i \in 1..3 /\ turns[i].session = reviewer
      /\ other \in Sessions \cup {None} /\ other # reviewer
      /\ typed \subseteq Sessions
  <2>1. CASE turns = <<done>> /\ typed = {} /\ other = None
    <3>1. _reviewer_requests = {}
      BY <1>2, <2>1 DEF _reviewer_requests
    <3>2. None # reviewer
      BY <1>1, NoneAssumption
    <3> HIDE DEF done
    <3> QED BY <1>2, <2>1, <3>1, <3>2
  <2>2. CASE /\ turns = [i \in 1..3 |-> rejected] \o <<done>>
             /\ typed = {reviewer} /\ other = CHOOSE s \in Sessions : s # reviewer
    <3> HIDE DEF done, rejected
    <3>1. [i \in 1..3 |-> rejected] \in Seq(TurnRecord) /\ Len([i \in 1..3 |-> rejected]) = 3
      BY <1>3, IsASeq
    <3>2. <<done>> \in Seq(TurnRecord) /\ Len(<<done>>) = 1 /\ <<done>>[1] = done
      BY <1>2
    <3>3. /\ turns \in Seq(TurnRecord) /\ Len(turns) = 4
          /\ \A i \in 1..4 : turns[i] = IF i <= 3 THEN rejected ELSE done
      <4>1. /\ turns \in Seq(TurnRecord) /\ Len(turns) = 3 + 1
            /\ \A i \in 1..3 + 1 : turns[i] = IF i <= 3 THEN [k \in 1..3 |-> rejected][i] ELSE <<done>>[i - 3]
        BY <2>2, <3>1, <3>2, ConcatProperties
      <4> QED BY <3>2, <4>1
    <3>4. DOMAIN turns = 1..4
      BY <3>3, LenProperties
    <3>5. \E s \in Sessions : s # reviewer
      BY <1>1, SessionsAssumption
    <3>6. other \in Sessions /\ other # reviewer
      BY <2>2, <3>5
    <3> QED BY <1>1, <1>2, <1>3, <2>2, <3>3, <3>4, <3>6 DEF _reviewer_requests
  <2> QED BY <2>1, <2>2 DEF Init
<1>5. TypeOK
  BY <1>1, <1>4, EmptySeq DEF Init, TypeOK, Recoveries, Candidates
<1>6. \A i \in _reviewer_requests : ~Beyond(i)
  <2> SUFFICES ASSUME NEW i \in _reviewer_requests PROVE ~Beyond(i)
    OBVIOUS
  <2>1. UpTo(i) \in SUBSET (1..3)
    BY <1>4 DEF UpTo
  <2>2. IsFiniteSet(1..3) /\ Cardinality(1..3) = 3
    <3>1. 1 \in Int /\ 3 \in Int /\ ~(1 > 3) /\ 3 - 1 + 1 = 3
      OBVIOUS
    <3>2. IsFiniteSet(1..3) /\ Cardinality(1..3) = IF 1 > 3 THEN 0 ELSE 3 - 1 + 1
      BY <3>1, FS_Interval, Zenon
    <3> QED BY <3>1, <3>2
  <2>3. Cardinality(UpTo(i)) <= 3
    BY <2>1, <2>2, FS_Subset
  <2> QED BY <1>5, <2>3, Counted DEF Beyond, LIMIT
<1>7. JournalInv
  BY EmptySeq DEF Init, JournalInv, Idle
<1>8. AccountInv
  BY <1>4, <1>6 DEF Init, AccountInv
<1>9. SessionsInv
  BY <1>4 DEF Init, SessionsInv, ReviewerNotRenewed, Idle
<1> QED BY <1>5, <1>7, <1>8, <1>9 DEF IInv

-----------------------------------------------------------------------------
(***************************************************************************)
(* Theorems.                                                               *)
(***************************************************************************)
\* Journal, projection, attempts and sessions of a reviewer fit together, whatever
\* operation was cut between its two writes.
THEOREM AttemptsInvariant == Spec => []IInv
<1>1. Init => IInv
  BY Starts
<1>2. IInv /\ [Next]_vars => IInv'
  BY TypeStep, JournalStep, AccountStep, SessionsStep DEF IInv
<1> QED BY <1>1, <1>2, PTL DEF Spec

\* The type invariant of the attempts.
THEOREM TypeCorrect == Spec => []TypeOK
BY AttemptsInvariant, PTL DEF IInv

\* Every attempt beyond the third is the one its own grant names, on the candidate, the
\* specification and the reviewer that were audited (admission, consume).
THEOREM GrantsAccounted == Spec => []AttemptsAccounted
<1>1. IInv => AttemptsAccounted
  <2> SUFFICES ASSUME IInv PROVE AttemptsAccounted
    OBVIOUS
  <2>1. TypeOK /\ JournalInv /\ AccountInv
    BY DEF IInv
  <2>2. \A i \in _reviewer_requests :
           Cardinality({j \in _reviewer_requests : j <= i}) > LIMIT =>
              /\ turns[i].entry \in 2..Len(files) /\ Granted(turns[i], turns[i].entry)
    BY <2>1, Numbered DEF AccountInv, JournalInv, Beyond, UpTo
  <2>3. \A i, j \in _reviewer_requests :
           /\ Cardinality({k \in _reviewer_requests : k <= i}) > LIMIT
           /\ Cardinality({k \in _reviewer_requests : k <= j}) > LIMIT
           /\ turns[i].entry = turns[j].entry
           => i = j
    BY <2>1 DEF AccountInv, Beyond, UpTo
  <2> QED BY <2>2, <2>3 DEF AttemptsAccounted, Granted
<1> QED BY <1>1, AttemptsInvariant, PTL

\* A reviewer that was used is never replaced, and no session serves twice (recover,
\* ao_room_bind).
THEOREM ReviewerStays == Spec => []ReviewerNotRenewed
BY AttemptsInvariant, PTL DEF IInv, SessionsInv

-----------------------------------------------------------------------------
(***************************************************************************)
(* The two provider epochs of a room.                                      *)
(***************************************************************************)
\* The preparations of the original epoch, of the second one, and after the adoption.
Preparations == {"original", "epoch", "adopted"}
\* A launch that was recorded.
Launches == [prep : Preparations, session : Requests]
\* What the room, its audits, its receipt and its intent record.
Adoption == [id : Reviews, phase : {"pending", "configured"}]
\* None is none of what the provider keeps.
LEMMA NoneApart ==
    None \notin Reviews \cup Launches \cup Adoption \cup Preparations \cup {"pending", "configured"}
BY ProviderNone DEF Launches, Adoption, Preparations

\* The room, what is audited of it, and the jobs per provider.
Room == [prep : Preparations \cup {None}, status : {None, "pending", "configured"},
         engineer : Requests \cup {None}, pt : Reviews \cup {None}, ra : Adoption \cup {None},
         requests : 0..1, applied : BOOLEAN, other : Nat]
Rows == [{"source", "target"} -> Nat]
Audit == [state : Room, launch : Launches \cup {None}, rows : Rows, outside : Nat]
AdoptionAudit == [state : Room, rows : Rows, outside : Nat]

\* The types of what an epoch keeps.
ProviderType ==
    /\ state \in Room /\ rows \in Rows /\ {outside, runtime, effort} \subseteq Nat
    /\ {live, archive, server} \subseteq Launches \cup {None}
    /\ controller \in {"ready", "stopped"}
    /\ ptAudits \subseteq Audit /\ raAudits \subseteq AdoptionAudit
    /\ receipt \in [id : Reviews, audit : Audit] \cup {None}
    /\ intent \in [id : Reviews, evidence : AdoptionAudit] \cup {None}

\* The first epoch knows no adoption; the second has a configured preparation of its own and
\* a bound engineer, and adopts on evidence from before its first job.
EpochInv ==
    /\ state.prep = None => state.status = None
    /\ state.pt = None =>
          /\ state.ra = None /\ intent = None /\ raAudits = {}
          /\ state.prep \in {None, "original"}
    /\ state.pt # None =>
          state.prep \in {"epoch", "adopted"} /\ state.engineer # None /\ state.status = "configured"
    /\ \A e \in raAudits : e.rows["target"] = 0
    /\ intent # None => intent.evidence \in raAudits

\* A stopped controller runs no delegate, and the one that runs after the adoption is recorded.
DelegateInv ==
    /\ controller = "stopped" => server = None
    /\ state.prep = "adopted" /\ server # None => live # None

\* The inductive invariant.
ProviderInv ==
    /\ ProviderType /\ EpochInv /\ DelegateInv
    /\ Provider!IntentsReconcilable /\ Provider!LaunchEvidenceKept /\ Provider!OneProviderAtATime /\ Provider!LaunchIsTheEngineers

\* What an audit records.
LEMMA AuditTypes ==
    ASSUME ProviderType
    PROVE  /\ Provider!_inspect \subseteq Audit /\ Provider!RaEvidence \in AdoptionAudit
           /\ \A l \in Provider!_launch_evidence : l \in Launches \cup {None}
<1>1. \A l \in Provider!_launch_evidence : l \in Launches \cup {None}
  BY DEF Provider!_launch_evidence, ProviderType, Audit
<1>2. Provider!_inspect \subseteq Audit
  BY <1>1 DEF Provider!_inspect, ProviderType, Audit
<1>3. Provider!WithoutAdoption \in Room
  BY DEF Provider!WithoutAdoption, ProviderType, Room
<1> QED BY <1>1, <1>2, <1>3 DEF Provider!RaEvidence, ProviderType, AdoptionAudit

\* What a transition is audited on: the state that is there, of a first epoch nobody amends.
LEMMA Inspected ==
    ASSUME ProviderType, NEW e \in Provider!_inspect
    PROVE  /\ e.state = state /\ e.launch \in Provider!_launch_evidence /\ state.pt = None
           /\ state.engineer # None /\ state.status = "configured"
BY DEF Provider!_inspect, Provider!validate_preparation

\* Every step keeps the types.
LEMMA ProviderTypeStep ==
    ASSUME ProviderType, EpochInv, [Provider!Next]_Provider!vars
    PROVE  ProviderType'
<1>1. CASE UNCHANGED Provider!vars
  BY <1>1 DEF Provider!vars, Provider!disk, Provider!world, ProviderType
<1>2. CASE Provider!prepare
  <2>1. state' \in Room
    BY <1>2 DEF Provider!prepare, ProviderType, Room, Preparations
  <2> QED BY <1>2, <2>1 DEF Provider!prepare, Provider!disk, ProviderType
<1>3. CASE Provider!Registered \/ Provider!Controller
  BY <1>3 DEF Provider!Registered, Provider!Controller, Provider!disk, ProviderType
<1>4. CASE Provider!audit
  <2>1. ptAudits' \subseteq Audit
    BY <1>4, AuditTypes DEF Provider!audit, ProviderType
  <2> QED BY <1>4, <2>1 DEF Provider!audit, Provider!world, ProviderType
<1>5. CASE Provider!audit_adoption
  <2>1. raAudits' \subseteq AdoptionAudit
    BY <1>5, AuditTypes DEF Provider!audit_adoption, ProviderType
  <2> QED BY <1>5, <2>1 DEF Provider!audit_adoption, Provider!world, ProviderType
<1>6. CASE Provider!dispatch_gate \/ Provider!RoomOperation \/ Provider!StandingPolicy
  <2>1. effort \in Nat /\ state \in Room
    BY DEF ProviderType
  <2>2. state' \in Room /\ effort' \in Nat
    <3>1. CASE Provider!dispatch_gate
      BY <2>1, <3>1 DEF Provider!dispatch_gate, Room
    <3>2. CASE Provider!RoomOperation
      BY <2>1, <3>2 DEF Provider!RoomOperation, Provider!Effort, Room
    <3>3. CASE Provider!StandingPolicy
      <4>1. state' = [state EXCEPT !.applied = TRUE] /\ effort' = effort + 1
        BY <3>3 DEF Provider!StandingPolicy, Provider!Effort
      <4>2. \A x \in Room : [x EXCEPT !.applied = TRUE] \in Room
        BY Zenon DEF Room
      <4> QED BY <2>1, <4>1, <4>2
    <3> QED BY <1>6, <3>1, <3>2, <3>3
  <2> QED BY <1>6, <2>2 DEF Provider!dispatch_gate, Provider!RoomOperation,
             Provider!StandingPolicy, Provider!disk, Provider!world, ProviderType
<1>7. CASE Provider!Job
  <2>1. rows' \in Rows /\ effort' \in Nat
    BY <1>7 DEF Provider!Job, ProviderType, Rows, Provider!Effort, Provider!Profile
  <2> QED BY <1>7, <2>1 DEF Provider!Job, Provider!disk, ProviderType
<1>8. CASE Provider!Outside
  BY <1>8 DEF Provider!Outside, Provider!Effort, Provider!disk, ProviderType
<1>9. CASE \E ses \in Requests : Provider!record_launch(ses) \/ Provider!bind(ses)
  <2>1. PICK ses \in Requests : Provider!record_launch(ses) \/ Provider!bind(ses)
    BY <1>9
  <2>2. CASE Provider!record_launch(ses)
    <3>1. Provider!Launched(ses) \in Launches \cup {None}
      BY <2>2, NoneApart DEF Provider!record_launch, Provider!select, Provider!Launched,
         Launches, EpochInv, ProviderType, Room
    <3> QED BY <2>2, <3>1 DEF Provider!record_launch, ProviderType
  <2>3. CASE Provider!bind(ses)
    <3>1. state' \in Room
      BY <2>3 DEF Provider!bind, ProviderType, Room
    <3> QED BY <2>3, <3>1 DEF Provider!bind, Provider!disk, Provider!world, ProviderType
  <2> QED BY <2>1, <2>2, <2>3
<1>10. CASE \E id \in Reviews : \E found \in ptAudits : Provider!transition(id, found)
  <2>1. PICK id \in Reviews : \E found \in ptAudits : Provider!transition(id, found)
    BY <1>10
  <2>2. PICK found \in ptAudits : Provider!transition(id, found)
    BY <2>1
  <2> DEFINE entry == [id |-> id, audit |-> found]
  <2>3. entry \in [id : Reviews, audit : Audit]
    BY DEF ProviderType
  <2>4. receipt' \in {entry, receipt} /\ state' \in {state, [state EXCEPT !.prep = "epoch", !.pt = id]}
    BY <2>2 DEF Provider!transition, Provider!By
  <2>5. state' \in Room
    BY <2>4 DEF ProviderType, Room, Preparations
  <2>6. {live', archive'} \subseteq Launches \cup {None}
    BY <2>2 DEF Provider!transition, Provider!_archive_launch, Provider!By, ProviderType, Audit
  <2> QED BY <2>2, <2>3, <2>4, <2>5, <2>6 DEF Provider!transition, Provider!world, ProviderType
<1>11. CASE \E id \in Reviews : \E found \in raAudits : Provider!stage(id, found)
  <2>1. PICK id \in Reviews : \E found \in raAudits : Provider!stage(id, found)
    BY <1>11
  <2>2. PICK found \in raAudits : Provider!stage(id, found)
    BY <2>1
  <2> DEFINE entry == [id |-> id, evidence |-> found]
             ref == [id |-> id, phase |-> "pending"]
  <2>3. entry \in [id : Reviews, evidence : AdoptionAudit] /\ ref \in Adoption
    BY DEF ProviderType, Adoption
  <2>4. /\ intent' \in {entry, intent} /\ state' \in {state, [state EXCEPT !.ra = ref]}
        /\ runtime' \in Nat
    BY <2>2 DEF Provider!stage, Provider!By, ProviderType, Provider!Files
  <2>5. state' \in Room
    BY <2>3, <2>4 DEF ProviderType, Room
  <2> QED BY <2>2, <2>3, <2>4, <2>5 DEF Provider!stage, Provider!world, ProviderType
<1>12. CASE \E id \in Reviews : Provider!activate(id)
  <2>1. PICK id \in Reviews : Provider!activate(id)
    BY <1>12
  <2>2. state.ra = [id |-> id, phase |-> "pending"]
        /\ state' = [state EXCEPT !.ra.phase = "configured", !.prep = "adopted"]
    BY <2>1 DEF Provider!activate
  <2>3. [state.ra EXCEPT !.phase = "configured"] \in Adoption
    BY <2>2 DEF Adoption
  <2>4. state' \in Room
    BY <2>2, <2>3 DEF ProviderType, Room, Preparations
  <2> QED BY <2>1, <2>4 DEF Provider!activate, Provider!disk, Provider!world, ProviderType
<1> QED BY <1>1, <1>2, <1>3, <1>4, <1>5, <1>6, <1>7, <1>8, <1>9, <1>10, <1>11,
           <1>12 DEF Provider!Next

\* The policy's word and the reference to an adoption are not compared.
LEMMA SameRoomStays ==
    ASSUME state \in Room, NEW before, Provider!SameRoom(before),
           \/ \E w \in BOOLEAN : state' = [state EXCEPT !.applied = w]
           \/ \E r : state' = [state EXCEPT !.ra = r]
           \/ state' = state
    PROVE  Provider!SameRoom(before)'
<1>1. CASE \E w \in BOOLEAN : state' = [state EXCEPT !.applied = w]
  <2>1. PICK w \in BOOLEAN : state' = [state EXCEPT !.applied = w]
    BY <1>1
  <2>2. [[[state EXCEPT !.applied = w] EXCEPT !.ra = None] EXCEPT !.applied = before.applied]
        = [[state EXCEPT !.ra = None] EXCEPT !.applied = before.applied]
    BY DEF Room
  <2> QED BY <2>1, <2>2 DEF Provider!SameRoom, Provider!WithoutAdoption
<1>2. CASE \E r : state' = [state EXCEPT !.ra = r]
  <2>1. PICK r : state' = [state EXCEPT !.ra = r]
    BY <1>2
  <2>2. [[state EXCEPT !.ra = r] EXCEPT !.ra = None] = [state EXCEPT !.ra = None]
    BY DEF Room
  <2> QED BY <2>1, <2>2 DEF Provider!SameRoom, Provider!WithoutAdoption
<1> QED BY <1>1, <1>2 DEF Provider!SameRoom, Provider!WithoutAdoption

\* What is recorded now is the room as it is now.
LEMMA SameRoomNow ==
    ASSUME state \in Room
    PROVE  Provider!SameRoom(Provider!WithoutAdoption) /\ (state.ra = None => Provider!SameRoom(state))
<1>1. Provider!WithoutAdoption \in [prep : {state.prep}, status : {state.status}, engineer : {state.engineer},
         pt : {state.pt}, ra : {None}, requests : {state.requests}, applied : {state.applied},
         other : {state.other}]
  BY DEF Provider!WithoutAdoption, Room
<1>2. [Provider!WithoutAdoption EXCEPT !.applied = Provider!WithoutAdoption.applied] = Provider!WithoutAdoption
  BY <1>1
<1>3. state.ra = None => Provider!WithoutAdoption = state
  BY DEF Provider!WithoutAdoption, Room
<1> QED BY <1>2, <1>3 DEF Provider!SameRoom

\* What leaves the room and its records as they are.
LEMMA ProviderFrame ==
    ASSUME ProviderInv, ProviderType', DelegateInv', Provider!OneProviderAtATime',
           UNCHANGED <<state, receipt, live, archive, intent>>,
           raAudits \subseteq raAudits', \A e \in raAudits' : e.rows["target"] = 0,
           state.pt = None => raAudits' = {}
    PROVE  ProviderInv'
<1>1. EpochInv'
  BY DEF ProviderInv, EpochInv
<1>2. Provider!IntentsReconcilable' /\ Provider!LaunchEvidenceKept' /\ Provider!LaunchIsTheEngineers'
  BY DEF ProviderInv, Provider!IntentsReconcilable, Provider!SameRoom, Provider!WithoutAdoption,
     Provider!LaunchEvidenceKept, Provider!LaunchIsTheEngineers
<1> QED BY <1>1, <1>2 DEF ProviderInv

\* What an operation of the room finds: nothing pending.
LEMMA Settled ==
    ASSUME ProviderInv, Provider!settled(FALSE)
    PROVE  /\ state.pt = None => receipt = None
           /\ intent # None => state.ra # None /\ state.ra.phase = "configured"
           /\ state.ra # None => state.ra.phase = "configured"
BY DEF Provider!settled, Provider!validate, Provider!pending_gate, ProviderInv

\* An operation of the room, which keeps its epoch and its adoption.
LEMMA RoomStep ==
    ASSUME ProviderInv, ProviderType', Provider!settled(FALSE), state'.pt = state.pt, state'.ra = state.ra,
           UNCHANGED <<receipt, ptAudits, intent, raAudits, live, archive, controller, server, rows>>,
           EpochInv', state.prep # None => state'.prep = state.prep,
           state.prep = None => state'.prep \in {None, "original"}, Provider!LaunchIsTheEngineers'
    PROVE  ProviderInv'
<1>1. Provider!IntentsReconcilable'
  BY Settled DEF Provider!IntentsReconcilable
<1>2. Provider!LaunchEvidenceKept'
  BY DEF ProviderInv, Provider!LaunchEvidenceKept
<1>3. DelegateInv' /\ Provider!OneProviderAtATime'
  BY NoneApart DEF ProviderInv, DelegateInv, Provider!OneProviderAtATime, Preparations
<1> QED BY <1>1, <1>2, <1>3 DEF ProviderInv

\* The attachment, the binding, and requests of the second epoch.
LEMMA OperationStep ==
    ASSUME ProviderInv, ProviderType',
           Provider!prepare \/ Provider!dispatch_gate \/ Provider!RoomOperation \/ \E ses \in Requests : Provider!bind(ses)
    PROVE  ProviderInv'
<1>1. state \in Room /\ Provider!settled(FALSE)
  BY DEF ProviderInv, ProviderType, Provider!prepare, Provider!dispatch_gate,
     Provider!RoomOperation, Provider!bind
<1>2. CASE Provider!prepare
  <2>0. \/ /\ state.status = None /\ state.engineer = None
           /\ \E s \in {"pending", "configured"} : state' = [state EXCEPT !.prep = "original", !.status = s]
        \/ state.status = "pending" /\ state' = [state EXCEPT !.status = "configured"]
    <3>1. ASSUME NEW outcome,
                 state' = [state EXCEPT !.prep = "original", !.status =
                      IF outcome = "done" \/ (outcome # "crash" /\ registry = "ours") THEN "configured" ELSE "pending"]
          PROVE  \E s \in {"pending", "configured"} : state' = [state EXCEPT !.prep = "original", !.status = s]
      BY <3>1
    <3> QED BY <1>2, <3>1 DEF Provider!prepare
  <2>1. \/ state.status = None /\ state.engineer = None /\ state'.prep = "original"
        \/ state.status = "pending" /\ state'.prep = state.prep /\ state'.status = "configured"
    BY <1>1, <2>0 DEF Room
  <2>2. state'.pt = state.pt /\ state'.ra = state.ra /\ state'.engineer = state.engineer
    BY <1>1, <2>0 DEF Room
  <2>3. UNCHANGED <<receipt, ptAudits, intent, raAudits, live, archive, controller, server, rows>>
    BY <1>2 DEF Provider!prepare, Provider!disk
  <2>4. state.pt = None
    BY <2>1, NoneApart DEF ProviderInv, EpochInv
  <2>5. (state.prep # None => state'.prep = state.prep) /\ (state.prep = None => state'.prep \in {None, "original"})
    BY <2>1, <2>4, NoneApart DEF ProviderInv, EpochInv
  <2>6. EpochInv'
    BY <2>1, <2>2, <2>3, <2>4, <2>5, NoneApart DEF ProviderInv, EpochInv, Preparations
  <2>7. Provider!LaunchIsTheEngineers'
    BY <2>2, <2>3 DEF ProviderInv, Provider!LaunchIsTheEngineers
  <2> QED BY <1>1, <2>2, <2>3, <2>5, <2>6, <2>7, RoomStep
<1>3. CASE Provider!dispatch_gate \/ Provider!RoomOperation
  <2>1. state' = [state EXCEPT !.requests = 1] \/ state' = [state EXCEPT !.other = @ + 1]
    BY <1>3 DEF Provider!dispatch_gate, Provider!RoomOperation
  <2>2. /\ state'.prep = state.prep /\ state'.status = state.status /\ state'.pt = state.pt
        /\ state'.ra = state.ra /\ state'.engineer = state.engineer
    BY <1>1, <2>1 DEF Room
  <2>3. UNCHANGED <<receipt, ptAudits, intent, raAudits, live, archive, controller, server, rows>>
    BY <1>3 DEF Provider!dispatch_gate, Provider!RoomOperation, Provider!disk, Provider!world
  <2>4. EpochInv' /\ Provider!LaunchIsTheEngineers'
    BY <2>2, <2>3 DEF ProviderInv, EpochInv, Provider!LaunchIsTheEngineers
  <2>5. state.prep = None => state'.prep \in {None, "original"}
    BY <2>2
  <2> QED BY <1>1, <2>2, <2>3, <2>4, <2>5, RoomStep
<1>4. CASE \E ses \in Requests : Provider!bind(ses)
  <2>1. PICK ses \in Requests : Provider!bind(ses)
    BY <1>4
  <2>2. /\ state'.prep = state.prep /\ state'.status = state.status /\ state'.pt = state.pt
        /\ state'.ra = state.ra /\ state'.engineer = ses
    BY <1>1, <2>1 DEF Provider!bind, Room
  <2>3. UNCHANGED <<receipt, ptAudits, intent, raAudits, live, archive, controller, server, rows>>
    BY <2>1 DEF Provider!bind, Provider!disk, Provider!world
  <2>4. Provider!LaunchIsTheEngineers'
    BY <2>1, <2>2, <2>3 DEF Provider!LaunchIsTheEngineers, Provider!bind,
       Provider!validate_preparation, Provider!Launched
  <2>5. EpochInv'
    BY <2>1, <2>2, <2>3 DEF ProviderInv, EpochInv, Provider!bind
  <2>6. state.prep = None => state'.prep \in {None, "original"}
    BY <2>2
  <2> QED BY <1>1, <2>2, <2>3, <2>4, <2>5, <2>6, RoomStep
<1> QED BY <1>2, <1>3, <1>4

\* A launch is one of the preparation in force, and is recorded once.
LEMMA LaunchStep ==
    ASSUME ProviderInv, ProviderType', NEW ses \in Requests, Provider!record_launch(ses)
    PROVE  ProviderInv'
<1>1. /\ UNCHANGED <<state, receipt, intent, raAudits, archive, controller, rows>>
      /\ live \in {None, Provider!Launched(ses)} /\ live' = Provider!Launched(ses) /\ server' = Provider!Launched(ses)
      /\ controller = "ready" /\ Provider!select(ses)
  BY DEF Provider!record_launch
<1>2. Provider!Launched(ses).prep = state.prep /\ Provider!Launched(ses).session = ses
  BY DEF Provider!Launched
<1>3. Provider!Launched(ses) # None
  BY <1>1, NoneApart DEF Provider!select, Provider!Launched, Launches, ProviderInv, EpochInv,
     ProviderType, Room
<1>4. EpochInv' /\ DelegateInv'
  BY <1>1, <1>3 DEF ProviderInv, EpochInv, DelegateInv
<1>5. Provider!IntentsReconcilable' /\ Provider!LaunchEvidenceKept'
  BY <1>1 DEF ProviderInv, Provider!IntentsReconcilable, Provider!SameRoom,
     Provider!WithoutAdoption, Provider!LaunchEvidenceKept
<1>6. Provider!OneProviderAtATime'
  BY <1>1, <1>2, <1>3 DEF ProviderInv, Provider!OneProviderAtATime, EpochInv
<1>7. Provider!LaunchIsTheEngineers'
  BY <1>1, <1>2 DEF Provider!select, Provider!LaunchIsTheEngineers
<1> QED BY <1>4, <1>5, <1>6, <1>7 DEF ProviderInv

\* The receipt is on what is there, the launch it names is in one of its two places at every
\* cut, and the second epoch begins with no delegate running.
LEMMA TransitionStep ==
    ASSUME ProviderInv, ProviderType', NEW id \in Reviews, NEW found \in ptAudits, Provider!transition(id, found)
    PROVE  ProviderInv'
<1> DEFINE entry == [id |-> id, audit |-> found]
<1>1. /\ found \in Provider!_inspect /\ controller = "stopped" /\ receipt \in {None, entry}
      /\ UNCHANGED <<ptAudits, intent, raAudits, controller, server, rows>>
  BY DEF Provider!transition, Provider!_stopped, Provider!world
<1>2. /\ state.pt = None /\ found.state = state /\ state.engineer # None /\ state.status = "configured"
      /\ found.launch \in Provider!_launch_evidence /\ server = None
  BY <1>1, Inspected DEF ProviderInv, DelegateInv
<1>3. PICK k \in 0..5 :
         /\ receipt' = Provider!By(k, 1, entry, receipt) /\ Provider!_archive_launch(k, found.launch)
         /\ state' = Provider!By(k, 5, [state EXCEPT !.prep = "epoch", !.pt = id], state)
  BY DEF Provider!transition
<1>4. state \in Room /\ state.ra = None /\ intent = None /\ raAudits = {} /\ id # None
  BY <1>2, NoneApart DEF ProviderInv, ProviderType, EpochInv
<1>5. state'.ra = None /\ state'.engineer = state.engineer /\ state'.status = state.status
  BY <1>3, <1>4 DEF Provider!By, Room
<1>6. \/ state' = state
      \/ k = 5 /\ state'.prep = "epoch" /\ state'.pt = id
  BY <1>3, <1>4 DEF Provider!By, Room
<1>7. EpochInv' /\ DelegateInv'
  BY <1>1, <1>2, <1>4, <1>5, <1>6, NoneApart DEF EpochInv, DelegateInv, ProviderInv, Preparations
<1>8. Provider!IntentsReconcilable'
  <2>1. ASSUME receipt' # None, state'.pt = None PROVE Provider!SameRoom(receipt.audit.state)'
    <3>1. state' = state
      BY <1>4, <1>6, <2>1, NoneApart
    <3>2. receipt' = entry
      BY <1>1, <1>3, <2>1 DEF Provider!By
    <3>3. Provider!SameRoom(state)
      BY <1>4, SameRoomNow
    <3> QED BY <1>2, <3>1, <3>2, <3>3 DEF Provider!SameRoom, Provider!WithoutAdoption
  <2> QED BY <1>1, <1>4, <2>1 DEF Provider!IntentsReconcilable
<1>9. Provider!LaunchEvidenceKept'
  <2>1. receipt' \in {receipt, entry}
    BY <1>3 DEF Provider!By
  <2>2. CASE receipt = None
    <3>1. found.launch = live
      BY <1>2, <2>2 DEF Provider!_launch_evidence
    <3> QED BY <1>3, <2>1, <2>2, <3>1 DEF Provider!LaunchEvidenceKept, Provider!_archive_launch,
               Provider!By
  <2>3. CASE receipt = entry /\ receipt # None
    <3>1. found.launch # None => found.launch \in {live, archive}
      BY <2>3 DEF ProviderInv, Provider!LaunchEvidenceKept
    <3>2. found.launch # None => found.launch \in {live', archive'}
      BY <1>3, <3>1 DEF Provider!_archive_launch, Provider!By
    <3> QED BY <2>1, <2>3, <3>2 DEF Provider!LaunchEvidenceKept
  <2> QED BY <1>1, <2>2, <2>3
<1>10. Provider!OneProviderAtATime'
  BY <1>1, <1>2, <1>6, NoneApart DEF Provider!OneProviderAtATime, ProviderInv, EpochInv,
     Preparations
<1>11. Provider!LaunchIsTheEngineers'
  <2>1. live' \in {live, None}
    BY <1>3 DEF Provider!_archive_launch, Provider!By
  <2> QED BY <1>5, <2>1 DEF ProviderInv, Provider!LaunchIsTheEngineers
<1> QED BY <1>7, <1>8, <1>9, <1>10, <1>11 DEF ProviderInv

\* The intent is on what is there, and on evidence from before the first job of the epoch.
LEMMA StageStep ==
    ASSUME ProviderInv, ProviderType', NEW id \in Reviews, NEW found \in raAudits, Provider!stage(id, found)
    PROVE  ProviderInv'
<1> DEFINE entry == [id |-> id, evidence |-> found]
           ref == [id |-> id, phase |-> "pending"]
<1>1. UNCHANGED <<receipt, raAudits, live, archive, controller, server, rows>> /\ state \in Room
  BY DEF Provider!stage, Provider!world, ProviderInv, ProviderType
<1>2. PICK k \in Nat : intent' = Provider!By(k, 1, entry, intent) /\ state' = Provider!By(k, 2, [state EXCEPT !.ra = ref], state)
  BY DEF Provider!stage, Provider!Files
<1>3. state.pt # None
  BY DEF ProviderInv, EpochInv
<1>4. /\ state'.prep = state.prep /\ state'.status = state.status /\ state'.pt = state.pt
      /\ state'.engineer = state.engineer
  BY <1>1, <1>2 DEF Provider!By, Room
<1>5. EpochInv' /\ DelegateInv' /\ Provider!OneProviderAtATime' /\ Provider!LaunchIsTheEngineers' /\ Provider!LaunchEvidenceKept'
  BY <1>1, <1>2, <1>3, <1>4 DEF EpochInv, DelegateInv, Provider!OneProviderAtATime,
     Provider!LaunchIsTheEngineers,
     Provider!LaunchEvidenceKept, ProviderInv, Provider!By
<1>6. Provider!IntentsReconcilable'
  <2>1. CASE intent = None
    <3>1. found.state = Provider!WithoutAdoption
      BY <2>1 DEF Provider!stage, Provider!RaEvidence
    <3>2. Provider!SameRoom(found.state)
      BY <1>1, <3>1, SameRoomNow
    <3>3. Provider!SameRoom(found.state)'
      BY <1>1, <1>2, <3>2, SameRoomStays DEF Provider!By
    <3> QED BY <1>2, <1>3, <1>4, <2>1, <3>3 DEF Provider!IntentsReconcilable, Provider!By
  <2>2. CASE intent # None
    <3>1. state.ra \in {None, ref} /\ intent = entry
      BY <2>2 DEF Provider!stage, Provider!_pending
    <3>2. Provider!SameRoom(found.state)
      BY <2>2, <3>1 DEF ProviderInv, Provider!IntentsReconcilable
    <3>3. Provider!SameRoom(found.state)'
      BY <1>1, <1>2, <3>2, SameRoomStays DEF Provider!By
    <3> QED BY <1>2, <1>3, <1>4, <3>1, <3>3 DEF Provider!IntentsReconcilable, Provider!By
  <2> QED BY <2>1, <2>2
<1> QED BY <1>5, <1>6 DEF ProviderInv

\* The adopted preparation starts where no launch and no job of the epoch has been.
LEMMA ActivateStep ==
    ASSUME ProviderInv, ProviderType', NEW id \in Reviews, Provider!activate(id)
    PROVE  ProviderInv'
<1>1. /\ UNCHANGED <<receipt, intent, raAudits, live, archive, controller, server, rows>> /\ state \in Room
      /\ state.ra = [id |-> id, phase |-> "pending"] /\ intent # None /\ live = None /\ controller = "stopped"
      /\ Provider!RaEvidence = intent.evidence
      /\ state' = [state EXCEPT !.ra.phase = "configured", !.prep = "adopted"]
  BY DEF Provider!activate, Provider!_pending, Provider!_stopped, Provider!disk, Provider!world,
     ProviderInv, ProviderType
<1>2. /\ state'.prep = "adopted" /\ state'.status = state.status /\ state'.pt = state.pt
      /\ state'.engineer = state.engineer
  BY <1>1 DEF Room
<1>3. state'.ra.phase = "configured"
  BY <1>1 DEF Room
<1>4. state.pt # None /\ rows["target"] = 0 /\ server = None
  BY <1>1 DEF ProviderInv, EpochInv, DelegateInv, Provider!RaEvidence
<1>5. EpochInv' /\ DelegateInv' /\ Provider!OneProviderAtATime' /\ Provider!LaunchIsTheEngineers' /\ Provider!LaunchEvidenceKept'
  BY <1>1, <1>2, <1>4, NoneApart DEF EpochInv, DelegateInv, Provider!OneProviderAtATime,
     Provider!LaunchIsTheEngineers,
     Provider!LaunchEvidenceKept, ProviderInv, Preparations
<1>6. state'.ra # None
  <2>1. [state.ra EXCEPT !.phase = "configured"] \in Adoption
    BY <1>1 DEF Adoption
  <2>2. state'.ra = [state.ra EXCEPT !.phase = "configured"]
    BY <1>1 DEF Room
  <2> QED BY <2>1, <2>2, NoneApart
<1>7. Provider!IntentsReconcilable'
  BY <1>2, <1>3, <1>4, <1>6 DEF Provider!IntentsReconcilable
<1> QED BY <1>5, <1>7 DEF ProviderInv

\* One case per action.
LEMMA ProviderStep == ProviderInv /\ [Provider!Next]_Provider!vars => ProviderInv'
<1> SUFFICES ASSUME ProviderInv, [Provider!Next]_Provider!vars PROVE ProviderInv'
  OBVIOUS
<1>1. ProviderType'
  BY ProviderTypeStep DEF ProviderInv
<1>2. CASE Provider!prepare \/ Provider!dispatch_gate \/ Provider!RoomOperation \/ \E ses \in Requests : Provider!bind(ses)
  BY <1>1, <1>2, OperationStep
<1>3. CASE \E ses \in Requests : Provider!record_launch(ses)
  BY <1>1, <1>3, LaunchStep
<1>4. CASE \E id \in Reviews : \E found \in ptAudits : Provider!transition(id, found)
  BY <1>1, <1>4, TransitionStep
<1>5. CASE \E id \in Reviews : \E found \in raAudits : Provider!stage(id, found)
  BY <1>1, <1>5, StageStep
<1>6. CASE \E id \in Reviews : Provider!activate(id)
  BY <1>1, <1>6, ActivateStep
<1>7. CASE Provider!StandingPolicy
  <2>1. UNCHANGED <<receipt, intent, raAudits, live, archive, controller, server, rows>> /\ state \in Room
    BY <1>7 DEF Provider!StandingPolicy, Provider!disk, Provider!world, ProviderInv, ProviderType
  <2>2. state' = [state EXCEPT !.applied = TRUE]
    BY <1>7 DEF Provider!StandingPolicy
  <2>3. /\ state'.prep = state.prep /\ state'.status = state.status /\ state'.pt = state.pt
        /\ state'.engineer = state.engineer /\ state'.ra = state.ra
    BY <2>1, <2>2 DEF Room
  <2>4. \A before : Provider!SameRoom(before) => Provider!SameRoom(before)'
    BY <2>1, <2>2, SameRoomStays
  <2>5. Provider!IntentsReconcilable'
    BY <2>1, <2>3, <2>4 DEF ProviderInv, Provider!IntentsReconcilable
  <2> QED BY <1>1, <2>1, <2>3, <2>5 DEF ProviderInv, EpochInv, DelegateInv,
             Provider!OneProviderAtATime,
             Provider!LaunchIsTheEngineers, Provider!LaunchEvidenceKept
<1>8. CASE Provider!Registered \/ Provider!Controller \/ Provider!Outside \/ Provider!audit
  <2>1. UNCHANGED <<state, receipt, live, archive, intent, raAudits, rows>>
    BY <1>8 DEF Provider!Registered, Provider!Controller, Provider!Outside, Provider!audit,
       Provider!disk, Provider!world
  <2>2. DelegateInv' /\ Provider!OneProviderAtATime'
    BY <1>8, <2>1 DEF Provider!Registered, Provider!Controller, Provider!Outside,
       Provider!audit, Provider!world, ProviderInv, DelegateInv, Provider!OneProviderAtATime
  <2> QED BY <1>1, <2>1, <2>2, ProviderFrame DEF ProviderInv, EpochInv
<1>9. CASE Provider!Job
  <2>1. UNCHANGED <<state, receipt, live, archive, intent, raAudits, server, controller>> /\ server # None
    BY <1>9 DEF Provider!Job, Provider!disk
  <2>2. DelegateInv' /\ Provider!OneProviderAtATime'
    BY <2>1 DEF ProviderInv, DelegateInv, Provider!OneProviderAtATime
  <2> QED BY <1>1, <2>1, <2>2, ProviderFrame DEF ProviderInv, EpochInv
<1>10. CASE Provider!audit_adoption
  <2>1. UNCHANGED <<state, receipt, live, archive, intent, server, controller, rows>> /\ raAudits' = raAudits \cup {Provider!RaEvidence}
    BY <1>10 DEF Provider!audit_adoption, Provider!world
  <2>2. state.pt # None /\ Provider!RaEvidence.rows["target"] = 0
    BY <1>10 DEF Provider!audit_adoption, Provider!_inspect_adoption, Provider!RaEvidence
  <2>3. DelegateInv' /\ Provider!OneProviderAtATime'
    BY <2>1 DEF ProviderInv, DelegateInv, Provider!OneProviderAtATime
  <2> QED BY <1>1, <2>1, <2>2, <2>3, ProviderFrame DEF ProviderInv, EpochInv
<1>11. CASE UNCHANGED Provider!vars
  <2>1. UNCHANGED <<state, receipt, live, archive, intent, raAudits, server, controller, rows>>
    BY <1>11 DEF Provider!vars, Provider!disk, Provider!world
  <2>2. DelegateInv' /\ Provider!OneProviderAtATime'
    BY <2>1 DEF ProviderInv, DelegateInv, Provider!OneProviderAtATime
  <2> QED BY <1>1, <2>1, <2>2, ProviderFrame DEF ProviderInv, EpochInv
<1> QED BY <1>2, <1>3, <1>4, <1>5, <1>6, <1>7, <1>8, <1>9, <1>10, <1>11 DEF Provider!Next

\* Both epochs of the provider, through every cut.
LEMMA ProviderInvariant == Provider!Spec => []ProviderInv
<1>1. Provider!Init => ProviderInv
  <2> SUFFICES ASSUME Provider!Init PROVE ProviderInv
    OBVIOUS
  <2>0. Provider!Unprepared \in Room
    <3>1. FALSE \in BOOLEAN
      OBVIOUS
    <3> QED BY <3>1 DEF Provider!Unprepared, Room
  <2> DEFINE First == /\ state \in Room /\ state.pt = None /\ state.ra = None /\ state.prep \in {None, "original"}
                      /\ state.prep = None => state.status = None
                      /\ live \in Launches \cup {None} /\ (live # None => live.session = state.engineer)
  <2>1. First
    <3>1. CASE state = Provider!Unprepared /\ live = None
      BY <2>0, <3>1 DEF Provider!Unprepared
    <3>2. ASSUME NEW e \in Requests,
                 state = [Provider!Unprepared EXCEPT !.prep = "original", !.status = "configured", !.engineer = e],
                 live \in {None, [prep |-> "original", session |-> e]}
          PROVE  First
      <4>1. state = [prep |-> "original", status |-> "configured", engineer |-> e, pt |-> None, ra |-> None,
                     requests |-> 0, applied |-> FALSE, other |-> 0]
        BY <3>2 DEF Provider!Unprepared
      <4>2. state \in Room
        BY <2>0, <3>2 DEF Room, Preparations
      <4>3. live # None => live = [prep |-> "original", session |-> e]
        BY <3>2
      <4>4. [prep |-> "original", session |-> e] \in Launches
        BY DEF Launches, Preparations
      <4>5. live \in Launches \cup {None} /\ (live # None => live.session = e)
        BY <4>3, <4>4
      <4>6. state.prep = "original" /\ state.engineer = e /\ state.pt = None /\ state.ra = None
        BY <4>1
      <4>7. "original" # None
        BY NoneApart DEF Preparations
      <4> QED BY <4>2, <4>5, <4>6, <4>7
    <3> QED BY <3>1, <3>2 DEF Provider!Init
  <2>3. rows \in Rows /\ controller \in {"ready", "stopped"}
    BY DEF Provider!Init, Rows
  <2>4. ProviderType
    <3>1. /\ archive = None /\ server = None /\ receipt = None /\ intent = None /\ ptAudits = {}
          /\ raAudits = {} /\ outside = 0 /\ runtime = 0 /\ effort = 0
      BY DEF Provider!Init
    <3> QED BY <2>1, <2>3, <3>1 DEF ProviderType
  <2>5. Provider!OneProviderAtATime /\ DelegateInv
    BY <2>1, NoneApart DEF Provider!Init, Provider!OneProviderAtATime, DelegateInv, Preparations
  <2> QED BY <2>1, <2>4, <2>5 DEF Provider!Init, ProviderInv, EpochInv,
             Provider!IntentsReconcilable, Provider!LaunchEvidenceKept,
             Provider!LaunchIsTheEngineers
<1> QED BY <1>1, ProviderStep, PTL DEF Provider!Spec

\* A transition or an adoption that was cut short finds the room as it was when it started,
\* and the launch its receipt names is in one of its two places.
THEOREM IntentsStayReconcilable == Provider!Spec => []IntentsReconcilable
<1>1. ProviderInv => IntentsReconcilable
  BY DEF ProviderInv, IntentsReconcilable
<1> QED BY <1>1, ProviderInvariant, PTL

\* No delegate of the source provider runs in the second epoch, an adopted room only launched
\* the adopted one, and the launch is the bound engineer's.
THEOREM OneProvider == Provider!Spec => []OneProviderAtATime
<1>1. ProviderInv => OneProviderAtATime
  BY DEF ProviderInv, OneProviderAtATime
<1> QED BY <1>1, ProviderInvariant, PTL

-----------------------------------------------------------------------------
(***************************************************************************)
(* The allowances beside the budget of specification reviews.              *)
(***************************************************************************)
\* The engineer requests, and what an audit of each kind records.
BudgetTurn == [purpose : {"spec_review", "engineering", "spec_verdict_repair"}, spec : Nat,
               state : {"active", "completed", "settled_failure"},
               answer : {None, "accept", "changes", "prose", "same", "differs", "done", "scope_change"},
               claim : {"none", "ext", "rr"}, source : Nat, cand : Nat \cup {None}]
Kinds == {"grant", "intent", "completion", "agreement", "closure"}
ReaskAudit == [lane : {"reask"}, source : Nat, spec : Nat, turns : Seq(BudgetTurn), cand : Nat,
               accepted : Nat \cup {None}]
Chain == [files : SUBSET Kinds, named : SUBSET Kinds, audit : ReaskAudit \cup {None}]
Chains == [1..MaxReviewTurns -> Chain]
Manifest == [lane : {"accepted", "pre_acceptance", "rereview"}, spec : Nat, turns : Seq(BudgetTurn),
             cand : Nat, accepted : Nat \cup {None}, chains : Chains]
Allowance == [receipt : [who : Payloads, audit : Manifest] \cup {None}, ref : BOOLEAN, used : Nat]
Windows == {Budget!Idle, [op |-> "extend"], [op |-> "rereview"]}
           \cup [op : {"reask"}, source : 1..MaxReviewTurns] \cup [op : {"send"}, turn : BudgetTurn]
           \cup [op : {"capture"}, turn : Nat, cand : Nat]
           \cup [op : {"finish"}, name : {"agreement", "closure"}]

\* The types of what the room keeps of its reviews and allowances.
BudgetType ==
    /\ {rev, tree} \subseteq Nat /\ requests \in Seq(BudgetTurn) /\ taken \in Nat \cup {None}
    /\ ext \in Allowance /\ rr \in Allowance /\ chains \in Chains /\ active \in 0..MaxReviewTurns
    /\ record \in Manifest \cup ReaskAudit \cup {None} /\ window \in Windows
    /\ Len(requests) <= MaxReviewTurns /\ (window.op = "send" => Len(requests) < MaxReviewTurns)

\* A request is answered once, and only the last may be unanswered.
AnswerInv ==
    /\ \A i \in DOMAIN requests : requests[i].state = "active" => requests[i].answer = None
    /\ \A i, j \in DOMAIN requests : i < j => requests[i].state # "active"
    /\ window.op = "send" =>
          /\ window.turn.state = "active" /\ window.turn.answer = None
          /\ \A i \in DOMAIN requests : requests[i].state # "active"

\* The manifests and the evidence of a re-ask.
LEMMA ManifestTypes ==
    ASSUME BudgetType
    PROVE  /\ \A lane \in {"accepted", "pre_acceptance", "rereview"} : Budget!_manifest(lane) \in Manifest
           /\ \A s \in Nat : Budget!ask_evidence(s) \in ReaskAudit
BY DEF BudgetType, Budget!_manifest, Budget!ask_evidence, Manifest, ReaskAudit

\* A request that is sent.
LEMMA AskType ==
    ASSUME BudgetType, NEW p \in {"spec_review", "engineering", "spec_verdict_repair"},
           NEW c \in {"none", "ext", "rr"}, NEW s \in Nat
    PROVE  /\ Budget!Turn(p, c, s) \in BudgetTurn /\ Budget!Turn(p, c, s).purpose = p /\ Budget!Turn(p, c, s).claim = c
           /\ Budget!Turn(p, c, s).source = s /\ Budget!Turn(p, c, s).spec = rev
           /\ Budget!Turn(p, c, s).state = "active" /\ Budget!Turn(p, c, s).answer = None
BY DEF BudgetType, Budget!Turn, BudgetTurn

\* The windows of the operations apart.
LEMMA WindowTypes ==
    ASSUME BudgetType
    PROVE  /\ window.op = "reask" => window.source \in 1..MaxReviewTurns
           /\ window.op = "send" => window.turn \in BudgetTurn
           /\ window.op = "capture" => window.turn \in Nat /\ window.cand \in Nat
           /\ window.op = "finish" => window.name \in {"agreement", "closure"}
           /\ window.op = "idle" <=> window = Budget!Idle
BY DEF BudgetType, Windows, Budget!Idle

\* One element of a sequence replaced.
LEMMA Updated ==
    ASSUME NEW S, NEW q \in Seq(S), NEW i \in DOMAIN q, NEW v \in S
    PROVE  [q EXCEPT ![i] = v] \in Seq(S) /\ Len([q EXCEPT ![i] = v]) = Len(q)
OBVIOUS

\* A file or a name added to a chain.
LEMMA ChainTypes ==
    ASSUME BudgetType, NEW s \in 1..MaxReviewTurns, NEW S \in SUBSET Kinds
    PROVE  /\ [chains EXCEPT ![s].files = @ \cup S] \in Chains
           /\ [chains EXCEPT ![s].named = @ \cup S] \in Chains
           /\ [chains EXCEPT ![s].named = S] \in Chains
           /\ \A a \in ReaskAudit : [chains EXCEPT ![s] = [files |-> S, named |-> {}, audit |-> a]] \in Chains
<1>1. chains[s] \in Chain
  BY DEF BudgetType, Chains
<1>2. /\ [chains[s] EXCEPT !.files = @ \cup S] \in Chain
      /\ [chains[s] EXCEPT !.named = @ \cup S] \in Chain
      /\ [chains[s] EXCEPT !.named = S] \in Chain
  BY <1>1 DEF Chain
<1>3. \A a \in ReaskAudit : [files |-> S, named |-> {}, audit |-> a] \in Chain
  BY DEF Chain
<1> QED BY <1>2, <1>3 DEF BudgetType, Chains

\* The grants and their windows.
LEMMA GrantTypeStep ==
    ASSUME BudgetType,
           \/ \E lane \in {"accepted", "pre_acceptance"} : Budget!audit_extension(lane)
           \/ \E who \in Payloads : Budget!_extend(who) \/ Budget!grant_rereview(who)
           \/ Budget!_extend_save \/ Budget!grant_rereview_save \/ Budget!audit_rereview
    PROVE  BudgetType'
<1>1. CASE \E lane \in {"accepted", "pre_acceptance"} : Budget!audit_extension(lane)
  BY <1>1, ManifestTypes DEF Budget!audit_extension, BudgetType
<1>2. CASE Budget!audit_rereview
  BY <1>2, ManifestTypes DEF Budget!audit_rereview, BudgetType
<1>3. ASSUME NEW who \in Payloads, Budget!_extend(who) PROVE BudgetType'
  <2> DEFINE saved == IF ext.receipt = None THEN record ELSE ext.receipt.audit
  <2>1. saved \in Manifest
    BY <1>3 DEF Budget!_extend, Budget!IsAudit, BudgetType, Allowance, ReaskAudit
  <2>2. ext' = [ext EXCEPT !.receipt = [who |-> who, audit |-> saved]] /\ window' = [op |-> "extend"]
    BY <1>3 DEF Budget!_extend
  <2>3. ext' \in Allowance /\ window' \in Windows /\ window'.op # "send"
    BY <2>1, <2>2 DEF BudgetType, Allowance, Windows
  <2> QED BY <1>3, <2>3 DEF Budget!_extend, BudgetType
<1>4. ASSUME NEW who \in Payloads, Budget!grant_rereview(who) PROVE BudgetType'
  <2> DEFINE saved == IF rr.receipt = None THEN record ELSE rr.receipt.audit
  <2>1. saved \in Manifest
    BY <1>4 DEF Budget!grant_rereview, Budget!IsAudit, BudgetType, Allowance, ReaskAudit
  <2>2. rr' = [rr EXCEPT !.receipt = [who |-> who, audit |-> saved]] /\ window' = [op |-> "rereview"]
    BY <1>4 DEF Budget!grant_rereview
  <2>3. rr' \in Allowance /\ window' \in Windows /\ window'.op # "send"
    BY <2>1, <2>2 DEF BudgetType, Allowance, Windows
  <2> QED BY <1>4, <2>3 DEF Budget!grant_rereview, BudgetType
<1>5. ASSUME NEW g \in Allowance PROVE [g EXCEPT !.ref = TRUE] \in Allowance
  BY Zenon DEF Allowance
<1>6. Budget!Idle \in Windows /\ Budget!Idle.op # "send"
  BY DEF Windows, Budget!Idle
<1>7. CASE Budget!_extend_save
  BY <1>5, <1>6, <1>7 DEF Budget!_extend_save, BudgetType
<1>8. CASE Budget!grant_rereview_save
  BY <1>5, <1>6, <1>8 DEF Budget!grant_rereview_save, BudgetType
<1> QED BY <1>1, <1>2, <1>3, <1>4, <1>7, <1>8

\* The sends and their windows.
LEMMA SendTypeStep ==
    ASSUME BudgetType,
           \/ \E claim \in {"none", "ext", "rr"} : Budget!send_review(claim)
           \/ Budget!send_engineering \/ Budget!send_reask \/ Budget!send_save
    PROVE  BudgetType'
<1>1. ASSUME NEW t \in BudgetTurn, window' = [op |-> "send", turn |-> t] PROVE window' \in Windows
  BY <1>1 DEF Windows
<1>2. ASSUME NEW c \in {"none", "ext", "rr"}, Budget!send_review(c) PROVE BudgetType'
  <2>1. window' \in Windows
    BY <1>1, <1>2, AskType DEF Budget!send_review, Budget!consume
  <2>2. \A g \in Allowance : [g EXCEPT !.used = Len(requests) + 1] \in Allowance
    BY DEF BudgetType, Allowance
  <2>3. ext' \in Allowance /\ rr' \in Allowance
    BY <1>2, <2>2 DEF Budget!send_review, Budget!consume, BudgetType
  <2> QED BY <1>2, <2>1, <2>3 DEF Budget!send_review, BudgetType
<1>3. CASE Budget!send_engineering
  <2>1. window' \in Windows
    BY <1>1, <1>3, AskType DEF Budget!send_engineering
  <2> QED BY <1>3, <2>1 DEF Budget!send_engineering, Budget!grants, BudgetType
<1>4. CASE Budget!send_reask
  <2>1. active \in 1..MaxReviewTurns
    BY <1>4 DEF Budget!send_reask, BudgetType
  <2>2. window' \in Windows
    BY <1>1, <1>4, <2>1, AskType DEF Budget!send_reask
  <2>3. chains' \in Chains
    BY <1>4, <2>1, ChainTypes DEF Budget!send_reask, Kinds
  <2> QED BY <1>4, <2>2, <2>3 DEF Budget!send_reask, BudgetType
<1>5. CASE Budget!send_save
  <2>1. window.op = "send" /\ window.turn \in BudgetTurn /\ Len(requests) < MaxReviewTurns
    BY <1>5, WindowTypes DEF Budget!send_save, BudgetType
  <2>2. requests' = Append(requests, window.turn)
    BY <1>5 DEF Budget!send_save
  <2>3. requests' \in Seq(BudgetTurn) /\ Len(requests') <= MaxReviewTurns
    BY <2>1, <2>2, BudgetBounds DEF BudgetType
  <2>4. chains' \in Chains
    <3>1. CASE window.turn.source \in 1..MaxReviewTurns
      BY <1>5, <3>1, ChainTypes DEF Budget!send_save, Kinds, BudgetType
    <3>2. CASE window.turn.source \notin 1..MaxReviewTurns
      <4>1. [chains EXCEPT ![window.turn.source].named = @ \cup {"intent"}] = chains
        BY <3>2 DEF BudgetType, Chains
      <4> QED BY <1>5, <4>1 DEF Budget!send_save, BudgetType
    <3> QED BY <3>1, <3>2
  <2>5. window' \in Windows /\ window'.op # "send"
    BY <1>5 DEF Budget!send_save, Budget!Idle, Windows
  <2> QED BY <1>5, <2>3, <2>4, <2>5 DEF Budget!send_save, BudgetType
<1> QED BY <1>2, <1>3, <1>4, <1>5

\* The re-ask and its windows.
LEMMA ReaskTypeStep ==
    ASSUME BudgetType,
           \/ \E s \in DOMAIN requests : Budget!audit_reask(s)
           \/ Budget!grant_reask \/ Budget!grant_reask_save \/ Budget!capture \/ Budget!capture_save \/ Budget!commit \/ Budget!close \/ Budget!finish_save
    PROVE  BudgetType'
<1>1. \A s \in DOMAIN requests : s \in 1..MaxReviewTurns
  BY BudgetBounds DEF BudgetType
<1>2. Budget!Idle \in Windows /\ Budget!Idle.op # "send"
  BY DEF Windows, Budget!Idle
<1>3. CASE \E s \in DOMAIN requests : Budget!audit_reask(s)
  <2>1. PICK s \in DOMAIN requests : Budget!audit_reask(s)
    BY <1>3
  <2>2. record' \in ReaskAudit
    BY <1>1, <2>1, ManifestTypes DEF Budget!audit_reask
  <2> QED BY <2>1, <2>2 DEF Budget!audit_reask, BudgetType
<1>4. CASE Budget!grant_reask
  <2>1. record \in ReaskAudit
    BY <1>4 DEF Budget!grant_reask, Budget!IsAudit, BudgetType, Manifest
  <2>2. record.source \in 1..MaxReviewTurns
    BY <1>1, <1>4 DEF Budget!grant_reask, Budget!ask_inspect, Budget!reviews, Budget!Named
  <2>3. chains' = [chains EXCEPT ![record.source] = [files |-> {"grant"}, named |-> {}, audit |-> record]]
        /\ window' = [op |-> "reask", source |-> record.source]
    BY <1>4 DEF Budget!grant_reask
  <2>4. chains' \in Chains
    BY <2>1, <2>2, <2>3, ChainTypes DEF Kinds
  <2>5. window' \in Windows /\ window'.op # "send"
    BY <2>2, <2>3 DEF Windows
  <2> QED BY <1>4, <2>4, <2>5 DEF Budget!grant_reask, BudgetType
<1>5. CASE Budget!grant_reask_save
  <2>1. window.source \in 1..MaxReviewTurns
    BY <1>5, WindowTypes DEF Budget!grant_reask_save
  <2>2. chains' \in Chains
    BY <1>5, <2>1, ChainTypes DEF Budget!grant_reask_save, Kinds
  <2> QED BY <1>2, <1>5, <2>1, <2>2 DEF Budget!grant_reask_save, BudgetType
<1>6. CASE Budget!capture \/ Budget!commit \/ Budget!close
  <2>1. active \in 1..MaxReviewTurns
    <3>1. active # 0
      BY <1>6 DEF Budget!capture, Budget!commit, Budget!close
    <3> QED BY <3>1, BudgetBounds DEF BudgetType
  <2>2. \E S \in SUBSET Kinds : chains' = [chains EXCEPT ![active].files = @ \cup S]
    <3>1. {"completion"} \in SUBSET Kinds /\ {"agreement"} \in SUBSET Kinds /\ {"closure"} \in SUBSET Kinds
      BY DEF Kinds
    <3>2. CASE Budget!capture
      BY <3>1, <3>2 DEF Budget!capture
    <3>3. CASE Budget!commit
      BY <3>1, <3>3 DEF Budget!commit
    <3>4. CASE Budget!close
      BY <3>1, <3>4 DEF Budget!close
    <3> QED BY <1>6, <3>2, <3>3, <3>4
  <2>3. chains' \in Chains
    BY <2>1, <2>2, ChainTypes
  <2>4. window' \in Windows /\ window'.op # "send"
    <3>1. CASE Budget!capture
      <4>1. PICK i \in DOMAIN requests : window' = [op |-> "capture", turn |-> i, cand |-> tree]
        BY <3>1 DEF Budget!capture, Budget!RepairOf, Budget!Named
      <4>2. i \in Nat /\ tree \in Nat
        BY DEF BudgetType
      <4> QED BY <4>1, <4>2 DEF Windows
    <3>2. CASE Budget!commit
      BY <3>2 DEF Budget!commit, Windows
    <3>3. CASE Budget!close
      BY <3>3 DEF Budget!close, Windows
    <3> QED BY <1>6, <3>1, <3>2, <3>3
  <2>5. UNCHANGED <<rev, tree, requests, taken, ext, rr, active, record>>
    BY <1>6 DEF Budget!capture, Budget!commit, Budget!close
  <2> QED BY <2>3, <2>4, <2>5 DEF BudgetType
<1>7. CASE Budget!capture_save
  <2>1. window.cand \in Nat
    BY <1>7, WindowTypes DEF Budget!capture_save
  <2>2. chains' \in Chains
    <3>1. CASE active \in 1..MaxReviewTurns
      BY <1>7, <3>1, ChainTypes DEF Budget!capture_save, Kinds
    <3>2. CASE active = 0
      <4>1. [chains EXCEPT ![active].named = @ \cup {"completion"}] = chains
        BY <3>2 DEF BudgetType, Chains
      <4> QED BY <1>7, <4>1 DEF Budget!capture_save, BudgetType
    <3> QED BY <3>1, <3>2 DEF BudgetType
  <2>3. requests' = [requests EXCEPT ![window.turn].cand = window.cand]
    BY <1>7 DEF Budget!capture_save
  <2>4. \A t \in BudgetTurn : [t EXCEPT !.cand = window.cand] \in BudgetTurn
    BY <2>1 DEF BudgetTurn
  <2>5. requests' \in Seq(BudgetTurn) /\ Len(requests') = Len(requests)
    <3>1. CASE window.turn \in DOMAIN requests
      <4>1. requests[window.turn] \in BudgetTurn
        BY <3>1 DEF BudgetType
      <4>2. requests' = [requests EXCEPT ![window.turn] = [requests[window.turn] EXCEPT !.cand = window.cand]]
        BY <2>3
      <4> QED BY <2>4, <3>1, <4>1, <4>2, Updated DEF BudgetType
    <3>2. CASE window.turn \notin DOMAIN requests
      <4>1. requests' = requests
        BY <2>3, <3>2 DEF BudgetType
      <4> QED BY <4>1 DEF BudgetType
    <3> QED BY <3>1, <3>2
  <2> QED BY <1>2, <1>7, <2>2, <2>5 DEF Budget!capture_save, BudgetType
<1>8. CASE Budget!finish_save
  <2>1. {window.name} \in SUBSET Kinds
    BY <1>8, WindowTypes DEF Budget!finish_save, Kinds
  <2>2. chains' \in Chains
    <3>1. CASE active \in 1..MaxReviewTurns
      BY <1>8, <2>1, <3>1, ChainTypes DEF Budget!finish_save
    <3>2. CASE active = 0
      <4>1. [chains EXCEPT ![active].named = @ \cup {window.name}] = chains
        BY <3>2 DEF BudgetType, Chains
      <4> QED BY <1>8, <4>1 DEF Budget!finish_save, BudgetType
    <3> QED BY <3>1, <3>2 DEF BudgetType
  <2> QED BY <1>2, <1>8, <2>2 DEF Budget!finish_save, BudgetType
<1> QED BY <1>3, <1>4, <1>5, <1>6, <1>7, <1>8

\* An answer or a settled failure of one request.
Answered(i, a, c) == [requests EXCEPT ![i].state = "completed", ![i].answer = a, ![i].cand = c]
Failed(i) == [requests EXCEPT ![i].state = "settled_failure"]
\* Both keep the requests what they are.
LEMMA AnsweredTypes ==
    ASSUME BudgetType, NEW i \in DOMAIN requests, NEW c \in Nat \cup {None},
           NEW a \in {"accept", "changes", "prose", "same", "differs", "done", "scope_change"}
    PROVE  /\ Answered(i, a, c) \in Seq(BudgetTurn) /\ Len(Answered(i, a, c)) = Len(requests)
           /\ Failed(i) \in Seq(BudgetTurn) /\ Len(Failed(i)) = Len(requests)
<1> DEFINE done == [requests[i] EXCEPT !.state = "completed", !.answer = a, !.cand = c]
           failed == [requests[i] EXCEPT !.state = "settled_failure"]
<1>1. requests[i] \in BudgetTurn /\ requests \in Seq(BudgetTurn)
  BY DEF BudgetType
<1>2. done \in BudgetTurn /\ failed \in BudgetTurn
  BY <1>1 DEF BudgetTurn
<1>3. Answered(i, a, c) = [requests EXCEPT ![i] = done]
  BY <1>1 DEF Answered
<1>4. Failed(i) = [requests EXCEPT ![i] = failed]
  BY <1>1 DEF Failed
<1> HIDE DEF done, failed
<1>5. \A v \in BudgetTurn : [requests EXCEPT ![i] = v] \in Seq(BudgetTurn) /\ Len([requests EXCEPT ![i] = v]) = Len(requests)
  BY <1>1, Updated
<1> QED BY <1>2, <1>3, <1>4, <1>5

\* The room around them.
LEMMA RoomTypeStep ==
    ASSUME BudgetType,
           \/ \E n \in 1..MaxRev : Budget!spec_put(n)
           \/ \E i \in DOMAIN requests : Budget!settle(i) \/ \E c \in 0..MaxCand : \E a \in Budget!Answers(requests[i].purpose) : Budget!sync(i, a, c)
           \/ Budget!accept \/ Budget!hand_off \/ (\E c \in 0..MaxCand : Budget!Edit(c)) \/ Budget!Crash \/ UNCHANGED Budget!vars
    PROVE  BudgetType'
<1>1. Budget!Idle \in Windows /\ Budget!Idle.op # "send"
  BY DEF Windows, Budget!Idle
<1>2. CASE \E n \in 1..MaxRev : Budget!spec_put(n)
  BY <1>2, BudgetBounds DEF Budget!spec_put, Budget!grants, BudgetType
<1>3. CASE \E i \in DOMAIN requests : Budget!settle(i)
  <2>1. PICK i \in DOMAIN requests : Budget!settle(i)
    BY <1>3
  <2>2. requests' = Failed(i)
    BY <2>1 DEF Budget!settle, Failed
  <2>3. requests' \in Seq(BudgetTurn) /\ Len(requests') = Len(requests)
    BY <2>2, AnsweredTypes
  <2> QED BY <2>1, <2>3 DEF Budget!settle, Budget!grants, BudgetType
<1>4. ASSUME NEW i \in DOMAIN requests, NEW c \in 0..MaxCand, NEW a \in Budget!Answers(requests[i].purpose), Budget!sync(i, a, c)
      PROVE  BudgetType'
  <2>1. a \in {"accept", "changes", "prose", "same", "differs", "done", "scope_change"} /\ c \in Nat
    <3>1. requests[i].purpose \in {"spec_review", "engineering", "spec_verdict_repair"}
      <4>1. requests[i] \in BudgetTurn
        BY DEF BudgetType
      <4> QED BY <4>1 DEF BudgetTurn
    <3> QED BY <3>1, BudgetBounds DEF Budget!Answers
  <2>2. requests' \in Seq(BudgetTurn) /\ Len(requests') = Len(requests)
    <3> DEFINE d == IF requests[i].purpose = "engineering" THEN c ELSE None
    <3>1. requests' = Answered(i, a, d) /\ d \in Nat \cup {None}
      BY <1>4, <2>1 DEF Budget!sync, Answered
    <3> HIDE DEF d
    <3> QED BY <2>1, <3>1, AnsweredTypes
  <2> QED BY <1>4, <2>1, <2>2 DEF Budget!sync, Budget!grants, BudgetType
<1>5. CASE Budget!accept \/ Budget!hand_off
  BY <1>5 DEF Budget!accept, Budget!hand_off, Budget!grants, BudgetType
<1>6. CASE \E c \in 0..MaxCand : Budget!Edit(c)
  BY <1>6, BudgetBounds DEF Budget!Edit, Budget!grants, BudgetType
<1>7. CASE Budget!Crash
  BY <1>1, <1>7 DEF Budget!Crash, Budget!grants, BudgetType
<1>8. CASE UNCHANGED Budget!vars
  BY <1>8 DEF Budget!vars, BudgetType
<1> QED BY <1>2, <1>3, <1>4, <1>5, <1>6, <1>7, <1>8

\* Every step keeps the types.
LEMMA BudgetTypeStep ==
    ASSUME BudgetType, [Budget!Next]_Budget!vars
    PROVE  BudgetType'
BY GrantTypeStep, SendTypeStep, ReaskTypeStep, RoomTypeStep DEF Budget!Next

-----------------------------------------------------------------------------
\* What names no request and no file of a chain.
Resting ==
    /\ UNCHANGED <<requests, chains, active>>
    /\ window' \in {window, Budget!Idle, [op |-> "extend"], [op |-> "rereview"]}
Sends == (\E claim \in {"none", "ext", "rr"} : Budget!send_review(claim)) \/ Budget!send_engineering
Answers_ == \E i \in DOMAIN requests :
                Budget!settle(i) \/ \E c \in 0..MaxCand : \E a \in Budget!Answers(requests[i].purpose) : Budget!sync(i, a, c)

\* The kinds of steps.
LEMMA BudgetSteps ==
    ASSUME [Budget!Next]_Budget!vars
    PROVE  \/ Resting \/ Sends \/ Answers_ \/ Budget!send_reask \/ Budget!send_save \/ Budget!grant_reask \/ Budget!grant_reask_save
           \/ Budget!capture \/ Budget!capture_save \/ Budget!commit \/ Budget!close \/ Budget!finish_save
<1>1. CASE \/ \E lane \in {"accepted", "pre_acceptance"} : Budget!audit_extension(lane)
           \/ Budget!audit_rereview \/ \E s \in DOMAIN requests : Budget!audit_reask(s)
  BY <1>1 DEF Budget!audit_extension, Budget!audit_rereview, Budget!audit_reask, Resting
<1>2. CASE \/ \E who \in Payloads : Budget!_extend(who) \/ Budget!grant_rereview(who)
           \/ Budget!_extend_save \/ Budget!grant_rereview_save
  BY <1>2 DEF Budget!_extend, Budget!grant_rereview, Budget!_extend_save,
     Budget!grant_rereview_save, Resting
<1>3. CASE (\E n \in 1..MaxRev : Budget!spec_put(n)) \/ Budget!accept \/ Budget!hand_off \/ (\E c \in 0..MaxCand : Budget!Edit(c)) \/ Budget!Crash \/ UNCHANGED Budget!vars
  BY <1>3 DEF Budget!spec_put, Budget!accept, Budget!hand_off, Budget!Edit, Budget!Crash, Budget!vars,
     Budget!grants, Resting
<1> QED BY <1>1, <1>2, <1>3 DEF Budget!Next, Sends, Answers_

\* What every step keeps of a request.
Kept(i) ==
    /\ i \in DOMAIN requests'
    /\ requests'[i].purpose = requests[i].purpose /\ requests'[i].spec = requests[i].spec
    /\ requests'[i].claim = requests[i].claim /\ requests'[i].source = requests[i].source
    /\ requests[i].state # "active" => requests'[i].state = requests[i].state /\ requests'[i].answer = requests[i].answer
    /\ requests'[i].state = "active" => requests[i].state = "active" /\ requests'[i].answer = requests[i].answer
    /\ requests'[i].cand # requests[i].cand =>
          requests[i].state = "active" \/ (Budget!capture_save /\ window.op = "capture" /\ window.turn = i)

\* Requests are appended one at a time, answered, and otherwise stay.
LEMMA TurnsStep ==
    ASSUME BudgetType, [Budget!Next]_Budget!vars
    PROVE  /\ \A i \in DOMAIN requests : Kept(i)
           /\ \/ DOMAIN requests' = DOMAIN requests /\ Len(requests') = Len(requests)
              \/ /\ Budget!send_save /\ window.op = "send" /\ requests' = Append(requests, window.turn)
                 /\ DOMAIN requests' = DOMAIN requests \cup {Len(requests) + 1} /\ Len(requests') = Len(requests) + 1
                 /\ requests'[Len(requests) + 1] = window.turn /\ \A i \in DOMAIN requests : requests'[i] = requests[i]
<1>0. requests \in Seq(BudgetTurn) /\ \A i \in DOMAIN requests : requests[i] \in BudgetTurn
  BY DEF BudgetType
<1>1. CASE requests' = requests
  BY <1>1 DEF Kept
<1>2. CASE Budget!send_save
  <2>1. requests' = Append(requests, window.turn) /\ window.op = "send"
    BY <1>2 DEF Budget!send_save
  <2>2. /\ DOMAIN requests' = DOMAIN requests \cup {Len(requests) + 1} /\ Len(requests') = Len(requests) + 1
        /\ requests'[Len(requests) + 1] = window.turn /\ \A i \in DOMAIN requests : requests'[i] = requests[i]
    BY <1>0, <2>1
  <2> QED BY <1>2, <2>1, <2>2 DEF Kept
<1>3. CASE Answers_
  <2>1. PICK i \in DOMAIN requests :
           Budget!settle(i) \/ \E c \in 0..MaxCand : \E a \in Budget!Answers(requests[i].purpose) : Budget!sync(i, a, c)
    BY <1>3 DEF Answers_
  <2>2. requests[i].state = "active" /\ requests[i] \in BudgetTurn
    BY <1>0, <2>1 DEF Budget!settle, Budget!sync
  <2>3. CASE Budget!settle(i)
    <3>1. requests' = [requests EXCEPT ![i] = [requests[i] EXCEPT !.state = "settled_failure"]]
      BY <2>3 DEF Budget!settle
    <3>2. /\ DOMAIN requests' = DOMAIN requests /\ Len(requests') = Len(requests)
          /\ \A j \in DOMAIN requests : j # i => requests'[j] = requests[j]
          /\ requests'[i] = [requests[i] EXCEPT !.state = "settled_failure"]
      BY <1>0, <3>1
    <3>3. Kept(i)
      BY <2>2, <3>2 DEF Kept, BudgetTurn
    <3> QED BY <3>2, <3>3 DEF Kept
  <2>4. CASE \E c \in 0..MaxCand : \E a \in Budget!Answers(requests[i].purpose) : Budget!sync(i, a, c)
    <3>0. PICK d \in 0..MaxCand, a \in Budget!Answers(requests[i].purpose) : Budget!sync(i, a, d)
      BY <2>4
    <3> DEFINE c == IF requests[i].purpose = "engineering" THEN d ELSE None
    <3>1. requests' = [requests EXCEPT ![i] = [requests[i] EXCEPT !.state = "completed", !.answer = a, !.cand = c]]
      BY <3>0 DEF Budget!sync
    <3> HIDE DEF c
    <3>2. /\ DOMAIN requests' = DOMAIN requests /\ Len(requests') = Len(requests)
          /\ \A j \in DOMAIN requests : j # i => requests'[j] = requests[j]
          /\ requests'[i] = [requests[i] EXCEPT !.state = "completed", !.answer = a, !.cand = c]
      BY <1>0, <3>1
    <3>3. Kept(i)
      BY <2>2, <3>2 DEF Kept, BudgetTurn
    <3> QED BY <3>2, <3>3 DEF Kept
  <2> QED BY <2>1, <2>3, <2>4
<1>4. CASE Budget!capture_save
  <2>1. requests' = [requests EXCEPT ![window.turn] = [requests[window.turn] EXCEPT !.cand = window.cand]] /\ window.op = "capture"
    BY <1>4 DEF Budget!capture_save
  <2>2. /\ DOMAIN requests' = DOMAIN requests /\ Len(requests') = Len(requests)
        /\ \A j \in DOMAIN requests : j # window.turn => requests'[j] = requests[j]
        /\ window.turn \in DOMAIN requests => requests'[window.turn] = [requests[window.turn] EXCEPT !.cand = window.cand]
    BY <1>0, <2>1
  <2>3. \A j \in DOMAIN requests : j # window.turn => Kept(j)
    BY <2>2 DEF Kept
  <2>4. ASSUME window.turn \in DOMAIN requests PROVE Kept(window.turn)
    <3>1. requests'[window.turn] = [requests[window.turn] EXCEPT !.cand = window.cand] /\ requests[window.turn] \in BudgetTurn
      BY <1>0, <2>2, <2>4
    <3>2. /\ requests'[window.turn].purpose = requests[window.turn].purpose /\ requests'[window.turn].spec = requests[window.turn].spec
          /\ requests'[window.turn].claim = requests[window.turn].claim /\ requests'[window.turn].source = requests[window.turn].source
          /\ requests'[window.turn].state = requests[window.turn].state /\ requests'[window.turn].answer = requests[window.turn].answer
      BY <3>1 DEF BudgetTurn
    <3> QED BY <1>4, <2>1, <2>2, <2>4, <3>2 DEF Kept
  <2> QED BY <2>2, <2>3, <2>4
<1> QED BY <1>1, <1>2, <1>3, <1>4, BudgetSteps DEF Resting, Sends, Budget!send_review,
           Budget!send_engineering, Budget!send_reask,
       Budget!grant_reask, Budget!grant_reask_save, Budget!capture, Budget!commit, Budget!close, Budget!finish_save

\* What an operation that opens a send asks.
LEMMA SendAsks ==
    ASSUME BudgetType, Sends \/ Budget!send_reask
    PROVE  /\ Budget!finished /\ Budget!_claimed /\ window = Budget!Idle /\ Len(requests) < MaxReviewTurns /\ requests' = requests /\ active' = active
           /\ window'.op = "send" /\ window'.turn.state = "active" /\ window'.turn.answer = None
           /\ Sends => /\ chains' = chains /\ window'.turn.purpose # "spec_verdict_repair" /\ window'.turn.spec = rev
                       /\ Budget!quiet
           /\ Budget!send_reask => /\ window'.turn.purpose = "spec_verdict_repair" /\ window'.turn.source = active
                                   /\ window'.turn.claim = "none"
                                   /\ active \in 1..MaxReviewTurns /\ Budget!_chain(active) = "granted"
                                   /\ chains' = [chains EXCEPT ![active].files = @ \cup {"intent"}]
<1>1. ASSUME NEW c \in {"none", "ext", "rr"}, Budget!send_review(c)
      PROVE  /\ Budget!finished /\ Budget!_claimed /\ window = Budget!Idle /\ Len(requests) < MaxReviewTurns /\ requests' = requests /\ active' = active
             /\ chains' = chains /\ Budget!quiet /\ window' = [op |-> "send", turn |-> Budget!Turn("spec_review", c, 0)]
  BY <1>1 DEF Budget!send_review, Budget!consume, Budget!quiet, Budget!settled, Budget!journal
<1>2. ASSUME Budget!send_engineering
      PROVE  /\ Budget!finished /\ Budget!_claimed /\ window = Budget!Idle /\ Len(requests) < MaxReviewTurns /\ requests' = requests /\ active' = active
             /\ chains' = chains /\ Budget!quiet /\ window' = [op |-> "send", turn |-> Budget!Turn("engineering", "none", 0)]
  BY <1>2 DEF Budget!send_engineering, Budget!grants, Budget!quiet, Budget!settled, Budget!journal
<1>3. ASSUME Budget!send_reask
      PROVE  /\ Budget!finished /\ Budget!_claimed /\ window = Budget!Idle /\ Len(requests) < MaxReviewTurns /\ requests' = requests /\ active' = active
             /\ window' = [op |-> "send", turn |-> Budget!Turn("spec_verdict_repair", "none", active)]
             /\ active # 0 /\ Budget!_chain(active) = "granted"
             /\ chains' = [chains EXCEPT ![active].files = @ \cup {"intent"}]
  BY <1>3 DEF Budget!send_reask, Budget!ask_inspect, Budget!settled, Budget!journal
<1>4. active # 0 => active \in 1..MaxReviewTurns
  BY BudgetBounds DEF BudgetType
<1>5. active \in Nat
  BY BudgetBounds DEF BudgetType
<1>6. CASE Sends
  <2>1. PICK p \in {"spec_review", "engineering"}, c \in {"none", "ext", "rr"} :
           window' = [op |-> "send", turn |-> Budget!Turn(p, c, 0)]
    BY <1>1, <1>2, <1>6 DEF Sends
  <2>2. /\ window'.op = "send" /\ window'.turn.state = "active" /\ window'.turn.answer = None /\ window'.turn.purpose = p
        /\ window'.turn.spec = rev
    BY <2>1, AskType
  <2>3. /\ Budget!finished /\ Budget!_claimed /\ window = Budget!Idle /\ Len(requests) < MaxReviewTurns /\ requests' = requests /\ active' = active
        /\ chains' = chains /\ Budget!quiet
    BY <1>1, <1>2, <1>6 DEF Sends
  <2>4. Budget!send_reask => FALSE
    <3>1. Budget!send_reask => window'.turn.purpose = "spec_verdict_repair"
      BY <1>3, <1>5, AskType
    <3> QED BY <2>1, <2>2, <3>1
  <2> QED BY <2>1, <2>2, <2>3, <2>4
<1>7. CASE Budget!send_reask
  <2>1. /\ window'.op = "send" /\ window'.turn.state = "active" /\ window'.turn.answer = None
        /\ window'.turn.purpose = "spec_verdict_repair" /\ window'.turn.source = active /\ window'.turn.claim = "none"
    BY <1>3, <1>5, <1>7, AskType
  <2>2. Sends => FALSE
    <3>1. Sends => window'.turn.purpose \in {"spec_review", "engineering"}
      BY <1>1, <1>2, AskType DEF Sends
    <3> QED BY <2>1, <3>1
  <2> QED BY <1>3, <1>4, <1>7, <2>1, <2>2
<1> QED BY <1>6, <1>7

\* Where a window comes from.
LEMMA WindowOpens ==
    ASSUME BudgetType, [Budget!Next]_Budget!vars
    PROVE  /\ window'.op = "send" => Sends \/ Budget!send_reask \/ (UNCHANGED <<requests, chains, active, window>>)
           /\ window'.op = "reask" => Budget!grant_reask \/ (UNCHANGED <<requests, chains, active, window>>)
           /\ window'.op = "capture" => Budget!capture \/ (UNCHANGED <<requests, chains, active, window>>)
           /\ window'.op = "finish" => Budget!commit \/ Budget!close \/ (UNCHANGED <<requests, chains, active, window>>)
<1>1. CASE Resting
  BY <1>1 DEF Resting, Budget!Idle
<1>2. CASE Answers_
  <2>1. window' = Budget!Idle
    BY <1>2 DEF Answers_, Budget!settle, Budget!sync, Budget!grants
  <2> QED BY <2>1 DEF Budget!Idle
<1>3. CASE Sends \/ Budget!send_reask
  BY <1>3, SendAsks
<1>4. CASE Budget!send_save \/ Budget!grant_reask_save \/ Budget!capture_save \/ Budget!finish_save
  <2>1. window' = Budget!Idle
    BY <1>4 DEF Budget!send_save, Budget!grant_reask_save, Budget!capture_save, Budget!finish_save
  <2> QED BY <2>1 DEF Budget!Idle
<1>5. CASE Budget!grant_reask
  BY <1>5 DEF Budget!grant_reask
<1>6. CASE Budget!capture
  <2>1. window'.op = "capture"
    BY <1>6 DEF Budget!capture
  <2> QED BY <1>6, <2>1
<1>7. CASE Budget!commit
  BY <1>7 DEF Budget!commit
<1>8. CASE Budget!close
  BY <1>8 DEF Budget!close
<1> QED BY <1>1, <1>2, <1>3, <1>4, <1>5, <1>6, <1>7, <1>8, BudgetSteps

\* One answer to a request, and none is sent beside one that is open.
LEMMA AnswerStep ==
    ASSUME BudgetType, AnswerInv, [Budget!Next]_Budget!vars
    PROVE  AnswerInv'
<1>0. \A i \in DOMAIN requests : i \in 1..Len(requests) /\ requests[i] \in BudgetTurn
  BY DEF BudgetType
<1>1. /\ \A i \in DOMAIN requests' : requests'[i].state = "active" => requests'[i].answer = None
      /\ \A i, j \in DOMAIN requests' : i < j => requests'[i].state # "active"
  <2>1. CASE DOMAIN requests' = DOMAIN requests
    BY <2>1, TurnsStep DEF Kept, AnswerInv
  <2>2. CASE /\ window.op = "send"
             /\ DOMAIN requests' = DOMAIN requests \cup {Len(requests) + 1}
             /\ requests'[Len(requests) + 1] = window.turn /\ \A i \in DOMAIN requests : requests'[i] = requests[i]
    <3>1. Len(requests) + 1 \in Nat /\ \A i \in DOMAIN requests : i < Len(requests) + 1
      BY <1>0 DEF BudgetType
    <3> QED BY <2>2, <3>1, <1>0 DEF AnswerInv
  <2> QED BY <2>1, <2>2, TurnsStep
<1>2. ASSUME window'.op = "send"
      PROVE  /\ window'.turn.state = "active" /\ window'.turn.answer = None
             /\ \A i \in DOMAIN requests' : requests'[i].state # "active"
  <2>1. CASE Sends \/ Budget!send_reask
    BY <2>1, SendAsks DEF Budget!finished
  <2>2. CASE UNCHANGED <<requests, chains, active, window>>
    BY <1>2, <2>2 DEF AnswerInv
  <2> QED BY <1>2, <2>1, <2>2, WindowOpens
<1> QED BY <1>1, <1>2 DEF AnswerInv

\* A re-ask names its source in its chain, once; a chain that was never granted names nothing.
RepairInv ==
    /\ \A s \in 1..MaxReviewTurns : chains[s].audit = None => chains[s].named = {}
    /\ \A i \in Budget!Named("spec_verdict_repair") :
          requests[i].source \in 1..MaxReviewTurns /\ "intent" \in chains[requests[i].source].named
    /\ \A i, j \in Budget!Named("spec_verdict_repair") : requests[i].source = requests[j].source => i = j
    /\ window.op = "reask" => chains[window.source].named = {} /\ chains[window.source].audit # None
    /\ (window.op = "send" /\ window.turn.purpose = "spec_verdict_repair") =>
          /\ window.turn.source \in 1..MaxReviewTurns /\ "intent" \notin chains[window.turn.source].named
          /\ chains[window.turn.source].audit # None
    /\ window.op \in {"capture", "finish"} => active \in 1..MaxReviewTurns /\ chains[active].audit # None

\* What a chain has named it keeps, and the audit it was granted on.
ChainKept(s) ==
    /\ chains[s].audit # None => chains'[s].audit = chains[s].audit
    /\ chains[s].named \subseteq chains'[s].named
\* No step takes a name or the audit from a chain.
LEMMA ChainsStep ==
    ASSUME BudgetType, RepairInv, [Budget!Next]_Budget!vars
    PROVE  \A s \in 1..MaxReviewTurns : ChainKept(s)
<1>0. /\ DOMAIN chains = 1..MaxReviewTurns /\ \A s \in 1..MaxReviewTurns : chains[s] \in Chain
      /\ \A s \in 1..MaxReviewTurns : chains[s] = [files |-> chains[s].files, named |-> chains[s].named, audit |-> chains[s].audit]
  BY DEF BudgetType, Chains, Chain
<1>1. CASE chains' = chains
  BY <1>1 DEF ChainKept
<1>2. CASE \E s \in 1..MaxReviewTurns, S \in SUBSET Kinds : \/ chains' = [chains EXCEPT ![s].files = @ \cup S]
                                     \/ chains' = [chains EXCEPT ![s].named = @ \cup S]
  <2>1. PICK s \in 1..MaxReviewTurns, S \in SUBSET Kinds : \/ chains' = [chains EXCEPT ![s].files = @ \cup S]
                                    \/ chains' = [chains EXCEPT ![s].named = @ \cup S]
    BY <1>2
  <2>2. \A u \in 1..MaxReviewTurns : u # s => chains'[u] = chains[u]
    BY <1>0, <2>1
  <2>3. chains'[s].audit = chains[s].audit /\ chains[s].named \subseteq chains'[s].named
    <3>1. chains[s] \in Chain
      BY <1>0
    <3>2. \/ chains'[s] = [chains[s] EXCEPT !.files = @ \cup S]
          \/ chains'[s] = [chains[s] EXCEPT !.named = @ \cup S]
      BY <1>0, <2>1
    <3> QED BY <3>1, <3>2 DEF Chain
  <2> QED BY <2>2, <2>3 DEF ChainKept
<1>3. CASE Budget!grant_reask
  <2>1. chains' = [chains EXCEPT ![record.source] = [files |-> {"grant"}, named |-> {}, audit |-> record]]
        /\ chains[record.source].audit = None
    BY <1>3 DEF Budget!grant_reask, Budget!ask_inspect
  <2>2. \A u \in 1..MaxReviewTurns : u # record.source => chains'[u] = chains[u]
    BY <1>0, <2>1
  <2>3. record.source \in 1..MaxReviewTurns => chains[record.source].named = {}
    BY <2>1 DEF RepairInv
  <2> QED BY <2>1, <2>2, <2>3 DEF ChainKept
<1>4. CASE Budget!grant_reask_save
  <2>1. window.op = "reask" /\ window.source \in 1..MaxReviewTurns /\ chains[window.source].named = {}
    BY <1>4, WindowTypes DEF Budget!grant_reask_save, RepairInv
  <2>2. chains' = [chains EXCEPT ![window.source].named = {"grant"}]
    BY <1>4 DEF Budget!grant_reask_save
  <2>3. \A u \in 1..MaxReviewTurns : u # window.source => chains'[u] = chains[u]
    BY <1>0, <2>2
  <2>4. chains'[window.source].audit = chains[window.source].audit
    BY <1>0, <2>1, <2>2 DEF Chain
  <2> QED BY <2>1, <2>3, <2>4 DEF ChainKept
<1>5. {"intent"} \in SUBSET Kinds /\ {"completion"} \in SUBSET Kinds /\ {"agreement"} \in SUBSET Kinds
      /\ {"closure"} \in SUBSET Kinds
  BY DEF Kinds
<1>6. CASE Budget!send_reask
  BY <1>2, <1>5, <1>6, SendAsks
<1>7. CASE Budget!send_save
  <2>1. CASE window.turn.purpose = "spec_verdict_repair"
    <3>1. window.turn.source \in 1..MaxReviewTurns
      BY <1>7, <2>1 DEF Budget!send_save, RepairInv
    <3>2. chains' = [chains EXCEPT ![window.turn.source].named = @ \cup {"intent"}]
      BY <1>7, <2>1 DEF Budget!send_save
    <3> QED BY <1>2, <1>5, <3>1, <3>2
  <2>2. CASE window.turn.purpose # "spec_verdict_repair"
    BY <1>1, <1>7, <2>2 DEF Budget!send_save
  <2> QED BY <2>1, <2>2
<1>8. CASE Budget!capture \/ Budget!commit \/ Budget!close
  <2>1. active \in 1..MaxReviewTurns
    <3>1. active # 0
      BY <1>8 DEF Budget!capture, Budget!commit, Budget!close
    <3> QED BY <3>1, BudgetBounds DEF BudgetType
  <2>2. \E S \in SUBSET Kinds : chains' = [chains EXCEPT ![active].files = @ \cup S]
    BY <1>5, <1>8 DEF Budget!capture, Budget!commit, Budget!close
  <2> QED BY <1>2, <2>1, <2>2
<1>9. CASE Budget!capture_save \/ Budget!finish_save
  <2>1. window.op \in {"capture", "finish"}
    BY <1>9 DEF Budget!capture_save, Budget!finish_save
  <2>2. active \in 1..MaxReviewTurns
    BY <2>1 DEF RepairInv
  <2>3. Budget!capture_save => chains' = [chains EXCEPT ![active].named = @ \cup {"completion"}]
    BY DEF Budget!capture_save
  <2>4. Budget!finish_save => chains' = [chains EXCEPT ![active].named = @ \cup {window.name}] /\ {window.name} \in SUBSET Kinds
    BY WindowTypes DEF Budget!finish_save, Kinds
  <2> QED BY <1>2, <1>5, <1>9, <2>2, <2>3, <2>4
<1>10. CASE Resting \/ Answers_ \/ Sends
  <2>1. chains' = chains
    BY <1>10, SendAsks DEF Resting, Answers_, Budget!settle, Budget!sync, Budget!grants
  <2> QED BY <1>1, <2>1
<1> QED BY <1>3, <1>4, <1>6, <1>7, <1>8, <1>9, <1>10, BudgetSteps

\* A granted chain has not asked yet.
LEMMA GrantedChain ==
    ASSUME NEW s, Budget!_chain(s) = "granted"
    PROVE  chains[s].named # {} /\ "intent" \notin chains[s].named
BY DEF Budget!_chain

\* One re-ask per source.
LEMMA RepairStep ==
    ASSUME BudgetType, BudgetType', RepairInv, [Budget!Next]_Budget!vars
    PROVE  RepairInv'
<1>0. /\ DOMAIN chains = 1..MaxReviewTurns /\ \A s \in 1..MaxReviewTurns : chains[s] \in Chain /\ chains'[s] \in Chain
      /\ \A i \in DOMAIN requests : i \in Nat
  <2>1. chains \in Chains /\ chains' \in Chains /\ requests \in Seq(BudgetTurn)
    BY DEF BudgetType
  <2> QED BY <2>1 DEF Chains
<1>1. \A s \in 1..MaxReviewTurns : chains'[s].audit = None => chains'[s].named = {}
  <2>1. CASE chains' = chains
    BY <2>1 DEF RepairInv
  <2>2. CASE Budget!grant_reask
    <3>1. chains' = [chains EXCEPT ![record.source] = [files |-> {"grant"}, named |-> {}, audit |-> record]]
      BY <2>2 DEF Budget!grant_reask
    <3>2. \A u \in 1..MaxReviewTurns : chains'[u] = chains[u] \/ chains'[u] = [files |-> {"grant"}, named |-> {}, audit |-> record]
      BY <1>0, <3>1
    <3> QED BY <3>2 DEF RepairInv
  <2>3. CASE Budget!grant_reask_save
    <3>1. chains[window.source].audit # None /\ window.source \in 1..MaxReviewTurns
      BY <2>3, WindowTypes DEF Budget!grant_reask_save, RepairInv
    <3>2. chains' = [chains EXCEPT ![window.source].named = {"grant"}]
      BY <2>3 DEF Budget!grant_reask_save
    <3>3. \A u \in 1..MaxReviewTurns : u # window.source => chains'[u] = chains[u]
      BY <1>0, <3>2
    <3>4. chains'[window.source].audit # None
      BY <3>1, ChainsStep DEF ChainKept
    <3> QED BY <3>3, <3>4 DEF RepairInv
  <2>4. ASSUME NEW s \in 1..MaxReviewTurns, NEW S \in SUBSET Kinds, chains' = [chains EXCEPT ![s].named = @ \cup S],
               chains[s].audit # None
        PROVE  \A u \in 1..MaxReviewTurns : chains'[u].audit = None => chains'[u].named = {}
    <3>1. \A u \in 1..MaxReviewTurns : u # s => chains'[u] = chains[u]
      BY <1>0, <2>4
    <3>2. chains'[s].audit # None
      BY <2>4, ChainsStep DEF ChainKept
    <3> QED BY <3>1, <3>2 DEF RepairInv
  <2>5. ASSUME NEW s \in 1..MaxReviewTurns, NEW S \in SUBSET Kinds, chains' = [chains EXCEPT ![s].files = @ \cup S]
        PROVE  \A u \in 1..MaxReviewTurns : chains'[u].audit = None => chains'[u].named = {}
    <3>1. \A u \in 1..MaxReviewTurns : chains'[u].audit = chains[u].audit /\ chains'[u].named = chains[u].named
      <4>1. chains'[s] = [chains[s] EXCEPT !.files = @ \cup S] /\ chains[s] \in Chain
        BY <1>0, <2>5
      <4>2. chains'[s].audit = chains[s].audit /\ chains'[s].named = chains[s].named
        BY <4>1 DEF Chain
      <4>3. \A u \in 1..MaxReviewTurns : u # s => chains'[u] = chains[u]
        BY <1>0, <2>5
      <4> QED BY <4>2, <4>3
    <3> QED BY <3>1 DEF RepairInv
  <2>6. {"intent"} \in SUBSET Kinds /\ {"completion"} \in SUBSET Kinds /\ {"agreement"} \in SUBSET Kinds
        /\ {"closure"} \in SUBSET Kinds
    BY DEF Kinds
  <2>7. CASE Budget!send_save
    <3>1. CASE window.turn.purpose = "spec_verdict_repair"
      <4>1. window.turn.source \in 1..MaxReviewTurns /\ chains[window.turn.source].audit # None
        BY <2>7, <3>1 DEF Budget!send_save, RepairInv
      <4> QED BY <2>4, <2>6, <2>7, <3>1, <4>1 DEF Budget!send_save
    <3>2. CASE window.turn.purpose # "spec_verdict_repair"
      BY <2>1, <2>7, <3>2 DEF Budget!send_save
    <3> QED BY <3>1, <3>2
  <2>8. CASE Budget!capture_save
    <3>1. active \in 1..MaxReviewTurns /\ chains[active].audit # None
      BY <2>8 DEF Budget!capture_save, RepairInv
    <3> QED BY <2>4, <2>6, <2>8, <3>1 DEF Budget!capture_save
  <2>9. CASE Budget!finish_save
    <3>1. active \in 1..MaxReviewTurns /\ chains[active].audit # None /\ {window.name} \in SUBSET Kinds
      BY <2>9, WindowTypes DEF Budget!finish_save, RepairInv, Kinds
    <3> QED BY <2>4, <2>9, <3>1 DEF Budget!finish_save
  <2>10. CASE Budget!capture \/ Budget!commit \/ Budget!close \/ Budget!send_reask
    <3>1. active \in 1..MaxReviewTurns
      <4>1. active # 0
        BY <2>10 DEF Budget!capture, Budget!commit, Budget!close, Budget!send_reask
      <4> QED BY <4>1, BudgetBounds DEF BudgetType
    <3>2. \E S \in SUBSET Kinds : chains' = [chains EXCEPT ![active].files = @ \cup S]
      BY <2>6, <2>10 DEF Budget!capture, Budget!commit, Budget!close, Budget!send_reask
    <3> QED BY <2>5, <3>1, <3>2
  <2>11. CASE Resting \/ Answers_ \/ Sends
    <3>1. chains' = chains
      BY <2>11, SendAsks DEF Resting, Answers_, Budget!settle, Budget!sync, Budget!grants
    <3> QED BY <2>1, <3>1
  <2> QED BY <2>2, <2>3, <2>7, <2>8, <2>9, <2>10, <2>11, BudgetSteps
<1>2. /\ \A i \in Budget!Named("spec_verdict_repair")' :
            requests'[i].source \in 1..MaxReviewTurns /\ "intent" \in chains'[requests'[i].source].named
      /\ \A i, j \in Budget!Named("spec_verdict_repair")' : requests'[i].source = requests'[j].source => i = j
  <2>1. \A i \in Budget!Named("spec_verdict_repair") :
           /\ i \in DOMAIN requests /\ requests'[i].source = requests[i].source
           /\ requests'[i].source \in 1..MaxReviewTurns /\ "intent" \in chains'[requests'[i].source].named
    BY TurnsStep, ChainsStep DEF Budget!Named, RepairInv, Kept, ChainKept
  <2>2. CASE DOMAIN requests' = DOMAIN requests
    <3>1. Budget!Named("spec_verdict_repair")' = Budget!Named("spec_verdict_repair")
      BY <2>2, TurnsStep DEF Budget!Named, Kept
    <3> QED BY <2>1, <3>1 DEF RepairInv
  <2>3. CASE /\ Budget!send_save /\ window.op = "send" /\ DOMAIN requests' = DOMAIN requests \cup {Len(requests) + 1}
             /\ requests'[Len(requests) + 1] = window.turn /\ \A i \in DOMAIN requests : requests'[i] = requests[i]
    <3>1. CASE window.turn.purpose # "spec_verdict_repair"
      <4>1. Budget!Named("spec_verdict_repair")' = Budget!Named("spec_verdict_repair")
        BY <2>3, <3>1 DEF Budget!Named
      <4> QED BY <2>1, <4>1 DEF RepairInv
    <3>2. CASE window.turn.purpose = "spec_verdict_repair"
      <4>1. Budget!Named("spec_verdict_repair")' \subseteq Budget!Named("spec_verdict_repair") \cup {Len(requests) + 1}
        BY <2>3 DEF Budget!Named
      <4>2. window.turn.source \in 1..MaxReviewTurns /\ "intent" \notin chains[window.turn.source].named
        BY <2>3, <3>2 DEF RepairInv
      <4>3. chains' = [chains EXCEPT ![window.turn.source].named = @ \cup {"intent"}]
        BY <2>3, <3>2 DEF Budget!send_save
      <4>4. "intent" \in chains'[window.turn.source].named
        <5>1. chains'[window.turn.source] = [chains[window.turn.source] EXCEPT !.named = @ \cup {"intent"}]
              /\ chains[window.turn.source] \in Chain
          BY <1>0, <4>2, <4>3
        <5> QED BY <5>1 DEF Chain
      <4>5. \A i \in Budget!Named("spec_verdict_repair") : requests[i].source # window.turn.source
        BY <4>2 DEF RepairInv
      <4>6. \A i, j \in Budget!Named("spec_verdict_repair") : requests[i].source = requests[j].source => i = j
        BY DEF RepairInv
      <4> QED BY <2>1, <2>3, <4>1, <4>2, <4>4, <4>5, <4>6
    <3> QED BY <3>1, <3>2
  <2> QED BY <2>2, <2>3, TurnsStep
<1>3. window'.op = "reask" => chains'[window'.source].named = {} /\ chains'[window'.source].audit # None
  <2>1. CASE Budget!grant_reask
    <3>1. chains' = [chains EXCEPT ![record.source] = [files |-> {"grant"}, named |-> {}, audit |-> record]]
          /\ window' = [op |-> "reask", source |-> record.source] /\ record # None
      BY <2>1 DEF Budget!grant_reask, Budget!IsAudit
    <3>2. record.source \in 1..MaxReviewTurns
      BY <2>1, BudgetBounds DEF Budget!grant_reask, Budget!ask_inspect, Budget!reviews,
         Budget!Named, BudgetType
    <3> QED BY <1>0, <3>1, <3>2
  <2>2. CASE UNCHANGED <<requests, chains, active, window>>
    BY <2>2 DEF RepairInv
  <2> QED BY <2>1, <2>2, WindowOpens
<1>4. (window'.op = "send" /\ window'.turn.purpose = "spec_verdict_repair") =>
          /\ window'.turn.source \in 1..MaxReviewTurns /\ "intent" \notin chains'[window'.turn.source].named
          /\ chains'[window'.turn.source].audit # None
  <2>1. CASE Sends
    BY <2>1, SendAsks
  <2>2. CASE Budget!send_reask
    <3>1. /\ window'.turn.source = active /\ active \in 1..MaxReviewTurns /\ Budget!_chain(active) = "granted"
          /\ chains' = [chains EXCEPT ![active].files = @ \cup {"intent"}]
      BY <2>2, SendAsks
    <3>2. chains[active].named # {} /\ "intent" \notin chains[active].named
      BY <3>1, GrantedChain
    <3>3. chains'[active].named = chains[active].named /\ chains'[active].audit = chains[active].audit
      <4>1. chains'[active] = [chains[active] EXCEPT !.files = @ \cup {"intent"}] /\ chains[active] \in Chain
        BY <1>0, <3>1
      <4> QED BY <4>1 DEF Chain
    <3> QED BY <3>1, <3>2, <3>3 DEF RepairInv
  <2>3. CASE UNCHANGED <<requests, chains, active, window>>
    BY <2>3 DEF RepairInv
  <2> QED BY <2>1, <2>2, <2>3, WindowOpens
<1>5. window'.op \in {"capture", "finish"} => active' \in 1..MaxReviewTurns /\ chains'[active'].audit # None
  <2>1. CASE Budget!capture \/ Budget!commit \/ Budget!close
    <3>1. active \in 1..MaxReviewTurns /\ active' = active
      <4>1. active # 0 /\ active' = active
        BY <2>1 DEF Budget!capture, Budget!commit, Budget!close
      <4> QED BY <4>1, BudgetBounds DEF BudgetType
    <3>2. chains[active].named # {}
      <4>1. Budget!capture => \E i \in Budget!RepairOf(active) : TRUE
        BY DEF Budget!capture
      <4>2. Budget!capture => chains[active].named # {}
        BY <4>1 DEF Budget!RepairOf, RepairInv
      <4>3. Budget!_chain(active) = "dispatched" => chains[active].named # {}
        BY DEF Budget!_chain
      <4> QED BY <2>1, <4>2, <4>3 DEF Budget!commit, Budget!close
    <3>3. chains[active].audit # None
      BY <3>1, <3>2 DEF RepairInv
    <3> QED BY <3>1, <3>3, ChainsStep DEF ChainKept
  <2>2. CASE UNCHANGED <<requests, chains, active, window>>
    BY <2>2 DEF RepairInv
  <2> QED BY <2>1, <2>2, WindowOpens
<1> QED BY <1>1, <1>2, <1>3, <1>4, <1>5 DEF RepairInv

-----------------------------------------------------------------------------
\* The re-ask k repeated the verdict of review s, on the candidate of the grant.
RepeatedBy(s, k) ==
    /\ "completion" \in chains[s].named /\ k \in Budget!RepairOf(s)
    /\ requests[k].answer = "same" /\ requests[k].cand = chains[s].audit.cand

\* An agreement of a chain, named or about to be, rests on such an answer.
AgreedInv ==
    /\ \A s \in 1..MaxReviewTurns : "agreement" \in chains[s].named => \E k \in DOMAIN requests : RepeatedBy(s, k)
    /\ (window.op = "finish" /\ window.name = "agreement") => \E k \in DOMAIN requests : RepeatedBy(active, k)
    /\ window.op = "capture" => "completion" \notin chains[active].named /\ window.turn \in Budget!RepairOf(active)

\* A review that agrees: itself or through its re-ask.
Grounds(i, r, e) ==
    /\ i \in Budget!reviews /\ i < e /\ requests[i].spec = r
    /\ \/ requests[i].answer = "accept"
       \/ i \in 1..MaxReviewTurns /\ \E k \in DOMAIN requests : k < e /\ RepeatedBy(i, k)
\* Every engineering turn has such a review, also the one that is being sent.
GroundInv ==
    /\ \A e \in Budget!Named("engineering") : \E i \in DOMAIN requests : Grounds(i, requests[e].spec, e)
    /\ (window.op = "send" /\ window.turn.purpose = "engineering") =>
          \E i \in DOMAIN requests : Grounds(i, window.turn.spec, Len(requests) + 1)

\* What was repeated stays: neither the answer nor the candidate beside it is written anew.
LEMMA RepeatedStays ==
    ASSUME BudgetType, BudgetType', AnswerInv, RepairInv, AgreedInv, [Budget!Next]_Budget!vars,
           NEW s \in 1..MaxReviewTurns, NEW k \in DOMAIN requests, RepeatedBy(s, k)
    PROVE  RepeatedBy(s, k)'
<1>1. chains[s].audit # None
  BY DEF RepeatedBy, RepairInv
<1>2. chains'[s].audit = chains[s].audit /\ "completion" \in chains'[s].named
  BY <1>1, ChainsStep DEF ChainKept, RepeatedBy
<1>3. requests[k].state # "active"
  BY BudgetNone DEF RepeatedBy, AnswerInv
<1>4. ~(window.op = "capture" /\ window.turn = k)
  BY DEF RepeatedBy, AgreedInv, Budget!RepairOf
<1>5. Kept(k)
  BY TurnsStep
<1>6. k \in Budget!RepairOf(s)'
  BY <1>5 DEF Kept, RepeatedBy, Budget!RepairOf, Budget!Named
<1>7. requests'[k].answer = "same" /\ requests'[k].cand = requests[k].cand
  BY <1>3, <1>4, <1>5 DEF Kept, RepeatedBy
<1> QED BY <1>2, <1>6, <1>7 DEF RepeatedBy

\* Only the comparison of the operator makes a chain agree.
LEMMA AgreedStep ==
    ASSUME BudgetType, BudgetType', AnswerInv, RepairInv, AgreedInv, [Budget!Next]_Budget!vars
    PROVE  AgreedInv'
<1>0. DOMAIN chains = 1..MaxReviewTurns /\ \A s \in 1..MaxReviewTurns : chains[s] \in Chain
  BY DEF BudgetType, Chains
<1>1. ASSUME NEW s \in 1..MaxReviewTurns, "agreement" \in chains'[s].named, "agreement" \notin chains[s].named
      PROVE  Budget!finish_save /\ s = active /\ window.name = "agreement" /\ window.op = "finish"
  <2>1. CASE Budget!finish_save
    <3>1. chains' = [chains EXCEPT ![active].named = @ \cup {window.name}] /\ window.op = "finish"
      BY <2>1 DEF Budget!finish_save
    <3>2. s # active => chains'[s] = chains[s]
      BY <1>0, <3>1
    <3>3. s = active => chains'[s] = [chains[s] EXCEPT !.named = @ \cup {window.name}]
      BY <1>0, <3>1
    <3>4. s = active => "agreement" \in chains[s].named \cup {window.name}
      BY <1>0, <1>1, <3>3 DEF Chain
    <3> QED BY <1>1, <2>1, <3>1, <3>2, <3>4
  <2>2. ASSUME NEW u, NEW x \in {"intent", "completion"}, chains' = [chains EXCEPT ![u].named = @ \cup {x}]
        PROVE  FALSE
    <3>1. chains'[s] = chains[s] \/ chains'[s] = [chains[s] EXCEPT !.named = @ \cup {x}]
      BY <1>0, <2>2
    <3>2. "agreement" \in chains[s].named \cup {x}
      BY <1>0, <1>1, <3>1 DEF Chain
    <3> QED BY <1>1, <3>2
  <2>7. CASE Budget!send_save
    <3>1. chains' = chains \/ chains' = [chains EXCEPT ![window.turn.source].named = @ \cup {"intent"}]
      BY <2>7 DEF Budget!send_save
    <3> QED BY <1>1, <2>2, <3>1
  <2>8. CASE Budget!capture_save
    <3>1. chains' = [chains EXCEPT ![active].named = @ \cup {"completion"}]
      BY <2>8 DEF Budget!capture_save
    <3> QED BY <2>2, <3>1
  <2>3. CASE Budget!grant_reask
    <3>1. chains' = [chains EXCEPT ![record.source] = [files |-> {"grant"}, named |-> {}, audit |-> record]]
      BY <2>3 DEF Budget!grant_reask
    <3>2. chains'[s] = chains[s] \/ chains'[s] = [files |-> {"grant"}, named |-> {}, audit |-> record]
      BY <1>0, <3>1
    <3> QED BY <1>1, <3>2
  <2>4. CASE Budget!grant_reask_save
    <3>1. chains' = [chains EXCEPT ![window.source].named = {"grant"}]
      BY <2>4 DEF Budget!grant_reask_save
    <3>2. chains'[s] = chains[s] \/ chains'[s] = [chains[s] EXCEPT !.named = {"grant"}]
      BY <1>0, <3>1
    <3>3. "agreement" \in chains[s].named \cup {"grant"}
      BY <1>0, <1>1, <3>2 DEF Chain
    <3> QED BY <1>1, <3>3
  <2>5. CASE Budget!capture \/ Budget!commit \/ Budget!close \/ Budget!send_reask
    <3>1. PICK S \in SUBSET Kinds : chains' = [chains EXCEPT ![active].files = @ \cup S]
      <4>1. {"intent"} \in SUBSET Kinds /\ {"completion"} \in SUBSET Kinds /\ {"agreement"} \in SUBSET Kinds
            /\ {"closure"} \in SUBSET Kinds
        BY DEF Kinds
      <4> QED BY <2>5, <4>1 DEF Budget!capture, Budget!commit, Budget!close, Budget!send_reask
    <3>2. chains'[s] = chains[s] \/ chains'[s] = [chains[s] EXCEPT !.files = @ \cup S]
      BY <1>0, <3>1
    <3>3. chains'[s].named = chains[s].named
      BY <1>0, <3>2 DEF Chain
    <3> QED BY <1>1, <3>3
  <2>6. CASE Resting \/ Answers_ \/ Sends
    <3>1. chains' = chains
      BY <2>6, SendAsks DEF Resting, Answers_, Budget!settle, Budget!sync, Budget!grants
    <3> QED BY <1>1, <3>1
  <2> QED BY <2>1, <2>3, <2>4, <2>5, <2>6, <2>7, <2>8, BudgetSteps
<1>2. \A k \in DOMAIN requests : k \in DOMAIN requests'
  BY TurnsStep DEF Kept
<1>3. ASSUME NEW s \in 1..MaxReviewTurns, "agreement" \in chains'[s].named
      PROVE  \E k \in DOMAIN requests' : RepeatedBy(s, k)'
  <2>1. \E k \in DOMAIN requests : RepeatedBy(s, k)
    BY <1>1, <1>3 DEF AgreedInv
  <2> QED BY <1>2, <2>1, RepeatedStays
<1>4. ASSUME window'.op = "finish", window'.name = "agreement"
      PROVE  \E k \in DOMAIN requests' : RepeatedBy(active, k)'
  <2>1. CASE Budget!commit
    <3>1. \E k \in DOMAIN requests : RepeatedBy(active, k)
      BY <2>1 DEF Budget!commit, RepeatedBy, Budget!_verdict, Budget!RepairOf, Budget!Named
    <3>2. active \in 1..MaxReviewTurns /\ active' = active
      <4>1. active # 0 /\ active' = active
        BY <2>1 DEF Budget!commit
      <4> QED BY <4>1, BudgetBounds DEF BudgetType
    <3>3. PICK k \in DOMAIN requests : RepeatedBy(active, k)
      BY <3>1
    <3>4. RepeatedBy(active, k)'
      <4>1. ASSUME NEW a \in 1..MaxReviewTurns, a = active PROVE RepeatedBy(a, k)'
        BY <3>3, <4>1, RepeatedStays
      <4>2. RepeatedBy(active, k)' <=> \A a \in 1..MaxReviewTurns : a = active => RepeatedBy(a, k)'
        BY <3>2, <4>1 DEF RepeatedBy
      <4> QED BY <4>1, <4>2
    <3> QED BY <1>2, <3>4
  <2>2. CASE UNCHANGED <<requests, chains, active, window>>
    BY <1>4, <2>2 DEF AgreedInv, RepeatedBy, Budget!RepairOf, Budget!Named
  <2>3. CASE Budget!close
    BY <1>4, <2>3 DEF Budget!close
  <2> QED BY <1>4, <2>1, <2>2, <2>3, WindowOpens
<1>5. window'.op = "capture" => "completion" \notin chains'[active'].named /\ window'.turn \in Budget!RepairOf(active)'
  <2>1. CASE Budget!capture
    <3>1. /\ chains' = [chains EXCEPT ![active].files = @ \cup {"completion"}] /\ active' = active /\ requests' = requests
          /\ "completion" \notin chains[active].named /\ window'.turn \in Budget!RepairOf(active)
      BY <2>1 DEF Budget!capture
    <3>2. active \in 1..MaxReviewTurns
      <4>1. active # 0
        BY <2>1 DEF Budget!capture
      <4> QED BY <4>1, BudgetBounds DEF BudgetType
    <3>3. chains'[active] = [chains[active] EXCEPT !.files = @ \cup {"completion"}]
      BY <1>0, <3>1, <3>2
    <3>4. chains'[active].named = chains[active].named
      BY <1>0, <3>2, <3>3 DEF Chain
    <3> QED BY <3>1, <3>4 DEF Budget!RepairOf, Budget!Named
  <2>2. CASE UNCHANGED <<requests, chains, active, window>>
    BY <2>2 DEF AgreedInv, Budget!RepairOf, Budget!Named
  <2> QED BY <2>1, <2>2, WindowOpens
<1> QED BY <1>3, <1>4, <1>5 DEF AgreedInv

\* A chain that agreed names its agreement.
LEMMA AgreedChain ==
    ASSUME NEW s, Budget!_chain(s) = "agreed"
    PROVE  "agreement" \in chains[s].named
BY DEF Budget!_chain

\* What agreed before the step agrees after it.
LEMMA GroundsStay ==
    ASSUME BudgetType, BudgetType', AnswerInv, RepairInv, AgreedInv, [Budget!Next]_Budget!vars,
           NEW i \in DOMAIN requests, NEW r, NEW e \in Nat, Grounds(i, r, e)
    PROVE  Grounds(i, r, e)'
<1>1. i \in DOMAIN requests' /\ i \in Budget!reviews' /\ requests'[i].spec = r
  BY TurnsStep DEF Kept, Grounds, Budget!reviews, Budget!Named
<1>2. CASE requests[i].answer = "accept"
  <2>1. requests[i].state # "active"
    BY <1>2, BudgetNone DEF AnswerInv
  <2>2. requests'[i].answer = "accept"
    BY <1>2, <2>1, TurnsStep DEF Kept
  <2> QED BY <1>1, <2>2 DEF Grounds
<1>3. ASSUME i \in 1..MaxReviewTurns, NEW k \in DOMAIN requests, k < e, RepeatedBy(i, k)
      PROVE  Grounds(i, r, e)'
  <2>1. RepeatedBy(i, k)'
    BY <1>3, RepeatedStays
  <2>2. k \in DOMAIN requests'
    BY TurnsStep DEF Kept
  <2> QED BY <1>1, <1>3, <2>1, <2>2 DEF Grounds
<1> QED BY <1>2, <1>3 DEF Grounds

\* Every engineering turn is grounded, also the one being sent.
LEMMA GroundStep ==
    ASSUME BudgetType, BudgetType', AnswerInv, RepairInv, AgreedInv, GroundInv, [Budget!Next]_Budget!vars
    PROVE  GroundInv'
<1>0. /\ \A i \in DOMAIN requests : i \in Nat /\ i < Len(requests) + 1 /\ i \in 1..MaxReviewTurns
      /\ Len(requests) + 1 \in Nat /\ requests \in Seq(BudgetTurn)
  BY BudgetBounds DEF BudgetType
<1>1. ASSUME NEW e \in Budget!Named("engineering")' PROVE \E i \in DOMAIN requests' : Grounds(i, requests[e].spec, e)'
  <2>1. CASE e \in DOMAIN requests
    <3>1. e \in Budget!Named("engineering") /\ requests'[e].spec = requests[e].spec
      BY <1>1, <2>1, TurnsStep DEF Budget!Named, Kept
    <3>2. PICK i \in DOMAIN requests : Grounds(i, requests[e].spec, e)
      BY <3>1 DEF GroundInv
    <3>3. PICK r : r = requests[e].spec
      OBVIOUS
    <3>4. Grounds(i, r, e)'
      BY <1>0, <2>1, <3>2, <3>3, GroundsStay
    <3>5. i \in DOMAIN requests'
      BY TurnsStep DEF Kept
    <3> QED BY <3>1, <3>3, <3>4, <3>5 DEF Grounds
  <2>2. CASE e \notin DOMAIN requests
    <3>1. /\ window.op = "send" /\ e = Len(requests) + 1 /\ requests'[e] = window.turn
      BY <1>1, <2>2, TurnsStep DEF Budget!Named
    <3>2. window.turn.purpose = "engineering"
      BY <1>1, <3>1 DEF Budget!Named
    <3>3. PICK i \in DOMAIN requests : Grounds(i, window.turn.spec, e)
      BY <3>1, <3>2 DEF GroundInv
    <3>4. PICK r : r = window.turn.spec
      OBVIOUS
    <3>5. Grounds(i, r, e)'
      BY <1>0, <3>1, <3>3, <3>4, GroundsStay
    <3>6. i \in DOMAIN requests'
      BY TurnsStep DEF Kept
    <3> QED BY <3>1, <3>4, <3>5, <3>6 DEF Grounds
  <2> QED BY <2>1, <2>2
<1>2. ASSUME window'.op = "send", window'.turn.purpose = "engineering"
      PROVE  \E i \in DOMAIN requests' : Grounds(i, window.turn.spec, Len(requests) + 1)'
  <2>1. CASE \E claim \in {"none", "ext", "rr"} : Budget!send_review(claim)
    <3>1. PICK c \in {"none", "ext", "rr"} : window' = [op |-> "send", turn |-> Budget!Turn("spec_review", c, 0)]
      BY <2>1 DEF Budget!send_review, Budget!consume
    <3> QED BY <1>2, <3>1, AskType
  <2>2. CASE Budget!send_engineering
    <3>1. window' = [op |-> "send", turn |-> Budget!Turn("engineering", "none", 0)] /\ requests' = requests /\ chains' = chains
          /\ Budget!agreement
      BY <2>2 DEF Budget!send_engineering, Budget!grants
    <3>2. window'.turn.spec = rev
      BY <3>1, AskType
    <3>3. PICK i \in Budget!latest(Budget!reviews) : /\ requests[i].spec = rev /\ requests[i].state = "completed"
                                                     /\ requests[i].answer = "accept" \/ (active = i /\ Budget!_chain(i) = "agreed")
      BY <3>1 DEF Budget!agreement
    <3>4. i \in Budget!reviews /\ i \in DOMAIN requests
      BY DEF Budget!latest, Budget!reviews, Budget!Named
    <3>5. Grounds(i, rev, Len(requests) + 1)
      <4>1. CASE requests[i].answer = "accept"
        BY <1>0, <3>3, <3>4, <4>1 DEF Grounds
      <4>2. CASE Budget!_chain(i) = "agreed"
        <5>1. i \in 1..MaxReviewTurns /\ "agreement" \in chains[i].named
          BY <1>0, <3>4, <4>2, AgreedChain
        <5>2. PICK k \in DOMAIN requests : RepeatedBy(i, k)
          BY <5>1 DEF AgreedInv
        <5> QED BY <1>0, <3>3, <3>4, <5>1, <5>2 DEF Grounds
      <4> QED BY <3>3, <4>1, <4>2
    <3> QED BY <3>1, <3>2, <3>4, <3>5 DEF Grounds, Budget!reviews, Budget!Named, RepeatedBy,
               Budget!RepairOf
  <2>3. CASE Budget!send_reask
    <3>1. window'.turn.purpose = "spec_verdict_repair"
      BY <2>3, SendAsks
    <3> QED BY <1>2, <3>1
  <2>4. CASE UNCHANGED <<requests, chains, active, window>>
    BY <1>2, <2>4 DEF GroundInv, Grounds, Budget!reviews, Budget!Named, RepeatedBy, Budget!RepairOf
  <2> QED BY <1>2, <2>1, <2>2, <2>3, <2>4, WindowOpens DEF Sends
<1> QED BY <1>1, <1>2 DEF GroundInv

-----------------------------------------------------------------------------
\* The instance counts as its host does.
LEMMA Counting ==
    ASSUME NEW S
    PROVE  Budget!Cardinality(S) = Cardinality(S)
BY DEF Budget!Cardinality, Cardinality

\* How many reviews there are; five are the ceiling, also with the one being sent.
CountInv ==
    /\ Budget!dispatches <= Budget!DISPATCH_CEILING
    /\ (window.op = "send" /\ window.turn.purpose = "spec_review") => Budget!dispatches < Budget!DISPATCH_CEILING

\* The reviews are finitely many, and only the send that is saved adds one.
LEMMA ReviewsFinite ==
    ASSUME BudgetType
    PROVE  \A S \in SUBSET DOMAIN requests : IsFiniteSet(S) /\ Cardinality(S) \in Nat
<1>1. DOMAIN requests = 1..Len(requests) /\ Len(requests) \in Nat
  BY DEF BudgetType
<1>2. IsFiniteSet(DOMAIN requests)
  BY <1>1, FS_Interval
<1> QED BY <1>2, FS_Subset, FS_CardinalityType

\* A review is added by the save of its send, and by nothing else.
LEMMA ReviewsStep ==
    ASSUME BudgetType, [Budget!Next]_Budget!vars
    PROVE  \/ Budget!reviews' = Budget!reviews
           \/ /\ window.op = "send" /\ window.turn.purpose = "spec_review" /\ Budget!send_save
              /\ Budget!reviews' = Budget!reviews \cup {Len(requests) + 1} /\ Len(requests) + 1 \notin Budget!reviews
<1>1. CASE DOMAIN requests' = DOMAIN requests
  <2>1. Budget!reviews' = Budget!reviews
    BY <1>1, TurnsStep DEF Budget!reviews, Budget!Named, Kept
  <2> QED BY <2>1
<1>2. CASE /\ Budget!send_save /\ window.op = "send" /\ DOMAIN requests' = DOMAIN requests \cup {Len(requests) + 1}
           /\ requests'[Len(requests) + 1] = window.turn /\ \A i \in DOMAIN requests : requests'[i] = requests[i]
  <2>1. Len(requests) + 1 \notin DOMAIN requests
    BY DEF BudgetType
  <2>2. CASE window.turn.purpose = "spec_review"
    <3>1. Budget!reviews' = Budget!reviews \cup {Len(requests) + 1} /\ Len(requests) + 1 \notin Budget!reviews
      BY <1>2, <2>1, <2>2 DEF Budget!reviews, Budget!Named
    <3> QED BY <1>2, <2>2, <3>1
  <2>3. CASE window.turn.purpose # "spec_review"
    <3>1. Budget!reviews' = Budget!reviews
      BY <1>2, <2>1, <2>3 DEF Budget!reviews, Budget!Named
    <3> QED BY <3>1
  <2> QED BY <2>2, <2>3
<1> QED BY <1>1, <1>2, TurnsStep

\* What a review that is sent was admitted under.
LEMMA Admitted ==
    ASSUME BudgetType, BudgetType', [Budget!Next]_Budget!vars, window'.op = "send"
    PROVE  \/ UNCHANGED <<requests, chains, active, window>>
           \/ /\ requests' = requests /\ window'.turn.purpose # "spec_review" /\ window'.turn.claim = "none"
           \/ \E c \in {"none", "ext", "rr"} :
                 /\ Budget!send_review(c) /\ requests' = requests /\ chains' = chains /\ window'.turn.claim = c
                 /\ window'.turn.purpose = "spec_review" /\ window'.turn.spec = rev
<1>1. ASSUME NEW c \in {"none", "ext", "rr"}, Budget!send_review(c)
      PROVE  /\ requests' = requests /\ chains' = chains /\ window'.turn.claim = c
             /\ window'.turn.purpose = "spec_review" /\ window'.turn.spec = rev
  <2>1. requests' = requests /\ chains' = chains /\ window' = [op |-> "send", turn |-> Budget!Turn("spec_review", c, 0)]
    BY <1>1 DEF Budget!send_review, Budget!consume
  <2> QED BY <2>1, AskType
<1>2. CASE Budget!send_engineering
  <2>1. requests' = requests /\ window' = [op |-> "send", turn |-> Budget!Turn("engineering", "none", 0)]
    BY <1>2 DEF Budget!send_engineering
  <2> QED BY <2>1, AskType
<1>3. CASE Budget!send_reask
  BY <1>3, SendAsks
<1> QED BY <1>1, <1>2, <1>3, WindowOpens DEF Sends

\* Never a sixth review.
LEMMA CountStep ==
    ASSUME BudgetType, BudgetType', CountInv, [Budget!Next]_Budget!vars
    PROVE  CountInv'
<1>0. IsFiniteSet(Budget!reviews) /\ Budget!dispatches \in Nat
  BY ReviewsFinite, Counting DEF Budget!reviews, Budget!Named, Budget!dispatches
<1>1. Budget!dispatches' <= Budget!DISPATCH_CEILING
  <2>1. CASE Budget!reviews' = Budget!reviews
    BY <2>1 DEF CountInv, Budget!dispatches
  <2>2. CASE /\ window.op = "send" /\ window.turn.purpose = "spec_review"
             /\ Budget!reviews' = Budget!reviews \cup {Len(requests) + 1} /\ Len(requests) + 1 \notin Budget!reviews
    <3>1. Budget!dispatches' = Budget!dispatches + 1
      BY <1>0, <2>2, FS_AddElement, Counting DEF Budget!dispatches
    <3> QED BY <1>0, <2>2, <3>1 DEF CountInv, Budget!DISPATCH_CEILING
  <2> QED BY <2>1, <2>2, ReviewsStep
<1>2. ASSUME window'.op = "send", window'.turn.purpose = "spec_review"
      PROVE  Budget!dispatches' < Budget!DISPATCH_CEILING
  <2>1. CASE \E c \in {"none", "ext", "rr"} : Budget!send_review(c) /\ requests' = requests
    <3>1. Budget!dispatches < Budget!DISPATCH_CEILING
      <4>1. PICK c \in {"none", "ext", "rr"} : Budget!admission(c)
        BY <2>1 DEF Budget!send_review
      <4>2. Budget!admission("none") => Budget!dispatches < Budget!DISPATCH_CEILING
        BY DEF Budget!admission, Budget!ordinary
      <4>3. Budget!admission("ext") => Budget!dispatches < Budget!DISPATCH_CEILING
        BY DEF Budget!admission, Budget!ext_admission
      <4>4. Budget!admission("rr") => Budget!dispatches + 1 <= Budget!DISPATCH_CEILING
        BY DEF Budget!admission, Budget!rr_admission
      <4> QED BY <1>0, <4>1, <4>2, <4>3, <4>4 DEF Budget!DISPATCH_CEILING
    <3> QED BY <2>1, <3>1 DEF Budget!dispatches, Budget!reviews, Budget!Named
  <2>2. CASE UNCHANGED <<requests, chains, active, window>>
    BY <1>2, <2>2 DEF CountInv, Budget!dispatches, Budget!reviews, Budget!Named
  <2> QED BY <1>2, <2>1, <2>2, Admitted
<1> QED BY <1>1, <1>2 DEF CountInv

-----------------------------------------------------------------------------
\* Reviews before n that came back without acceptance, and no re-ask made them accept.
Refused(n) == {j \in Budget!reviews : /\ j < n
                                      /\ requests[j].state = "completed"
                                      /\ requests[j].answer # "accept" /\ Budget!_chain(j) # "agreed"}
\* Fewer than three of them precede a review under no allowance.
DebateInv ==
    /\ \A i \in Budget!reviews : requests[i].claim = "none" => Cardinality(Refused(i)) < Budget!DEBATE_LIMIT
    /\ (window.op = "send" /\ window.turn.purpose = "spec_review" /\ window.turn.claim = "none") =>
          Cardinality(Refused(Len(requests) + 1)) < Budget!DEBATE_LIMIT

\* What was refused before a request was decided before it was sent.
LEMMA RefusedShrinks ==
    ASSUME BudgetType, BudgetType', AnswerInv, RepairInv, [Budget!Next]_Budget!vars, NEW i \in Nat,
           i \in DOMAIN requests \/ (i = Len(requests) + 1 /\ window.op = "send")
    PROVE  Refused(i)' \subseteq Refused(i)
<1> SUFFICES ASSUME NEW j \in Refused(i)' PROVE j \in Refused(i)
  OBVIOUS
<1>1. j \in DOMAIN requests' /\ j < i /\ requests'[j].purpose = "spec_review" /\ requests'[j].state = "completed"
      /\ requests'[j].answer # "accept" /\ Budget!_chain(j)' # "agreed"
  BY DEF Refused, Budget!reviews, Budget!Named
<1>2. j \in DOMAIN requests
  BY <1>1 DEF BudgetType
<1>3. requests[j].state # "active"
  BY <1>1, <1>2 DEF AnswerInv
<1>4. requests[j].purpose = "spec_review" /\ requests[j].state = "completed" /\ requests[j].answer # "accept"
  BY <1>1, <1>2, <1>3, TurnsStep DEF Kept
<1>5. "agreement" \notin chains'[j].named
  <2>1. ASSUME "agreement" \in chains'[j].named PROVE Budget!_chain(j)' = "agreed"
    <3>1. chains'[j].named # {}
      BY <2>1
    <3> QED BY <2>1, <3>1 DEF Budget!_chain
  <2> QED BY <1>1, <2>1
<1>6. j \in 1..MaxReviewTurns
  BY <1>2, BudgetBounds DEF BudgetType
<1>7. Budget!_chain(j) # "agreed"
  BY <1>5, <1>6, ChainsStep, AgreedChain DEF ChainKept
<1> QED BY <1>1, <1>2, <1>4, <1>7 DEF Refused, Budget!reviews, Budget!Named

\* Outside an allowance fewer than three refusals precede a review.
LEMMA DebateStep ==
    ASSUME BudgetType, BudgetType', AnswerInv, RepairInv, DebateInv, [Budget!Next]_Budget!vars
    PROVE  DebateInv'
<1>0. /\ Len(requests) + 1 \in Nat /\ \A i \in DOMAIN requests : i \in Nat /\ i < Len(requests) + 1
      /\ Len(requests) + 1 \notin DOMAIN requests
  BY DEF BudgetType
<1>1. ASSUME NEW i \in Nat, i \in DOMAIN requests \/ (i = Len(requests) + 1 /\ window.op = "send"),
             Cardinality(Refused(i)) < Budget!DEBATE_LIMIT
      PROVE  Cardinality(Refused(i)') < Budget!DEBATE_LIMIT
  <2>1. Refused(i)' \subseteq Refused(i)
    BY <1>1, RefusedShrinks
  <2>2. IsFiniteSet(Refused(i)) /\ Cardinality(Refused(i)) \in Nat
    BY ReviewsFinite DEF Refused, Budget!reviews, Budget!Named
  <2>3. Cardinality(Refused(i)') <= Cardinality(Refused(i)) /\ Cardinality(Refused(i)') \in Nat
    BY <2>1, <2>2, FS_Subset, FS_CardinalityType
  <2> QED BY <1>1, <2>2, <2>3 DEF Budget!DEBATE_LIMIT
<1>2. ASSUME NEW i \in Budget!reviews', requests'[i].claim = "none" PROVE Cardinality(Refused(i)') < Budget!DEBATE_LIMIT
  <2>1. CASE i \in DOMAIN requests
    <3>1. i \in Budget!reviews /\ requests[i].claim = "none"
      BY <1>2, <2>1, TurnsStep DEF Kept, Budget!reviews, Budget!Named
    <3> QED BY <1>0, <1>1, <2>1, <3>1 DEF DebateInv
  <2>2. CASE i \notin DOMAIN requests
    <3>1. window.op = "send" /\ i = Len(requests) + 1 /\ requests'[i] = window.turn
      BY <1>2, <2>2, TurnsStep DEF Budget!reviews, Budget!Named
    <3>2. window.turn.purpose = "spec_review" /\ window.turn.claim = "none"
      BY <1>2, <3>1 DEF Budget!reviews, Budget!Named
    <3> QED BY <1>0, <1>1, <3>1, <3>2 DEF DebateInv
  <2> QED BY <2>1, <2>2
<1>3. ASSUME window'.op = "send", window'.turn.purpose = "spec_review", window'.turn.claim = "none"
      PROVE  Cardinality(Refused(Len(requests) + 1)') < Budget!DEBATE_LIMIT
  <2>1. CASE UNCHANGED <<requests, chains, active, window>>
    <3>1. Refused(Len(requests) + 1)' = Refused(Len(requests) + 1)
      BY <2>1 DEF Refused, Budget!reviews, Budget!Named, Budget!_chain, Budget!RepairOf
    <3> QED BY <1>3, <2>1, <3>1 DEF DebateInv
  <2>2. CASE Budget!send_review("none") /\ requests' = requests /\ chains' = chains
    <3>1. Budget!_claimed /\ Budget!debate_attempts < Budget!DEBATE_LIMIT
      BY <2>2 DEF Budget!send_review, Budget!admission, Budget!ordinary, Budget!quiet,
         Budget!settled, Budget!journal
    <3>2. Refused(Len(requests) + 1)' = Refused(Len(requests) + 1)
      BY <2>2 DEF Refused, Budget!reviews, Budget!Named, Budget!_chain, Budget!RepairOf
    <3>3. Refused(Len(requests) + 1) \subseteq {i \in Budget!reviews : requests[i].state = "completed" /\ ~Budget!accepting(i)}
      BY <3>1 DEF Refused, Budget!accepting, Budget!agreed_sources
    <3>4. {i \in Budget!reviews : requests[i].state = "completed" /\ ~Budget!accepting(i)} \subseteq DOMAIN requests
      BY DEF Budget!reviews, Budget!Named
    <3>5. Cardinality(Refused(Len(requests) + 1)) <= Budget!debate_attempts
      BY <3>3, <3>4, ReviewsFinite, FS_Subset, Counting DEF Budget!debate_attempts
    <3>6. Cardinality(Refused(Len(requests) + 1)) \in Nat /\ Budget!debate_attempts \in Nat
      BY <3>3, <3>4, ReviewsFinite, Counting DEF Budget!debate_attempts
    <3> QED BY <3>1, <3>2, <3>5, <3>6 DEF Budget!DEBATE_LIMIT
  <2>3. \/ UNCHANGED <<requests, chains, active, window>>
        \/ Budget!send_review("none") /\ requests' = requests /\ chains' = chains
    BY <1>3, Admitted
  <2> QED BY <2>1, <2>2, <2>3
<1>4. (window'.op = "send" /\ window'.turn.purpose = "spec_review" /\ window'.turn.claim = "none") => requests' = requests
  BY Admitted
<1> QED BY <1>2, <1>3, <1>4 DEF DebateInv, Refused, Budget!reviews, Budget!Named

-----------------------------------------------------------------------------
\* A grant g, written by op and claimed as n, is spent by one review, on its specification.
Spent(g, n, op) ==
    /\ \A i \in Budget!Claimed(n) : g.ref /\ g.used = i /\ requests[i].spec = g.receipt.audit.spec
    /\ g.ref \/ window.op = op =>
          \A i \in DOMAIN g.receipt.audit.turns : g.receipt.audit.turns[i].claim # n
    /\ (window.op = "send" /\ window.turn.claim = n) =>
          g.ref /\ g.used = Len(requests) + 1 /\ Budget!Claimed(n) = {} /\ window.turn.spec = g.receipt.audit.spec
\* Both grants.
SpentInv == Spent(ext, "ext", "extend") /\ Spent(rr, "rr", "rereview")

\* A grant that does not change is spent by what was sent under it.
LEMMA SpentKept ==
    ASSUME BudgetType, BudgetType', [Budget!Next]_Budget!vars, NEW n \in {"ext", "rr"}, NEW op, NEW g \in Allowance,
           Spent(g, n, op), ~Budget!send_review(n), window'.op = op => window.op = op
    PROVE  Spent(g, n, op)'
<1>1. ASSUME NEW i \in Budget!Claimed(n)' PROVE g.ref /\ g.used = i /\ requests'[i].spec = g.receipt.audit.spec
  <2>1. CASE i \in DOMAIN requests
    <3>1. i \in Budget!Claimed(n) /\ requests'[i].spec = requests[i].spec
      BY <1>1, <2>1, TurnsStep DEF Kept, Budget!Claimed
    <3> QED BY <3>1 DEF Spent
  <2>2. CASE i \notin DOMAIN requests
    <3>1. window.op = "send" /\ i = Len(requests) + 1 /\ requests'[i] = window.turn
      BY <1>1, <2>2, TurnsStep DEF Budget!Claimed
    <3>2. window.turn.claim = n
      BY <1>1, <3>1 DEF Budget!Claimed
    <3> QED BY <3>1, <3>2 DEF Spent
  <2> QED BY <2>1, <2>2
<1>2. ASSUME window'.op = "send", window'.turn.claim = n PROVE UNCHANGED <<requests, window>>
  BY <1>2, Admitted
<1>3. (window'.op = "send" /\ window'.turn.claim = n) =>
          g.ref /\ g.used = Len(requests') + 1 /\ Budget!Claimed(n)' = {} /\ window'.turn.spec = g.receipt.audit.spec
  BY <1>2 DEF Spent, Budget!Claimed
<1> QED BY <1>1, <1>3 DEF Spent

\* A receipt is written on requests none of which claims it.
LEMMA SpentGranted ==
    ASSUME NEW n, NEW op, NEW g, NEW h, Spent(g, n, op), ~g.ref, ~h.ref, h.receipt.audit.turns = requests,
           requests' = requests, window'.op # "send"
    PROVE  Spent(h, n, op)'
<1>1. Budget!Claimed(n) = {} /\ Budget!Claimed(n)' = {}
  BY DEF Spent, Budget!Claimed
<1>2. \A i \in DOMAIN requests : requests[i].claim # n
  BY <1>1 DEF Budget!Claimed
<1> QED BY <1>1, <1>2 DEF Spent

\* state.json names the receipt.
LEMMA SpentNamed ==
    ASSUME NEW n, NEW op, NEW g \in Allowance, NEW h, Spent(g, n, op), window.op = op, h = [g EXCEPT !.ref = TRUE],
           requests' = requests, window'.op # "send"
    PROVE  Spent(h, n, op)'
<1>1. h.receipt = g.receipt /\ h.used = g.used /\ h.ref = TRUE
  BY DEF Allowance
<1> QED BY <1>1 DEF Spent, Budget!Claimed

\* The one review: the requests are still those of the audit, so none claimed the grant before.
LEMMA SpentConsumed ==
    ASSUME NEW n, NEW op, NEW g \in Allowance, NEW h, Spent(g, n, op), g.ref, h = [g EXCEPT !.used = Len(requests) + 1],
           requests = g.receipt.audit.turns, requests' = requests, window'.turn.spec = g.receipt.audit.spec
    PROVE  Spent(h, n, op)'
<1>1. h.receipt = g.receipt /\ h.used = Len(requests) + 1 /\ h.ref = g.ref
  BY DEF Allowance
<1>2. Budget!Claimed(n) = {} /\ Budget!Claimed(n)' = {}
  BY <1>1 DEF Spent, Budget!Claimed
<1> QED BY <1>1, <1>2 DEF Spent

\* The steps that write a grant.
LEMMA GrantsStep ==
    ASSUME BudgetType, [Budget!Next]_Budget!vars
    PROVE  \/ \E who \in Payloads : Budget!_extend(who) \/ Budget!grant_rereview(who)
           \/ Budget!_extend_save \/ Budget!grant_rereview_save \/ \E c \in {"none", "ext", "rr"} : Budget!send_review(c)
           \/ ext' = ext /\ rr' = rr /\ (window'.op \in {"extend", "rereview"} => window' = window)
<1>1. CASE (\E lane \in {"accepted", "pre_acceptance"} : Budget!audit_extension(lane)) \/ Budget!audit_rereview
           \/ \E s \in DOMAIN requests : Budget!audit_reask(s)
  BY <1>1 DEF Budget!audit_extension, Budget!audit_rereview, Budget!audit_reask
<1>2. CASE Budget!grant_reask \/ Budget!grant_reask_save \/ Budget!send_engineering \/ Budget!send_reask \/ Budget!send_save
  <2>1. Budget!grant_reask => ext' = ext /\ rr' = rr /\ window'.op = "reask"
    BY DEF Budget!grant_reask
  <2>2. Budget!send_engineering => ext' = ext /\ rr' = rr /\ window'.op = "send"
    BY DEF Budget!send_engineering, Budget!grants
  <2>3. Budget!send_reask => ext' = ext /\ rr' = rr /\ window'.op = "send"
    BY DEF Budget!send_reask
  <2> QED BY <1>2, <2>1, <2>2, <2>3 DEF Budget!grant_reask_save, Budget!send_save, Budget!Idle
<1>3. CASE Budget!capture \/ Budget!capture_save \/ Budget!commit \/ Budget!close \/ Budget!finish_save
  <2>1. Budget!capture => ext' = ext /\ rr' = rr /\ window'.op = "capture"
    BY DEF Budget!capture
  <2> QED BY <1>3, <2>1 DEF Budget!capture_save, Budget!commit, Budget!close,
             Budget!finish_save, Budget!Idle
<1>4. CASE (\E n \in 1..MaxRev : Budget!spec_put(n)) \/ Budget!accept \/ Budget!hand_off \/ (\E c \in 0..MaxCand : Budget!Edit(c)) \/ Budget!Crash \/ UNCHANGED Budget!vars
  BY <1>4 DEF Budget!spec_put, Budget!accept, Budget!hand_off, Budget!Edit, Budget!Crash, Budget!vars,
     Budget!grants, Budget!Idle
<1>5. CASE Answers_
  <2>1. ext' = ext /\ rr' = rr /\ window' = window
    BY <1>5 DEF Answers_, Budget!settle, Budget!sync, Budget!grants
  <2> QED BY <2>1
<1> QED BY <1>1, <1>2, <1>3, <1>4, <1>5 DEF Budget!Next, Answers_

\* Every allowance is spent once.
LEMMA SpentStep ==
    ASSUME BudgetType, BudgetType', SpentInv, [Budget!Next]_Budget!vars
    PROVE  SpentInv'
<1>0. ext \in Allowance /\ rr \in Allowance
  BY DEF BudgetType
<1>1. ASSUME ext' = ext, ~Budget!send_review("ext"), window'.op = "extend" => window.op = "extend"
      PROVE  Spent(ext, "ext", "extend")'
  <2>1. PICK g : g = ext
    OBVIOUS
  <2>2. Spent(g, "ext", "extend")'
    BY <1>0, <1>1, <2>1, SpentKept DEF SpentInv
  <2> QED BY <1>1, <2>1, <2>2 DEF Spent
<1>2. ASSUME rr' = rr, ~Budget!send_review("rr"), window'.op = "rereview" => window.op = "rereview"
      PROVE  Spent(rr, "rr", "rereview")'
  <2>1. PICK g : g = rr
    OBVIOUS
  <2>2. Spent(g, "rr", "rereview")'
    BY <1>0, <1>2, <2>1, SpentKept DEF SpentInv
  <2> QED BY <1>2, <2>1, <2>2 DEF Spent
<1>3. ASSUME NEW c \in {"none", "ext", "rr"}, Budget!send_review(c)
      PROVE  /\ window'.op = "send" /\ window'.turn.claim = c /\ window'.turn.spec = rev /\ requests' = requests
             /\ Budget!admission(c) /\ ext' = (IF c = "ext" THEN [ext EXCEPT !.used = Len(requests) + 1] ELSE ext)
             /\ rr' = (IF c = "rr" THEN [rr EXCEPT !.used = Len(requests) + 1] ELSE rr)
  <2>1. requests' = requests /\ window' = [op |-> "send", turn |-> Budget!Turn("spec_review", c, 0)]
    BY <1>3 DEF Budget!send_review, Budget!consume
  <2>2. window'.op = "send" /\ window'.turn.claim = c /\ window'.turn.spec = rev
    BY <2>1, AskType
  <2> QED BY <1>3, <2>1, <2>2 DEF Budget!send_review, Budget!consume
<1>4. \A c \in {"none", "ext", "rr"} : window'.op # "send" => ~Budget!send_review(c)
  BY <1>3
<1>5. ASSUME NEW who \in Payloads, Budget!_extend(who) PROVE SpentInv'
  <2>1. PICK saved : /\ ext' = [ext EXCEPT !.receipt = [who |-> who, audit |-> saved]]
                     /\ saved = Budget!_manifest(saved.lane) /\ ~ext.ref
    BY <1>5 DEF Budget!_extend, Budget!_audit, Budget!ext_inspect
  <2>2. ext'.receipt.audit = saved /\ ext'.ref = FALSE
    BY <1>0, <2>1 DEF Allowance
  <2>3. saved.turns = requests
    BY <2>1 DEF Budget!_manifest
  <2>4. window'.op = "extend" /\ requests' = requests /\ rr' = rr
    BY <1>5 DEF Budget!_extend
  <2>5. PICK h : h = ext'
    OBVIOUS
  <2>6. Spent(h, "ext", "extend")'
    BY <2>1, <2>2, <2>3, <2>4, <2>5, SpentGranted DEF SpentInv
  <2> QED BY <1>2, <1>4, <2>4, <2>5, <2>6 DEF SpentInv, Spent
<1>6. ASSUME NEW who \in Payloads, Budget!grant_rereview(who) PROVE SpentInv'
  <2>1. PICK saved : /\ rr' = [rr EXCEPT !.receipt = [who |-> who, audit |-> saved]]
                     /\ Budget!_manifest("rereview") = saved /\ ~rr.ref
    BY <1>6 DEF Budget!grant_rereview, Budget!_audit, Budget!rr_inspect
  <2>2. rr'.receipt.audit = saved /\ rr'.ref = FALSE
    BY <1>0, <2>1 DEF Allowance
  <2>3. saved.turns = requests
    BY <2>1 DEF Budget!_manifest
  <2>4. window'.op = "rereview" /\ requests' = requests /\ ext' = ext
    BY <1>6 DEF Budget!grant_rereview
  <2>5. PICK h : h = rr'
    OBVIOUS
  <2>6. Spent(h, "rr", "rereview")'
    BY <2>1, <2>2, <2>3, <2>4, <2>5, SpentGranted DEF SpentInv
  <2> QED BY <1>1, <1>4, <2>4, <2>5, <2>6 DEF SpentInv, Spent
<1>7. CASE Budget!_extend_save
  <2>1. window.op = "extend" /\ ext' = [ext EXCEPT !.ref = TRUE] /\ requests' = requests /\ rr' = rr /\ window'.op = "idle"
    BY <1>7 DEF Budget!_extend_save, Budget!Idle
  <2>2. PICK h : h = ext'
    OBVIOUS
  <2>3. Spent(h, "ext", "extend")'
    BY <1>0, <2>1, <2>2, SpentNamed DEF SpentInv
  <2> QED BY <1>2, <1>4, <2>1, <2>2, <2>3 DEF SpentInv, Spent
<1>8. CASE Budget!grant_rereview_save
  <2>1. window.op = "rereview" /\ rr' = [rr EXCEPT !.ref = TRUE] /\ requests' = requests /\ ext' = ext /\ window'.op = "idle"
    BY <1>8 DEF Budget!grant_rereview_save, Budget!Idle
  <2>2. PICK h : h = rr'
    OBVIOUS
  <2>3. Spent(h, "rr", "rereview")'
    BY <1>0, <2>1, <2>2, SpentNamed DEF SpentInv
  <2> QED BY <1>1, <1>4, <2>1, <2>2, <2>3 DEF SpentInv, Spent
<1>9. CASE Budget!send_review("ext")
  <2>1. /\ window'.op = "send" /\ window'.turn.claim = "ext" /\ window'.turn.spec = rev /\ requests' = requests
        /\ Budget!admission("ext") /\ ext' = [ext EXCEPT !.used = Len(requests) + 1] /\ rr' = rr
    BY <1>3, <1>9
  <2>2. ext.ref /\ rev = ext.receipt.audit.spec /\ requests = ext.receipt.audit.turns
    BY <2>1 DEF Budget!admission, Budget!ext_admission
  <2>3. PICK h : h = ext'
    OBVIOUS
  <2>4. Spent(h, "ext", "extend")'
    BY <1>0, <2>1, <2>2, <2>3, SpentConsumed DEF SpentInv
  <2>5. ~Budget!send_review("rr")
    BY <1>3, <2>1
  <2> QED BY <1>2, <2>1, <2>3, <2>4, <2>5 DEF SpentInv, Spent
<1>10. CASE Budget!send_review("rr")
  <2>1. /\ window'.op = "send" /\ window'.turn.claim = "rr" /\ window'.turn.spec = rev /\ requests' = requests
        /\ Budget!admission("rr") /\ rr' = [rr EXCEPT !.used = Len(requests) + 1] /\ ext' = ext
    BY <1>3, <1>10
  <2>2. rr.ref /\ rev = rr.receipt.audit.spec /\ requests = rr.receipt.audit.turns
    BY <2>1 DEF Budget!admission, Budget!rr_admission
  <2>3. PICK h : h = rr'
    OBVIOUS
  <2>4. Spent(h, "rr", "rereview")'
    BY <1>0, <2>1, <2>2, <2>3, SpentConsumed DEF SpentInv
  <2>5. ~Budget!send_review("ext")
    BY <1>3, <2>1
  <2> QED BY <1>1, <2>1, <2>3, <2>4, <2>5 DEF SpentInv, Spent
<1>11. CASE Budget!send_review("none")
  <2>1. window'.op = "send" /\ window'.turn.claim = "none" /\ ext' = ext /\ rr' = rr
    BY <1>3, <1>11
  <2>2. ~Budget!send_review("ext") /\ ~Budget!send_review("rr")
    BY <1>3, <2>1
  <2> QED BY <1>1, <1>2, <2>1, <2>2 DEF SpentInv
<1>12. CASE ext' = ext /\ rr' = rr /\ (window'.op \in {"extend", "rereview"} => window' = window)
  BY <1>1, <1>2, <1>9, <1>10, <1>12 DEF SpentInv
<1> QED BY <1>5, <1>6, <1>7, <1>8, <1>9, <1>10, <1>11, <1>12, GrantsStep

-----------------------------------------------------------------------------
\* The inductive invariant.
BudgetInv ==
    /\ BudgetType /\ AnswerInv /\ RepairInv /\ AgreedInv /\ GroundInv /\ CountInv /\ DebateInv /\ SpentInv

\* The rooms a behaviour starts with.
LEMMA BudgetInit ==
    ASSUME Budget!Init
    PROVE  BudgetInv
<1>1. PICK a \in {"done", "scope_change"} :
         /\ requests = <<Budget!Done("spec_review", 1, "accept"), Budget!Done("engineering", 1, a),
                      Budget!Done("spec_review", 1, "changes"), Budget!Done("spec_review", 1, "changes")>>
         /\ taken = IF a = "done" THEN 0 ELSE None
  BY DEF Budget!Init
<1>2. /\ tree = 0 /\ chains = [i \in (1..MaxReviewTurns) |-> Budget!NoChain] /\ active = 0 /\ rr = Budget!NoGrant /\ record = None
      /\ window = Budget!Idle /\ window.op = "idle"
  BY DEF Budget!Init, Budget!Idle
<1>3. /\ Budget!Done("spec_review", 1, "accept") \in BudgetTurn /\ Budget!Done("engineering", 1, a) \in BudgetTurn
      /\ Budget!Done("spec_review", 1, "changes") \in BudgetTurn
  BY DEF Budget!Done, BudgetTurn
<1>4. requests \in Seq(BudgetTurn) /\ Len(requests) = 4 /\ DOMAIN requests = 1..4
  BY <1>1, <1>3
<1>5. \A i \in DOMAIN requests : requests[i].state = "completed" /\ requests[i].claim = "none" /\ requests[i].spec = 1
                             /\ requests[i].purpose \in {"spec_review", "engineering"}
                             /\ (requests[i].purpose = "engineering" => i = 2)
                             /\ (requests[i].purpose = "spec_review" => i \in {1, 3, 4})
                             /\ (i = 1 => requests[i].answer = "accept" /\ requests[i].purpose = "spec_review")
  BY <1>1, <1>4 DEF Budget!Done
<1>6. \A i \in 1..MaxReviewTurns : chains[i].files = {} /\ chains[i].named = {} /\ chains[i].audit = None
  BY <1>2 DEF Budget!NoChain
<1>7. chains \in Chains
  <2>1. Budget!NoChain \in Chain
    BY DEF Budget!NoChain, Chain
  <2> QED BY <1>2, <2>1 DEF Chains
<1>8. Budget!NoGrant \in Allowance
  BY DEF Budget!NoGrant, Allowance
<1>9. taken \in Nat \cup {None} /\ rev \in Nat
  BY <1>1 DEF Budget!Init
<1>10. \/ ext = Budget!NoGrant
       \/ \E m \in Manifest, p \in Payloads : ext = [receipt |-> [who |-> p, audit |-> m], ref |-> TRUE, used |-> 0]
                                            /\ m.turns = requests
  <2>1. PICK m : m = [lane |-> "accepted", spec |-> 2, turns |-> requests, cand |-> 0, accepted |-> 0, chains |-> chains]
    OBVIOUS
  <2>2. m \in Manifest /\ m.turns = requests
    BY <1>4, <1>7, <2>1 DEF Manifest
  <2>3. (CHOOSE p \in Payloads : TRUE) \in Payloads
    BY BudgetBounds
  <2>4. ext = Budget!NoGrant \/ ext = [receipt |-> [who |-> CHOOSE p \in Payloads : TRUE, audit |-> m], ref |-> TRUE, used |-> 0]
    BY <1>2, <2>1 DEF Budget!Init
  <2> QED BY <2>2, <2>3, <2>4
<1>11. ext \in Allowance
  <2>1. \A m \in Manifest, p \in Payloads : [receipt |-> [who |-> p, audit |-> m], ref |-> TRUE, used |-> 0] \in Allowance
    BY DEF Allowance
  <2> QED BY <1>8, <1>10, <2>1
<1>12. BudgetType
  BY <1>2, <1>4, <1>7, <1>8, <1>9, <1>11, BudgetBounds DEF BudgetType, Windows
<1>13. AnswerInv
  BY <1>2, <1>5 DEF AnswerInv
<1>14. RepairInv
  BY <1>2, <1>5, <1>6 DEF RepairInv, Budget!Named
<1>15. AgreedInv
  BY <1>2, <1>6 DEF AgreedInv
<1>16. GroundInv
  <2>1. ASSUME NEW e \in Budget!Named("engineering") PROVE Grounds(1, requests[e].spec, e)
    BY <1>4, <1>5 DEF Grounds, Budget!Named, Budget!reviews
  <2> QED BY <1>2, <1>4, <2>1 DEF GroundInv
<1>17. CountInv
  <2>1. Budget!reviews \subseteq 1..Len(requests)
    BY <1>4 DEF Budget!reviews, Budget!Named
  <2>2. IsFiniteSet(1..Len(requests)) /\ Cardinality(1..Len(requests)) = 4
    <3>1. Len(requests) \in Int /\ 1 \in Int
      BY <1>4
    <3>2. IsFiniteSet(1..Len(requests)) /\ Cardinality(1..Len(requests)) = IF 1 > Len(requests) THEN 0 ELSE Len(requests) - 1 + 1
      BY <3>1, FS_Interval
    <3> QED BY <1>4, <3>2
  <2>3. Budget!dispatches <= 4 /\ Budget!dispatches \in Nat
    BY <2>1, <2>2, FS_Subset, FS_CardinalityType, Counting DEF Budget!dispatches
  <2> QED BY <1>2, <2>3 DEF CountInv, Budget!DISPATCH_CEILING
<1>18. DebateInv
  <2>1. ASSUME NEW i \in Budget!reviews PROVE Cardinality(Refused(i)) < Budget!DEBATE_LIMIT
    <3>1. i <= 4 /\ \A j \in Refused(i) : j = 3
      BY <1>4, <1>5 DEF Refused, Budget!reviews, Budget!Named
    <3>2. Refused(i) \subseteq {3}
      BY <3>1
    <3>3. IsFiniteSet({3}) /\ Cardinality({3}) = 1
      BY FS_Singleton
    <3>4. Cardinality(Refused(i)) <= 1 /\ Cardinality(Refused(i)) \in Nat
      BY <3>2, <3>3, FS_Subset, FS_CardinalityType
    <3> QED BY <3>4 DEF Budget!DEBATE_LIMIT
  <2> QED BY <1>2, <2>1 DEF DebateInv
<1>19. SpentInv
  <2>1. Budget!Claimed("ext") = {} /\ Budget!Claimed("rr") = {}
    BY <1>5 DEF Budget!Claimed
  <2>2. Spent(rr, "rr", "rereview")
    BY <1>2, <2>1 DEF Spent, Budget!NoGrant
  <2>3. Spent(ext, "ext", "extend")
    BY <1>2, <1>5, <1>10, <2>1 DEF Spent, Budget!NoGrant
  <2> QED BY <2>2, <2>3 DEF SpentInv
<1> QED BY <1>12, <1>13, <1>14, <1>15, <1>16, <1>17, <1>18, <1>19 DEF BudgetInv

\* It holds in every reachable state.
LEMMA BudgetInvariant == Budget!Spec => []BudgetInv
<1>1. Budget!Init => BudgetInv
  BY BudgetInit
<1>2. BudgetInv /\ [Budget!Next]_Budget!vars => BudgetInv'
  <2> SUFFICES ASSUME BudgetInv, [Budget!Next]_Budget!vars PROVE BudgetInv'
    OBVIOUS
  <2>1. BudgetType'
    BY BudgetTypeStep DEF BudgetInv
  <2> QED BY <2>1, AnswerStep, RepairStep, AgreedStep, GroundStep, CountStep, DebateStep,
             SpentStep DEF BudgetInv
<1> QED BY <1>1, <1>2, PTL DEF Budget!Spec

\* An allowance is spent at most once, on the specification it was audited for, no source is asked
\* twice, no sixth review is sent, and outside an allowance fewer than three refusals precede a
\* review (ao_review_extension.consume, ao_spec_rereview.consume, ao_spec_review_budget).
THEOREM SpentOnce == Budget!Spec => []AllowancesSpentOnce
<1>1. BudgetInv => Budget!AllowancesSpentOnce
  BY DEF BudgetInv, CountInv, SpentInv, Spent, RepairInv, Budget!AllowancesSpentOnce
<1>2. BudgetInv => Budget!DebateBounded
  BY Counting DEF BudgetInv, DebateInv, Budget!DebateBounded, Refused
<1>3. BudgetInv => AllowancesSpentOnce
  BY <1>1, <1>2 DEF AllowancesSpentOnce
<1> QED BY <1>3, BudgetInvariant, PTL

\* Every engineering turn follows a review that accepted its specification, itself or through the
\* one re-ask that repeated it on the candidate of its grant (ao_workflow.agreement).
THEOREM AgreementsGrounded == Budget!Spec => []AgreementGrounded
<1>1. ASSUME BudgetInv PROVE Budget!AgreementGrounded
  <2>1. ASSUME NEW e \in Budget!Named("engineering"), NEW i \in DOMAIN requests, Grounds(i, requests[e].spec, e)
        PROVE  \E r \in Budget!reviews :
                 /\ r < e
                 /\ requests[r].spec = requests[e].spec
                 /\ \/ requests[r].answer = "accept"
                    \/ \E k \in Budget!RepairOf(r) :
                          k < e /\ requests[k].answer = "same" /\ requests[k].cand = chains[r].audit.cand
    BY <2>1 DEF Grounds, RepeatedBy
  <2> QED BY <1>1, <2>1 DEF Budget!AgreementGrounded, BudgetInv, GroundInv
<1>2. BudgetInv => AgreementGrounded
  BY <1>1 DEF AgreementGrounded
<1> QED BY <1>2, BudgetInvariant, PTL

-----------------------------------------------------------------------------
(***************************************************************************)
(* The legacy controller's reviews.  Jobs of the registry, turns of the    *)
(* engine.                                                                 *)
(***************************************************************************)
Open == {"queued", "running", "uncertain"}
Closed == {"failed", "cancelled", "succeeded", "not_sent"}
ReviewJob == [rev : Nat, cancel : BOOLEAN,
              status : Open \cup Closed]
Statuses == {"pending", "uncertain", "completed", "failed", "not_sent"}
Outs == Legacy!Replies \cup {"auth", None}
ReviewTurn == [job : Nat, rev : Nat, status : Statuses, out : Outs,
               reply : Legacy!Replies \cup {None}, finding : BOOLEAN, delivered : BOOLEAN]

LegacyTypes ==
    /\ lrev \in Nat /\ watermark \in Nat
    /\ asked \in Seq(ReviewTurn) /\ job \in Seq(ReviewJob)
    /\ sup \in {"gone", "spawned", "running"}
    /\ ex \in {"gone", "start", "ask", "child", "saved", "exit", "dead"}
    /\ claude \in BOOLEAN

\* A turn that does not count never reached the model; what the engine holds
\* for its reply is the reply.
Faithful(x) ==
    /\ x.status = "not_sent" => x.out = "auth"
    /\ x.status = "pending" => x.out = None
    /\ x.status = "completed" => x.out \in Legacy!Replies
    /\ x.out = "auth" => ~x.delivered
    /\ x.out \in Legacy!Replies => x.out = x.reply
    /\ x.reply # None => x.delivered
TurnsInv == \A t \in DOMAIN asked : Faithful(asked[t])

\* Only the last job may be open, and only an open one has processes; what they
\* work on is the last turn.
Newest == asked[Len(asked)]
ProcessInv ==
    /\ \A j \in DOMAIN job : j # Len(job) => job[j].status \notin Open
    /\ sup # "gone" => job # <<>> /\ job[Len(job)].status \in Legacy!ACTIVE
    /\ sup = "spawned" => ex = "gone" /\ ~claude
    /\ ex # "gone" \/ claude => job # <<>> /\ job[Len(job)].status \in Open
    /\ claude => ex \in {"child", "dead", "gone"}
    /\ ex \in {"ask", "child"} \/ claude => asked # <<>> /\ Newest.status = "pending"
    /\ ex = "saved" => asked # <<>> /\ Newest.status # "not_sent" /\ Newest.out \in Legacy!Replies

\* A job under way has found room for its turn.
RoundInv ==
    /\ Legacy!used <= MAX_REVIEW_TURNS
    /\ ex = "start" \/ sup = "spawned" => Legacy!used < MAX_REVIEW_TURNS

LegacyInv == LegacyTypes /\ TurnsInv /\ ProcessInv /\ RoundInv

\* The turns that count in this round, of which there are finitely many.
Counts == {t \in DOMAIN asked : t > watermark /\ asked[t].status # "not_sent"}

\* The turns that count are finitely many, and no more than were asked.
LEMMA UsedType ==
    ASSUME LegacyTypes
    PROVE  /\ DOMAIN asked = 1 .. Len(asked) /\ Len(asked) \in Nat
           /\ IsFiniteSet(Counts) /\ Legacy!used = Cardinality(Counts) /\ Cardinality(Counts) \in Nat
<1>1. DOMAIN asked = 1 .. Len(asked) /\ Len(asked) \in Nat
  BY LenProperties DEF LegacyTypes
<1>2. IsFiniteSet(1 .. Len(asked))
  BY <1>1, FS_Interval
<1>3. Counts \subseteq 1 .. Len(asked)
  BY <1>1 DEF Counts
<1>4. IsFiniteSet(Counts)
  BY <1>2, <1>3, FS_Subset
<1>5. Legacy!used = Cardinality(Counts)
  BY DEF Legacy!used, Legacy!Cardinality, Cardinality, Counts
<1> QED BY <1>1, <1>4, <1>5, FS_CardinalityType

\* An operation of the controller finds no job open, and nothing of one at work.
LEMMA NothingOpen ==
    ASSUME LegacyTypes, ProcessInv,
           \A j \in DOMAIN job : Legacy!_refresh[j].status \notin Legacy!ACTIVE \cup {"uncertain"}
    PROVE  /\ \A j \in DOMAIN job : job[j].status \notin Open
           /\ sup = "gone" /\ ex = "gone" /\ ~claude
<1>1. ASSUME NEW j \in DOMAIN job PROVE job[j].status \notin Open
  <2>1. job[j] \in ReviewJob
    BY DEF LegacyTypes
  <2>2. Legacy!_refresh[j].status \in {job[j].status, "uncertain"}
    BY <2>1 DEF Legacy!_refresh, ReviewJob
  <2>3. job[j].status \in Legacy!ACTIVE => Legacy!_refresh[j].status \in Legacy!ACTIVE \cup {"uncertain"}
    BY <2>2 DEF Legacy!ACTIVE
  <2>4. job[j].status = "uncertain" => Legacy!_refresh[j].status = "uncertain"
    BY <2>2
  <2> QED BY <2>3, <2>4 DEF Open, Legacy!ACTIVE
<1>2. job # <<>> => Len(job) \in DOMAIN job
  BY LenProperties, EmptySeq DEF LegacyTypes
<1> QED BY <1>1, <1>2 DEF ProcessInv, LegacyTypes, Open, Legacy!ACTIVE

\* The last turn reaches a status, the others stay.
LEMMA ReachedTurn ==
    ASSUME LegacyTypes, asked # <<>>, NEW status \in Statuses, NEW out \in Outs, Legacy!Reached(status, out)
    PROVE  /\ asked' \in Seq(ReviewTurn) /\ Len(asked') = Len(asked)
           /\ Len(asked) \in DOMAIN asked /\ DOMAIN asked' = DOMAIN asked
           /\ \A t \in DOMAIN asked : t # Len(asked) => asked'[t] = asked[t]
           /\ Newest'.status = status /\ Newest'.out = out
           /\ Newest'.reply = Newest.reply /\ Newest'.delivered = Newest.delivered
<1>1. Len(asked) \in DOMAIN asked /\ asked \in Seq(ReviewTurn)
  BY LenProperties, EmptySeq DEF LegacyTypes
<1>2. asked[Len(asked)] \in ReviewTurn
  BY <1>1
<1>3. PICK x : x = [asked[Len(asked)] EXCEPT !.status = status, !.out = out]
  OBVIOUS
<1>4. /\ x \in ReviewTurn /\ x.status = status /\ x.out = out
      /\ x.reply = asked[Len(asked)].reply /\ x.delivered = asked[Len(asked)].delivered
  BY <1>2, <1>3 DEF ReviewTurn
<1>5. asked' = [asked EXCEPT ![Len(asked)] = x]
  BY <1>1, <1>3 DEF Legacy!Reached, Legacy!Turn
<1>6. asked' \in Seq(ReviewTurn) /\ Len(asked') = Len(asked) /\ DOMAIN asked' = DOMAIN asked
  BY <1>1, <1>4, <1>5, ExceptSeq
<1>7. asked'[Len(asked)] = x /\ \A t \in DOMAIN asked : t # Len(asked) => asked'[t] = asked[t]
  BY <1>1, <1>5
<1> QED BY <1>1, <1>4, <1>6, <1>7 DEF Newest

-----------------------------------------------------------------------------
(***************************************************************************)
(* Each step changes the turns in one of a few ways.                       *)
(***************************************************************************)
\* The turns are rewritten in place; none starts to count, none stops being faithful.
Reworked ==
    /\ asked' \in Seq(ReviewTurn) /\ DOMAIN asked' = DOMAIN asked /\ Len(asked') = Len(asked)
    /\ \A t \in DOMAIN asked :
          /\ asked[t].status = "not_sent" => asked'[t].status = "not_sent"
          /\ Faithful(asked'[t])

\* Turns that are reworked count no more than before.
LEMMA ReworkedUsed ==
    ASSUME LegacyTypes, Reworked, watermark' = watermark
    PROVE  TurnsInv' /\ Legacy!used \in Nat /\ Legacy!used' \in Nat /\ Legacy!used' <= Legacy!used
<1>1. TurnsInv'
  BY DEF TurnsInv, Reworked
<1>2. Counts' \subseteq Counts
  BY DEF Counts, Reworked
<1>3. IsFiniteSet(Counts) /\ Legacy!used = Cardinality(Counts) /\ Cardinality(Counts) \in Nat
  BY UsedType
<1>5. Legacy!used' = Cardinality(Counts')
  BY DEF Legacy!used, Legacy!Cardinality, Cardinality, Counts
<1>4. Legacy!used' <= Legacy!used
  BY <1>2, <1>3, <1>5, FS_Subset
<1>6. Cardinality(Counts') \in Nat
  BY <1>2, <1>3, FS_Subset, FS_CardinalityType
<1> QED BY <1>1, <1>3, <1>4, <1>5, <1>6

\* A turn is asked: it counts, and what was pending is uncertain from now on.
LEMMA Asked ==
    ASSUME LegacyTypes, TurnsInv, job # <<>>, Legacy!ask
    PROVE  /\ asked' \in Seq(ReviewTurn) /\ TurnsInv' /\ asked' # <<>> /\ Newest'.status = "pending"
           /\ Legacy!used' <= Legacy!used + 1
<1> DEFINE n == Len(asked)
           old == [t \in DOMAIN asked |-> IF asked[t].status = "pending"
                                          THEN [asked[t] EXCEPT !.status = "uncertain"] ELSE asked[t]]
           new == [job |-> Len(job), rev |-> lrev, status |-> "pending", out |-> None,
                   reply |-> None, finding |-> FALSE, delivered |-> FALSE]
<1>1. /\ DOMAIN asked = 1 .. n /\ n \in Nat /\ asked \in Seq(ReviewTurn)
      /\ \A t \in DOMAIN asked : asked[t] \in ReviewTurn
  BY UsedType DEF LegacyTypes
<1>2. ASSUME NEW t \in DOMAIN asked
      PROVE  /\ old[t] \in ReviewTurn /\ Faithful(old[t])
             /\ old[t].status = "not_sent" <=> asked[t].status = "not_sent"
  <2>1. asked[t] \in ReviewTurn /\ Faithful(asked[t])
    BY <1>1 DEF TurnsInv
  <2>2. PICK x : x = [asked[t] EXCEPT !.status = "uncertain"]
    OBVIOUS
  <2>3. /\ x \in ReviewTurn /\ x.status = "uncertain" /\ x.out = asked[t].out
        /\ x.reply = asked[t].reply /\ x.delivered = asked[t].delivered
    BY <2>1, <2>2 DEF ReviewTurn, Statuses
  <2>4. old[t] = IF asked[t].status = "pending" THEN x ELSE asked[t]
    BY <2>2
  <2> HIDE DEF old
  <2> QED BY <2>1, <2>3, <2>4 DEF Faithful
<1>3. old \in Seq(ReviewTurn) /\ Len(old) = n
  <2>1. old \in [1 .. n -> ReviewTurn]
    BY <1>1, <1>2
  <2> HIDE DEF old
  <2> QED BY <1>1, <2>1, IsASeq, LenProperties
<1>4. /\ new \in ReviewTurn /\ Faithful(new) /\ new.status = "pending"
  <2>1. Len(job) \in Nat
    BY LenProperties DEF LegacyTypes
  <2> QED BY <2>1, LegacyBounds DEF LegacyTypes, ReviewTurn, Statuses, Outs, Faithful, Legacy!Replies
<1>5. asked' = Append(old, new)
  BY DEF Legacy!ask, Legacy!Last
<1> HIDE DEF old, new
<1>6. /\ asked' \in Seq(ReviewTurn) /\ Len(asked') = n + 1
      /\ \A t \in 1 .. n : asked'[t] = old[t]
      /\ asked'[n + 1] = new
  BY <1>3, <1>4, <1>5, AppendProperties
<1>7. DOMAIN asked' = 1 .. n + 1
  BY <1>6, LenProperties
<1>8. TurnsInv'
  BY <1>1, <1>2, <1>4, <1>6, <1>7 DEF TurnsInv
<1>9. asked' # <<>> /\ Newest'.status = "pending"
  BY <1>1, <1>4, <1>6, EmptySeq DEF Newest
<1>10. Legacy!used' <= Legacy!used + 1
  <2>1. watermark' = watermark
    BY DEF Legacy!ask
  <2>2. Counts' \subseteq Counts \cup {n + 1}
    BY <1>1, <1>2, <1>6, <1>7, <2>1 DEF Counts
  <2>3. /\ IsFiniteSet(Counts) /\ Legacy!used = Cardinality(Counts) /\ Cardinality(Counts) \in Nat
    BY UsedType
  <2>4. Legacy!used' = Cardinality(Counts')
    BY DEF Legacy!used, Legacy!Cardinality, Cardinality, Counts
  <2>7. n + 1 \notin Counts
    BY <1>1 DEF Counts
  <2>5. IsFiniteSet(Counts \cup {n + 1}) /\ Cardinality(Counts \cup {n + 1}) = Cardinality(Counts) + 1
    BY <2>3, <2>7, FS_AddElement
  <2>6. Cardinality(Counts') <= Cardinality(Counts \cup {n + 1})
    BY <2>2, <2>5, FS_Subset
  <2> QED BY <2>3, <2>4, <2>5, <2>6
<1> QED BY <1>6, <1>8, <1>9, <1>10

\* The turns stay as they are.
LEMMA TurnsStay ==
    ASSUME LegacyTypes, TurnsInv, asked' = asked, watermark' = watermark
    PROVE  TurnsInv' /\ Legacy!used' = Legacy!used
BY DEF TurnsInv, Legacy!used

\* A job's row is rewritten, the others stay.
LEMMA JobRewritten ==
    ASSUME LegacyTypes, NEW j \in DOMAIN job, NEW row \in ReviewJob, job' = [job EXCEPT ![j] = row]
    PROVE  /\ job' \in Seq(ReviewJob) /\ DOMAIN job' = DOMAIN job /\ Len(job') = Len(job)
           /\ Len(job) \in DOMAIN job /\ job # <<>> /\ job' # <<>>
           /\ job'[j] = row /\ \A k \in DOMAIN job : k # j => job'[k] = job[k]
<1>1. job \in Seq(ReviewJob) /\ DOMAIN job = 1 .. Len(job) /\ Len(job) \in Nat
  BY LenProperties DEF LegacyTypes
<1>2. job' \in Seq(ReviewJob) /\ DOMAIN job' = DOMAIN job /\ Len(job') = Len(job)
  BY <1>1, ExceptSeq
<1>3. job'[j] = row /\ \A k \in DOMAIN job : k # j => job'[k] = job[k]
  BY <1>1
<1>4. Len(job) \in DOMAIN job /\ Len(job) # 0
  BY <1>1
<1> QED BY <1>1, <1>2, <1>3, <1>4, EmptySeq

\* The last transaction of a supervisor.
LEMMA Finished ==
    ASSUME LegacyTypes, job # <<>>, NEW status \in Open \cup Closed, Legacy!Finish(status)
    PROVE  /\ job' \in Seq(ReviewJob) /\ DOMAIN job' = DOMAIN job /\ Len(job') = Len(job) /\ sup' = "gone"
           /\ job' # <<>> /\ job'[Len(job)].status \in {status, "uncertain"}
           /\ \A k \in DOMAIN job : k # Len(job) => job'[k] = job[k]
<1> DEFINE n == Len(job)
           final == IF job[n].cancel /\ status \notin {"succeeded", "cancelled"} THEN "uncertain" ELSE status
<1>1. n \in DOMAIN job /\ job[n] \in ReviewJob
  BY LenProperties, EmptySeq DEF LegacyTypes
<1>2. sup' = "gone" /\ job' = [job EXCEPT ![n].status = final]
  BY DEF Legacy!Finish, Legacy!Last
<1>3. final \in {status, "uncertain"}
  OBVIOUS
<1> HIDE DEF final
<1>4. PICK row : row = [job[n] EXCEPT !.status = final]
  OBVIOUS
<1>5. row \in ReviewJob /\ row.status = final
  BY <1>1, <1>3, <1>4 DEF ReviewJob, Open
<1>6. job' = [job EXCEPT ![n] = row]
  BY <1>1, <1>2, <1>4
<1> QED BY <1>1, <1>2, <1>3, <1>5, <1>6, JobRewritten

-----------------------------------------------------------------------------
(***************************************************************************)
(* The operations of the controller.                                       *)
(***************************************************************************)
\* What the operations do that write no review.
LEMMA IdleStep ==
    ASSUME LegacyInv, Legacy!Idle, UNCHANGED <<asked, job>>, lrev' \in Nat,
           watermark' = watermark \/ watermark' = Len(asked)
    PROVE  LegacyInv'
<1>1. UNCHANGED <<sup, ex, claude>> /\ sup = "gone" /\ ex = "gone" /\ ~claude
  BY NothingOpen DEF Legacy!Idle, Legacy!processes, LegacyInv
<1>2. /\ DOMAIN asked = 1 .. Len(asked) /\ Len(asked) \in Nat /\ IsFiniteSet(Counts)
      /\ Legacy!used = Cardinality(Counts)
  BY UsedType DEF LegacyInv
<1>3. LegacyTypes'
  BY <1>1, <1>2 DEF LegacyInv, LegacyTypes
<1>4. TurnsInv' /\ ProcessInv'
  BY <1>1 DEF LegacyInv, TurnsInv, ProcessInv, Newest
<1>5. Counts' \subseteq Counts
  BY <1>2 DEF Counts, LegacyInv, LegacyTypes
<1>6. Legacy!used' = Cardinality(Counts')
  BY DEF Legacy!used, Legacy!Cardinality, Cardinality, Counts
<1>7. RoundInv'
  BY <1>1, <1>2, <1>5, <1>6, FS_Subset, UsedType, FS_CardinalityType, LegacyBounds DEF RoundInv, LegacyInv
<1> QED BY <1>3, <1>4, <1>7 DEF LegacyInv

\* A review is submitted when no other is open and the round has room for it.
LEMMA SubmitStep ==
    ASSUME LegacyInv, NEW how \in {"ok", "failed", "crash"}, Legacy!room_review_submit(how)
    PROVE  LegacyInv'
<1> DEFINE n == Len(job)
           row == [rev |-> lrev, cancel |-> FALSE, status |-> IF how = "failed" THEN "failed" ELSE "queued"]
<1>1. /\ \A j \in DOMAIN job : job[j].status \notin Open
      /\ sup = "gone" /\ ex = "gone" /\ ~claude
  BY NothingOpen DEF Legacy!room_review_submit, LegacyInv
<1>2. /\ job' = Append(job, row) /\ sup' = (IF how = "ok" THEN "spawned" ELSE "gone")
      /\ Legacy!used < MAX_REVIEW_TURNS
      /\ UNCHANGED <<asked, watermark, lrev, ex, claude>>
  <2>1. ~Legacy!user_decision_required
    BY DEF Legacy!room_review_submit
  <2>2. Legacy!used \in Nat /\ MAX_REVIEW_TURNS \in Nat
    BY UsedType, LegacyBounds DEF LegacyInv
  <2> QED BY <2>1, <2>2 DEF Legacy!room_review_submit, Legacy!engine, Legacy!user_decision_required
<1>3. row \in ReviewJob /\ (how = "ok" => row.status = "queued")
  BY DEF LegacyInv, LegacyTypes, ReviewJob, Open, Closed
<1>4. job \in Seq(ReviewJob) /\ n \in Nat /\ DOMAIN job = 1 .. n
  BY LenProperties DEF LegacyInv, LegacyTypes
<1> HIDE DEF row
<1>5. /\ job' \in Seq(ReviewJob) /\ Len(job') = n + 1 /\ DOMAIN job' = 1 .. n + 1
      /\ \A k \in 1 .. n : job'[k] = job[k]
      /\ job'[n + 1] = row
  BY <1>2, <1>3, <1>4, AppendProperties, LenProperties
<1>6. LegacyTypes'
  BY <1>2, <1>5 DEF LegacyInv, LegacyTypes
<1>7. TurnsInv' /\ Legacy!used' = Legacy!used
  BY <1>2, TurnsStay DEF LegacyInv
<1>8. ProcessInv'
  BY <1>1, <1>2, <1>3, <1>4, <1>5, EmptySeq DEF ProcessInv, Legacy!ACTIVE
<1>9. RoundInv'
  BY <1>1, <1>2, <1>7 DEF RoundInv, LegacyInv
<1> QED BY <1>6, <1>7, <1>8, <1>9 DEF LegacyInv

\* A failed review that never reached the model stops counting.
LEMMA RecoverStep ==
    ASSUME LegacyInv, NEW j \in DOMAIN job, NEW crash \in BOOLEAN, Legacy!room_job_recover(j, crash)
    PROVE  LegacyInv'
<1>1. /\ \A k \in DOMAIN job : job[k].status \notin Open
      /\ sup = "gone" /\ ex = "gone" /\ ~claude
  BY NothingOpen DEF Legacy!room_job_recover, LegacyInv
<1>2. PICK t \in DOMAIN asked : Legacy!recover_not_sent(t) /\ asked' = [asked EXCEPT ![t].status = "not_sent"]
  BY DEF Legacy!room_job_recover, Legacy!TurnOf
<1>3. /\ job' = IF crash THEN job ELSE [job EXCEPT ![j].status = "not_sent"]
      /\ UNCHANGED <<lrev, watermark, sup, ex, claude>>
  BY DEF Legacy!room_job_recover, Legacy!processes
<1>4. Reworked
  <2>1. asked[t] \in ReviewTurn /\ Faithful(asked[t]) /\ asked[t].out = "auth"
    BY <1>2 DEF LegacyInv, LegacyTypes, TurnsInv, Legacy!recover_not_sent
  <2>2. PICK x : x = [asked[t] EXCEPT !.status = "not_sent"]
    OBVIOUS
  <2>3. /\ x \in ReviewTurn /\ x.status = "not_sent" /\ x.out = asked[t].out
        /\ x.reply = asked[t].reply /\ x.delivered = asked[t].delivered
    BY <2>1, <2>2 DEF ReviewTurn, Statuses
  <2>4. Faithful(x)
    BY <2>1, <2>3 DEF Faithful
  <2>5. asked \in Seq(ReviewTurn) /\ asked' = [asked EXCEPT ![t] = x]
    BY <1>2, <2>2 DEF LegacyInv, LegacyTypes
  <2>6. asked' \in Seq(ReviewTurn) /\ DOMAIN asked' = DOMAIN asked /\ Len(asked') = Len(asked)
    BY <2>3, <2>5, ExceptSeq
  <2>7. asked'[t] = x /\ \A k \in DOMAIN asked : k # t => asked'[k] = asked[k]
    BY <2>5
  <2> QED BY <2>3, <2>4, <2>6, <2>7 DEF Reworked, LegacyInv, TurnsInv
<1>5. job' \in Seq(ReviewJob) /\ Len(job') = Len(job) /\ DOMAIN job' = DOMAIN job
      /\ \A k \in DOMAIN job : job'[k].status \notin Open
  <2>1. job[j] \in ReviewJob
    BY DEF LegacyInv, LegacyTypes
  <2>2. PICK row : row = [job[j] EXCEPT !.status = "not_sent"]
    OBVIOUS
  <2>3. row \in ReviewJob /\ row.status = "not_sent"
    BY <2>1, <2>2 DEF ReviewJob, Closed
  <2>4. CASE crash
    BY <1>1, <1>3, <2>4 DEF LegacyInv, LegacyTypes
  <2>5. CASE ~crash
    <3>1. job' = [job EXCEPT ![j] = row]
      BY <1>3, <2>2, <2>5
    <3>2. /\ job' \in Seq(ReviewJob) /\ DOMAIN job' = DOMAIN job /\ Len(job') = Len(job)
          /\ job'[j] = row /\ \A k \in DOMAIN job : k # j => job'[k] = job[k]
      BY <2>3, <3>1, JobRewritten DEF LegacyInv
    <3> QED BY <1>1, <2>3, <3>2 DEF Open
  <2> QED BY <2>4, <2>5
<1>6. LegacyTypes'
  BY <1>3, <1>4, <1>5 DEF LegacyInv, LegacyTypes, Reworked
<1>7. TurnsInv' /\ Legacy!used \in Nat /\ Legacy!used' \in Nat /\ Legacy!used' <= Legacy!used
  BY <1>3, <1>4, ReworkedUsed DEF LegacyInv
<1>8. ProcessInv'
  BY <1>1, <1>3, <1>5 DEF ProcessInv
<1>9. RoundInv'
  BY <1>1, <1>3, <1>7, LegacyBounds DEF RoundInv, LegacyInv
<1> QED BY <1>6, <1>7, <1>8, <1>9 DEF LegacyInv

\* A cancellation is noted, a job without its supervisor becomes uncertain.
LEMMA RowStep ==
    ASSUME LegacyInv, (\E j \in DOMAIN job : Legacy!room_job_cancel(j)) \/ Legacy!Refresh
    PROVE  LegacyInv'
<1>1. UNCHANGED <<asked, watermark, lrev, sup, ex, claude>>
  BY DEF Legacy!room_job_cancel, Legacy!Refresh, Legacy!engine, Legacy!processes
<1>2. /\ job' \in Seq(ReviewJob) /\ Len(job') = Len(job) /\ DOMAIN job' = DOMAIN job
      /\ \A k \in DOMAIN job : job'[k].status = job[k].status
                               \/ (job'[k].status = "uncertain" /\ job[k].status \in Legacy!ACTIVE /\ sup = "gone")
  <2>1. ASSUME NEW j \in DOMAIN job, Legacy!room_job_cancel(j)
        PROVE  /\ job' \in Seq(ReviewJob) /\ Len(job') = Len(job) /\ DOMAIN job' = DOMAIN job
               /\ \A k \in DOMAIN job : job'[k].status = job[k].status
    <3>1. job[j] \in ReviewJob
      BY DEF LegacyInv, LegacyTypes
    <3>2. PICK row : row = [job[j] EXCEPT !.cancel = TRUE]
      OBVIOUS
    <3>3. row \in ReviewJob /\ row.status = job[j].status
      BY <3>1, <3>2 DEF ReviewJob
    <3>4. job' = [job EXCEPT ![j] = row]
      BY <2>1, <3>2 DEF Legacy!room_job_cancel
    <3>5. /\ job' \in Seq(ReviewJob) /\ DOMAIN job' = DOMAIN job /\ Len(job') = Len(job)
          /\ job'[j] = row /\ \A k \in DOMAIN job : k # j => job'[k] = job[k]
      BY <3>3, <3>4, JobRewritten DEF LegacyInv
    <3> QED BY <3>3, <3>5
  <2>2. ASSUME Legacy!Refresh
        PROVE  /\ job' \in Seq(ReviewJob) /\ Len(job') = Len(job) /\ DOMAIN job' = DOMAIN job
               /\ \A k \in DOMAIN job : job'[k].status = job[k].status
                     \/ (job'[k].status = "uncertain" /\ job[k].status \in Legacy!ACTIVE /\ sup = "gone")
    <3>1. job \in Seq(ReviewJob) /\ Len(job) \in Nat /\ DOMAIN job = 1 .. Len(job)
      BY LenProperties DEF LegacyInv, LegacyTypes
    <3>2. job' = [k \in 1 .. Len(job) |-> IF job[k].status \in Legacy!ACTIVE /\ sup = "gone"
                                          THEN [job[k] EXCEPT !.status = "uncertain"] ELSE job[k]]
      BY <2>2, <3>1 DEF Legacy!Refresh, Legacy!_refresh
    <3>3. ASSUME NEW k \in DOMAIN job
          PROVE  /\ job'[k] \in ReviewJob
                 /\ job'[k].status = job[k].status
                    \/ (job'[k].status = "uncertain" /\ job[k].status \in Legacy!ACTIVE /\ sup = "gone")
      <4>1. job[k] \in ReviewJob
        BY <3>1
      <4>2. PICK row : row = [job[k] EXCEPT !.status = "uncertain"]
        OBVIOUS
      <4>3. row \in ReviewJob /\ row.status = "uncertain"
        BY <4>1, <4>2 DEF ReviewJob, Open
      <4>4. job'[k] = IF job[k].status \in Legacy!ACTIVE /\ sup = "gone" THEN row ELSE job[k]
        BY <3>1, <3>2, <4>2
      <4> QED BY <4>1, <4>3, <4>4
    <3>4. job' \in [1 .. Len(job) -> ReviewJob]
      BY <3>1, <3>2, <3>3
    <3>5. job' \in Seq(ReviewJob) /\ Len(job') = Len(job)
      BY <3>1, <3>4, IsASeq, LenProperties
    <3> QED BY <3>1, <3>3, <3>4, <3>5
  <2> QED BY <2>1, <2>2
<1>3. LegacyTypes'
  BY <1>1, <1>2 DEF LegacyInv, LegacyTypes
<1>4. TurnsInv' /\ Legacy!used' = Legacy!used
  BY <1>1, TurnsStay DEF LegacyInv
<1>5. job # <<>> => job' # <<>> /\ Len(job) \in DOMAIN job
  BY <1>2, LenProperties, EmptySeq DEF LegacyInv, LegacyTypes
<1>6. ProcessInv'
  BY <1>1, <1>2, <1>5 DEF ProcessInv, Newest, LegacyInv, Open, Legacy!ACTIVE
<1>7. RoundInv'
  BY <1>1, <1>4 DEF RoundInv, LegacyInv
<1> QED BY <1>3, <1>4, <1>6, <1>7 DEF LegacyInv

-----------------------------------------------------------------------------
(***************************************************************************)
(* The supervisor, its executor and the model.                             *)
(***************************************************************************)
\* The supervisor takes its job, or settles it when it was cancelled.
LEMMA WorkerStart ==
    ASSUME LegacyInv, Legacy!worker_start
    PROVE  LegacyInv'
<1>1. /\ sup = "spawned" /\ ex = "gone" /\ ~claude /\ job # <<>> /\ Len(job) \in DOMAIN job
      /\ UNCHANGED <<asked, watermark, lrev, claude>>
  BY LenProperties, EmptySeq DEF Legacy!worker_start, Legacy!engine, LegacyInv, LegacyTypes, ProcessInv
<1>2. TurnsInv' /\ Legacy!used' = Legacy!used
  BY <1>1, TurnsStay DEF LegacyInv
<1>3. CASE job[Len(job)].cancel
  <2>1. Legacy!Finish("cancelled") /\ ex' = ex
    BY <1>3 DEF Legacy!worker_start, Legacy!Last
  <2>2. "cancelled" \in Open \cup Closed
    BY DEF Closed
  <2>3. /\ job' \in Seq(ReviewJob) /\ DOMAIN job' = DOMAIN job /\ Len(job') = Len(job) /\ sup' = "gone"
        /\ \A k \in DOMAIN job : k # Len(job) => job'[k] = job[k]
    BY <1>1, <2>1, <2>2, Finished DEF LegacyInv
  <2>4. LegacyTypes'
    BY <1>1, <2>1, <2>3 DEF LegacyInv, LegacyTypes
  <2>5. ProcessInv'
    BY <1>1, <2>1, <2>3 DEF ProcessInv, LegacyInv
  <2>6. RoundInv'
    BY <1>1, <1>2, <2>1, <2>3 DEF RoundInv, LegacyInv
  <2> QED BY <1>2, <2>4, <2>5, <2>6 DEF LegacyInv
<1>4. CASE ~job[Len(job)].cancel
  <2>1. sup' = "running" /\ ex' = "start" /\ job' = [job EXCEPT ![Len(job)].status = "running"]
    BY <1>4 DEF Legacy!worker_start, Legacy!Last
  <2>2. PICK row : row = [job[Len(job)] EXCEPT !.status = "running"]
    OBVIOUS
  <2>9. job[Len(job)] \in ReviewJob
    BY <1>1 DEF LegacyInv, LegacyTypes
  <2>3. row \in ReviewJob /\ row.status = "running"
    BY <2>2, <2>9 DEF ReviewJob, Open
  <2>4. job' = [job EXCEPT ![Len(job)] = row]
    BY <2>1, <2>2
  <2>5. /\ job' \in Seq(ReviewJob) /\ DOMAIN job' = DOMAIN job /\ Len(job') = Len(job) /\ job' # <<>>
        /\ job'[Len(job)] = row /\ \A k \in DOMAIN job : k # Len(job) => job'[k] = job[k]
    BY <1>1, <2>3, <2>4, JobRewritten DEF LegacyInv
  <2>6. LegacyTypes'
    BY <1>1, <2>1, <2>5 DEF LegacyInv, LegacyTypes
  <2>7. ProcessInv'
    BY <1>1, <2>1, <2>3, <2>5 DEF ProcessInv, LegacyInv, Open, Legacy!ACTIVE
  <2>8. RoundInv'
    BY <1>1, <1>2, <2>1 DEF RoundInv, LegacyInv
  <2> QED BY <1>2, <2>6, <2>7, <2>8 DEF LegacyInv
<1> QED BY <1>3, <1>4

\* The supervisor settles its job once the executor has ended.
LEMMA WorkerFinish ==
    ASSUME LegacyInv, Legacy!worker_finish
    PROVE  LegacyInv'
<1>1. PICK killed \in BOOLEAN :
         Legacy!Finish(IF ex = "dead" THEN "uncertain" ELSE IF killed THEN "failed" ELSE Legacy!Phase)
  BY DEF Legacy!worker_finish
<1> DEFINE status == IF ex = "dead" THEN "uncertain" ELSE IF killed THEN "failed" ELSE Legacy!Phase
<1>2. /\ sup = "running" /\ ex \in {"exit", "dead"} /\ ex' = "gone" /\ job # <<>> /\ Len(job) \in DOMAIN job
      /\ UNCHANGED <<asked, watermark, lrev, claude>>
  BY LenProperties, EmptySeq DEF Legacy!worker_finish, Legacy!engine, LegacyInv, LegacyTypes, ProcessInv
<1>3. Legacy!Phase \in {"succeeded", "failed", "uncertain"}
  BY DEF Legacy!Phase
<1>4. status \in Open \cup Closed /\ (ex = "dead" => status = "uncertain")
  BY <1>3 DEF Open, Closed
<1>5. Legacy!Finish(status)
  BY <1>1
<1> HIDE DEF status
<1>6. /\ job' \in Seq(ReviewJob) /\ DOMAIN job' = DOMAIN job /\ Len(job') = Len(job) /\ sup' = "gone"
      /\ job' # <<>> /\ job'[Len(job)].status \in {status, "uncertain"}
      /\ \A k \in DOMAIN job : k # Len(job) => job'[k] = job[k]
  BY <1>2, <1>4, <1>5, Finished DEF LegacyInv
<1>7. LegacyTypes'
  BY <1>2, <1>6 DEF LegacyInv, LegacyTypes
<1>8. TurnsInv' /\ Legacy!used' = Legacy!used
  BY <1>2, TurnsStay DEF LegacyInv
<1>9. ProcessInv'
  BY <1>2, <1>4, <1>6 DEF ProcessInv, LegacyInv, Open, Newest
<1>10. RoundInv'
  BY <1>2, <1>6, <1>8 DEF RoundInv, LegacyInv
<1> QED BY <1>7, <1>8, <1>9, <1>10 DEF LegacyInv

\* The turn is committed, in the room the submission found.
LEMMA AskStep ==
    ASSUME LegacyInv, Legacy!ask
    PROVE  LegacyInv'
<1>1. /\ ex = "start" /\ ex' = "ask" /\ job # <<>> /\ ~claude /\ sup # "spawned"
      /\ UNCHANGED <<lrev, watermark, job, sup, claude>>
  BY DEF Legacy!ask, LegacyInv, ProcessInv
<1>2. /\ asked' \in Seq(ReviewTurn) /\ TurnsInv' /\ asked' # <<>> /\ Newest'.status = "pending"
      /\ Legacy!used' <= Legacy!used + 1
  BY <1>1, Asked DEF LegacyInv
<1>3. LegacyTypes'
  BY <1>1, <1>2 DEF LegacyInv, LegacyTypes
<1>4. ProcessInv'
  BY <1>1, <1>2 DEF ProcessInv, LegacyInv
<1>5. Legacy!used \in Nat /\ Legacy!used' \in Nat /\ MAX_REVIEW_TURNS \in Nat
  <2>1. Counts' \subseteq 1 .. Len(asked') /\ Len(asked') \in Nat
    BY <1>2, LenProperties DEF Counts
  <2>2. Legacy!used' = Cardinality(Counts')
    BY DEF Legacy!used, Legacy!Cardinality, Cardinality, Counts
  <2>3. IsFiniteSet(1 .. Len(asked'))
    BY <2>1, FS_Interval
  <2>4. Cardinality(Counts') \in Nat
    BY <2>1, <2>3, FS_Subset, FS_CardinalityType
  <2>5. Legacy!used \in Nat
    BY UsedType DEF LegacyInv
  <2> QED BY <2>2, <2>4, <2>5, LegacyBounds
<1>6. RoundInv'
  BY <1>1, <1>2, <1>5 DEF RoundInv, LegacyInv
<1> QED BY <1>2, <1>3, <1>4, <1>6 DEF LegacyInv

\* A step on the last turn, by its executor or its model: what else holds of a
\* step that reaches a status.
LEMMA ReachedStep ==
    ASSUME LegacyInv, asked # <<>>, Newest.status # "not_sent",
           NEW status \in Statuses \ {"not_sent"}, NEW out \in Outs, Legacy!Reached(status, out),
           status = "pending" => out = None, status = "completed" => out \in Legacy!Replies,
           out = "auth" => ~Newest.delivered, out \in Legacy!Replies => out = Newest.reply,
           UNCHANGED <<lrev, watermark, job, sup>>,
           ex' \in {"exit", "saved"}, claude' = FALSE, ex # "gone",
           ex' = "saved" => out \in Legacy!Replies
    PROVE  LegacyInv'
<1>1. /\ asked' \in Seq(ReviewTurn) /\ Len(asked') = Len(asked)
      /\ Len(asked) \in DOMAIN asked /\ DOMAIN asked' = DOMAIN asked
      /\ \A t \in DOMAIN asked : t # Len(asked) => asked'[t] = asked[t]
      /\ Newest'.status = status /\ Newest'.out = out
      /\ Newest'.reply = Newest.reply /\ Newest'.delivered = Newest.delivered
  BY ReachedTurn DEF LegacyInv
<1>2. Faithful(Newest)
  BY <1>1 DEF LegacyInv, TurnsInv, Newest
<1>3. Faithful(asked'[Len(asked)])
  BY <1>1, <1>2 DEF Faithful, Newest
<1>4. Reworked
  BY <1>1, <1>3 DEF Reworked, LegacyInv, TurnsInv, Newest
<1>5. TurnsInv' /\ Legacy!used \in Nat /\ Legacy!used' \in Nat /\ Legacy!used' <= Legacy!used
  BY <1>4, ReworkedUsed DEF LegacyInv
<1>6. LegacyTypes'
  BY <1>1 DEF LegacyInv, LegacyTypes
<1>7. asked' # <<>>
  BY <1>1, LenProperties, EmptySeq DEF LegacyInv, LegacyTypes
<1>8. ProcessInv'
  BY <1>1, <1>7 DEF LegacyInv, ProcessInv
<1>9. RoundInv'
  <2>1. ex' # "start" /\ sup # "spawned" /\ MAX_REVIEW_TURNS \in Nat
    BY LegacyBounds DEF LegacyInv, ProcessInv
  <2> QED BY <1>5, <2>1 DEF LegacyInv, RoundInv
<1> QED BY <1>5, <1>6, <1>8, <1>9 DEF LegacyInv

\* The model is started, or cannot be.
LEMMA PopenStep ==
    ASSUME LegacyInv, Legacy!Popen
    PROVE  LegacyInv'
<1>1. /\ ex = "ask" /\ asked # <<>> /\ Newest.status = "pending" /\ UNCHANGED <<lrev, watermark, job, sup>>
  BY DEF Legacy!Popen, LegacyInv, ProcessInv
<1>2. CASE claude' = TRUE /\ ex' = "child" /\ UNCHANGED asked
  <2>1. TurnsInv' /\ Legacy!used' = Legacy!used
    BY <1>1, <1>2, TurnsStay DEF LegacyInv
  <2>2. LegacyTypes' /\ ProcessInv'
    BY <1>1, <1>2 DEF LegacyInv, LegacyTypes, ProcessInv, Newest
  <2>3. RoundInv'
    BY <1>1, <1>2, <2>1 DEF LegacyInv, RoundInv
  <2> QED BY <2>1, <2>2, <2>3 DEF LegacyInv
<1>3. CASE claude' = FALSE /\ ex' = "exit" /\ Legacy!Reached("failed", None)
  <2>1. "failed" \in Statuses \ {"not_sent"} /\ None \in Outs /\ None # "auth" /\ None \notin Legacy!Replies
    BY LegacyBounds DEF Statuses, Outs, Legacy!Replies
  <2> QED BY <1>1, <1>3, <2>1, ReachedStep
<1> QED BY <1>2, <1>3 DEF Legacy!Popen

\* What the executor makes of the model's output.
LEMMA OutcomeStep ==
    ASSUME LegacyInv, Legacy!Outcome
    PROVE  LegacyInv'
<1>1. /\ ex = "child" /\ claude' = FALSE /\ asked # <<>> /\ Newest.status = "pending"
      /\ UNCHANGED <<lrev, watermark, job, sup>>
  BY DEF Legacy!Outcome, LegacyInv, ProcessInv
<1>2. PICK status \in {"completed", "failed", "uncertain"}, out \in {Newest.reply, "auth", None} :
         /\ Legacy!Reached(status, out)
         /\ ex' \in {"exit", "saved"} /\ (ex' = "saved" => out = Newest.reply /\ Newest.reply # None)
         /\ status = "completed" => out = Newest.reply /\ Newest.reply # None
         /\ out = "auth" => ~Newest.delivered
  <2>1. Newest.reply # "auth" /\ None # "auth"
    <3>1. Newest \in ReviewTurn
      BY <1>1, LenProperties, EmptySeq DEF Newest, LegacyInv, LegacyTypes
    <3> QED BY <3>1, LegacyBounds DEF ReviewTurn, Legacy!Replies
  <2>2. CASE Newest.reply # None /\ Legacy!Reached("completed", Newest.reply) /\ ex' = "exit"
    BY <2>1, <2>2
  <2>3. CASE Newest.reply # None /\ Legacy!Reached("failed", Newest.reply) /\ ex' = "saved"
    BY <2>1, <2>3
  <2>4. CASE ~Newest.delivered /\ Legacy!Reached("failed", "auth") /\ ex' = "exit"
    BY <2>4
  <2>5. CASE (Legacy!Reached("failed", None) \/ Legacy!Reached("uncertain", None)) /\ ex' = "exit"
    BY <2>1, <2>5
  <2> QED BY <2>2, <2>3, <2>4, <2>5 DEF Legacy!Outcome, Newest, Legacy!Turn
<1>3. Newest \in ReviewTurn
  BY <1>1, LenProperties, EmptySeq DEF Newest, LegacyInv, LegacyTypes
<1>4. /\ status \in Statuses \ {"not_sent"} /\ status # "pending" /\ out \in Outs
      /\ out \in Legacy!Replies => out = Newest.reply
      /\ Newest.reply # None => Newest.reply \in Legacy!Replies
  BY <1>3, LegacyBounds DEF ReviewTurn, Outs, Legacy!Replies, Statuses
<1> QED BY <1>1, <1>2, <1>4, ReachedStep

\* A reply that lacked its producer only is completed, by the executor or by the operator.
LEMMA Completed ==
    ASSUME LegacyInv, NEW t \in DOMAIN asked, asked[t].status # "not_sent", asked[t].out \in Legacy!Replies,
           Legacy!Reconciled(t), UNCHANGED <<lrev, watermark, job, sup, claude>>,
           ex' = ex \/ (ex = "saved" /\ ex' = "exit"), ex \notin {"ask", "child"}, ~claude \/ asked[t].status = "failed"
    PROVE  LegacyInv'
<1>1. asked[t] \in ReviewTurn /\ Faithful(asked[t]) /\ asked \in Seq(ReviewTurn)
  BY DEF LegacyInv, LegacyTypes, TurnsInv
<1>2. PICK x : x = [asked[t] EXCEPT !.status = "completed"]
  OBVIOUS
<1>3. /\ x \in ReviewTurn /\ x.status = "completed" /\ x.out = asked[t].out
      /\ x.reply = asked[t].reply /\ x.delivered = asked[t].delivered
  BY <1>1, <1>2 DEF ReviewTurn, Statuses
<1>4. asked' = [asked EXCEPT ![t] = x]
  BY <1>2 DEF Legacy!Reconciled
<1>5. asked' \in Seq(ReviewTurn) /\ DOMAIN asked' = DOMAIN asked /\ Len(asked') = Len(asked)
  BY <1>1, <1>3, <1>4, ExceptSeq
<1>6. asked'[t] = x /\ \A k \in DOMAIN asked : k # t => asked'[k] = asked[k]
  BY <1>1, <1>4
<1>7. Faithful(x)
  BY <1>1, <1>3 DEF Faithful
<1>8. Reworked
  BY <1>5, <1>6, <1>7 DEF Reworked, LegacyInv, TurnsInv
<1>9. TurnsInv' /\ Legacy!used \in Nat /\ Legacy!used' \in Nat /\ Legacy!used' <= Legacy!used
  BY <1>8, ReworkedUsed DEF LegacyInv
<1>10. LegacyTypes'
  BY <1>5 DEF LegacyInv, LegacyTypes
<1>11. asked # <<>> => asked' # <<>> /\ Len(asked) \in DOMAIN asked
  BY <1>5, LenProperties, EmptySeq DEF LegacyInv, LegacyTypes
<1>12. ProcessInv'
  <2>1. claude => t # Len(asked)
    BY DEF LegacyInv, ProcessInv, Newest
  <2>2. asked # <<>> /\ Newest.status # "not_sent" /\ Newest.out \in Legacy!Replies =>
           asked' # <<>> /\ Newest'.status # "not_sent" /\ Newest'.out \in Legacy!Replies
    BY <1>3, <1>5, <1>6, <1>11 DEF Newest
  <2>3. claude => Newest' = Newest
    BY <1>5, <1>6, <1>11, <2>1 DEF Newest, LegacyInv, ProcessInv
  <2> QED BY <1>11, <2>2, <2>3 DEF LegacyInv, ProcessInv
<1>13. RoundInv'
  BY <1>9, LegacyBounds DEF LegacyInv, RoundInv
<1> QED BY <1>9, <1>10, <1>12, <1>13 DEF LegacyInv

\* An uncertain turn is settled from what the engine holds, or its job from the turn.
LEMMA ReconcileStep ==
    ASSUME LegacyInv, Legacy!Reconcile \/ \E t \in DOMAIN asked : Legacy!reconcile(t)
    PROVE  LegacyInv'
<1>1. CASE Legacy!Reconcile
  <2>1. /\ ex = "saved" /\ ex' = "exit" /\ ~claude /\ sup # "spawned"
        /\ asked # <<>> /\ Newest.status # "not_sent" /\ Newest.out \in Legacy!Replies
        /\ UNCHANGED <<lrev, watermark, job, sup, claude>>
    BY <1>1 DEF Legacy!Reconcile, LegacyInv, ProcessInv
  <2>2. Len(asked) \in DOMAIN asked
    BY <2>1, LenProperties, EmptySeq DEF LegacyInv, LegacyTypes
  <2>3. CASE Legacy!Reconciled(Len(asked))
    BY <2>1, <2>2, <2>3, Completed DEF Newest
  <2>4. CASE UNCHANGED asked
    <3>1. TurnsInv' /\ Legacy!used' = Legacy!used
      BY <2>1, <2>4, TurnsStay DEF LegacyInv
    <3>2. LegacyTypes' /\ ProcessInv'
      BY <2>1, <2>4 DEF LegacyInv, LegacyTypes, ProcessInv, Newest
    <3>3. RoundInv'
      BY <2>1, <3>1 DEF LegacyInv, RoundInv
    <3> QED BY <3>1, <3>2, <3>3 DEF LegacyInv
  <2> QED BY <1>1, <2>3, <2>4 DEF Legacy!Reconcile, Legacy!Turn
<1>2. ASSUME NEW t \in DOMAIN asked, Legacy!reconcile(t) PROVE LegacyInv'
  <2>1. /\ asked[t].status = "failed" /\ asked[t].out \in Legacy!Replies /\ Legacy!Reconciled(t)
        /\ ex \notin {"ask", "child"} /\ UNCHANGED <<lrev, watermark, job, sup, claude, ex>>
    BY <1>2 DEF Legacy!reconcile, Legacy!processes
  <2> QED BY <2>1, Completed
<1> QED BY <1>1, <1>2

\* A terminated executor records its turn as uncertain while it waits for the model.
LEMMA CancelStep ==
    ASSUME LegacyInv, Legacy!Cancel
    PROVE  LegacyInv'
<1>1. UNCHANGED <<lrev, watermark, job, sup>> /\ sup = "running"
  BY DEF Legacy!Cancel
<1>2. CASE ex = "child"
  <2>1. Legacy!Reached("uncertain", None) /\ claude' = FALSE /\ ex' = "exit"
    BY <1>2 DEF Legacy!Cancel
  <2>2. asked # <<>> /\ Newest.status = "pending"
    BY <1>2 DEF LegacyInv, ProcessInv
  <2>3. "uncertain" \in Statuses \ {"not_sent"} /\ None \in Outs /\ None # "auth" /\ None \notin Legacy!Replies
    BY LegacyBounds DEF Statuses, Outs, Legacy!Replies
  <2> QED BY <1>1, <1>2, <2>1, <2>2, <2>3, ReachedStep
<1>3. CASE ex # "child"
  <2>1. ex \in {"start", "ask", "saved"} /\ ex' = "dead" /\ UNCHANGED <<asked, claude>>
    BY <1>3 DEF Legacy!Cancel
  <2>2. TurnsInv' /\ Legacy!used' = Legacy!used
    BY <1>1, <2>1, TurnsStay DEF LegacyInv
  <2>3. LegacyTypes' /\ ProcessInv'
    BY <1>1, <2>1 DEF LegacyInv, LegacyTypes, ProcessInv, Newest
  <2>4. RoundInv'
    BY <1>1, <2>1, <2>2 DEF LegacyInv, RoundInv
  <2> QED BY <2>2, <2>3, <2>4 DEF LegacyInv
<1> QED BY <1>2, <1>3

\* The model gets the prompt of the pending turn.
LEMMA ClaudeStep ==
    ASSUME LegacyInv, Legacy!Claude
    PROVE  LegacyInv'
<1>1. /\ claude /\ asked # <<>> /\ Newest.status = "pending"
      /\ UNCHANGED <<lrev, watermark, job, sup, ex, claude>>
  BY DEF Legacy!Claude, Legacy!processes, LegacyInv, ProcessInv
<1>2. PICK reply \in Legacy!Replies \cup {None}, finding \in BOOLEAN :
         asked' = [asked EXCEPT ![Len(asked)].delivered = TRUE, ![Len(asked)].reply = reply,
                                ![Len(asked)].finding = finding]
  BY DEF Legacy!Claude, Legacy!Turn
<1>3. Len(asked) \in DOMAIN asked /\ Newest \in ReviewTurn /\ Faithful(Newest) /\ asked \in Seq(ReviewTurn)
  BY <1>1, LenProperties, EmptySeq DEF LegacyInv, LegacyTypes, TurnsInv, Newest
<1>4. PICK x : x = [Newest EXCEPT !.delivered = TRUE, !.reply = reply, !.finding = finding]
  OBVIOUS
<1>5. /\ x \in ReviewTurn /\ x.status = "pending" /\ x.out = Newest.out
      /\ x.reply = reply /\ x.delivered
  BY <1>1, <1>3, <1>4 DEF ReviewTurn
<1>6. asked' = [asked EXCEPT ![Len(asked)] = x]
  BY <1>2, <1>3, <1>4 DEF Newest
<1>7. asked' \in Seq(ReviewTurn) /\ DOMAIN asked' = DOMAIN asked /\ Len(asked') = Len(asked)
  BY <1>3, <1>5, <1>6, ExceptSeq
<1>8. asked'[Len(asked)] = x /\ \A k \in DOMAIN asked : k # Len(asked) => asked'[k] = asked[k]
  BY <1>3, <1>6
<1>9. Faithful(x)
  BY <1>1, <1>3, <1>5, LegacyBounds DEF Faithful, Legacy!Replies
<1>10. Reworked
  BY <1>1, <1>7, <1>8, <1>9 DEF Reworked, LegacyInv, TurnsInv, Newest
<1>11. TurnsInv' /\ Legacy!used \in Nat /\ Legacy!used' \in Nat /\ Legacy!used' <= Legacy!used
  BY <1>1, <1>10, ReworkedUsed DEF LegacyInv
<1>12. LegacyTypes'
  BY <1>1, <1>7 DEF LegacyInv, LegacyTypes
<1>13. asked' # <<>> /\ Newest' = x
  BY <1>3, <1>7, <1>8, LenProperties, EmptySeq DEF Newest
<1>14. ProcessInv'
  BY <1>1, <1>5, <1>13 DEF LegacyInv, ProcessInv
<1>15. RoundInv'
  BY <1>1, <1>11, LegacyBounds DEF LegacyInv, RoundInv
<1> QED BY <1>11, <1>12, <1>14, <1>15 DEF LegacyInv

\* Processes that die, and a model nobody waits for.
LEMMA DeathStep ==
    ASSUME LegacyInv, Legacy!Deaths \/ Legacy!Orphan
    PROVE  LegacyInv'
<1>1. UNCHANGED <<lrev, asked, watermark, job>>
  BY DEF Legacy!Deaths, Legacy!Orphan, Legacy!engine
<1>2. \/ sup' = "gone" /\ UNCHANGED <<ex, claude>>
      \/ ex \in {"start", "ask", "child", "saved", "exit"} /\ ex' = "dead" /\ UNCHANGED <<sup, claude>>
      \/ claude /\ claude' = FALSE /\ UNCHANGED <<sup, ex>>
  BY DEF Legacy!Deaths, Legacy!Orphan
<1>3. TurnsInv' /\ Legacy!used' = Legacy!used
  BY <1>1, TurnsStay DEF LegacyInv
<1>6. LegacyTypes'
  BY <1>1, <1>2 DEF LegacyInv, LegacyTypes
<1>7. UNCHANGED Newest
  BY <1>1 DEF Newest
<1>8. ProcessInv'
  <2>1. CASE sup' = "gone" /\ UNCHANGED <<ex, claude>>
    BY <1>1, <1>7, <2>1 DEF LegacyInv, ProcessInv
  <2>2. CASE ex \in {"start", "ask", "child", "saved", "exit"} /\ ex' = "dead" /\ UNCHANGED <<sup, claude>>
    BY <1>1, <1>7, <2>2 DEF LegacyInv, ProcessInv
  <2>3. CASE claude /\ claude' = FALSE /\ UNCHANGED <<sup, ex>>
    BY <1>1, <1>7, <2>3 DEF LegacyInv, ProcessInv
  <2> QED BY <1>2, <2>1, <2>2, <2>3
<1>4. LegacyTypes' /\ ProcessInv'
  BY <1>6, <1>8
<1>5. RoundInv'
  BY <1>1, <1>2, <1>3 DEF LegacyInv, RoundInv
<1> QED BY <1>3, <1>4, <1>5 DEF LegacyInv

-----------------------------------------------------------------------------
(***************************************************************************)
(* The theorems.                                                           *)
(***************************************************************************)
\* Every step of the controller, its processes and the engine keeps the invariant.
LEMMA LegacyStep == LegacyInv /\ [Legacy!Next]_Legacy!vars => LegacyInv'
<1> SUFFICES ASSUME LegacyInv, [Legacy!Next]_Legacy!vars PROVE LegacyInv'
  OBVIOUS
<1>1. CASE \/ Legacy!room_spec_put \/ Legacy!room_record \/ Legacy!room_decision_record \/ Legacy!room_handoff
           \/ \E j \in DOMAIN job : Legacy!room_issue_dispose(j)
  <2>1. Legacy!Idle /\ UNCHANGED <<asked, job>> /\ lrev' \in Nat /\ (watermark' = watermark \/ watermark' = Len(asked))
    BY <1>1 DEF Legacy!room_spec_put, Legacy!room_record, Legacy!room_decision_record, Legacy!room_handoff,
       Legacy!room_issue_dispose, Legacy!engine, LegacyInv, LegacyTypes
  <2> QED BY <2>1, IdleStep
<1>2. CASE \E how \in {"ok", "failed", "crash"} : Legacy!room_review_submit(how)
  BY <1>2, SubmitStep
<1>3. CASE \E j \in DOMAIN job, crash \in BOOLEAN : Legacy!room_job_recover(j, crash)
  BY <1>3, RecoverStep
<1>4. CASE (\E j \in DOMAIN job : Legacy!room_job_cancel(j)) \/ Legacy!Refresh
  BY <1>4, RowStep
<1>5. CASE UNCHANGED Legacy!vars
  <2>1. UNCHANGED <<lrev, asked, watermark, job, sup, ex, claude>>
    BY <1>5 DEF Legacy!vars, Legacy!engine, Legacy!processes
  <2>2. TurnsInv' /\ Legacy!used' = Legacy!used
    BY <2>1, TurnsStay DEF LegacyInv
  <2> QED BY <2>1, <2>2 DEF LegacyInv, LegacyTypes, ProcessInv, Newest, RoundInv
<1> QED BY <1>1, <1>2, <1>3, <1>4, <1>5, WorkerStart, AskStep, PopenStep, OutcomeStep, ReconcileStep,
           WorkerFinish, CancelStep, ClaudeStep, DeathStep DEF Legacy!Next, Legacy!Controller

\* An empty registry starts the invariant.
LEMMA LegacyInit == Legacy!Init => LegacyInv
<1> SUFFICES ASSUME Legacy!Init PROVE LegacyInv
  OBVIOUS
<1>1. LegacyTypes
  BY EmptySeq DEF Legacy!Init, LegacyTypes
<1>2. DOMAIN asked = {} /\ DOMAIN job = {}
  BY DEF Legacy!Init
<1>3. Legacy!used = 0
  <2>1. Counts = {}
    BY <1>2 DEF Counts
  <2> QED BY <1>1, <2>1, UsedType, FS_EmptySet
<1> QED BY <1>1, <1>2, <1>3, LegacyBounds DEF LegacyInv, TurnsInv, ProcessInv, RoundInv, Legacy!Init

\* It holds in every reachable state.
LEMMA LegacyInvariant == Legacy!Spec => []LegacyInv
BY LegacyInit, LegacyStep, PTL DEF Legacy!Spec

\* The model is given no more reviews in a round than its budget: what does not count
\* never reached it (room.py, review_budget).
THEOREM RoundsBounded == Legacy!Spec => []ReviewsBounded
<1>1. ASSUME LegacyInv PROVE Legacy!ReviewsBounded
  <2> DEFINE D == {t \in DOMAIN asked : t > watermark /\ asked[t].delivered}
  <2>1. D \subseteq Counts
    BY <1>1 DEF Counts, LegacyInv, TurnsInv, Faithful
  <2>2. IsFiniteSet(Counts) /\ Legacy!used = Cardinality(Counts) /\ Cardinality(Counts) \in Nat
    BY <1>1, UsedType DEF LegacyInv
  <2>3. IsFiniteSet(D) /\ Cardinality(D) <= Cardinality(Counts)
    BY <2>1, <2>2, FS_Subset
  <2>4. Cardinality(D) \in Nat
    BY <2>3, FS_CardinalityType
  <2>5. Cardinality(D) <= MAX_REVIEW_TURNS
    BY <1>1, <2>2, <2>3, <2>4, LegacyBounds DEF LegacyInv, RoundInv
  <2>6. Legacy!Cardinality(D) = Cardinality(D)
    BY DEF Legacy!Cardinality, Cardinality
  <2> HIDE DEF D
  <2> QED BY <2>5, <2>6 DEF Legacy!ReviewsBounded, D
<1>2. LegacyInv => ReviewsBounded
  BY <1>1 DEF ReviewsBounded
<1> QED BY <1>2, LegacyInvariant, PTL

\* Some turns have a last one, and Max names it.
LEMMA LastOf ==
    ASSUME NEW n \in Nat, NEW S, S \subseteq 1 .. n, S # {}
    PROVE  Legacy!Max(S) \in S /\ \A k \in S : k <= Legacy!Max(S)
<1> DEFINE R == OpToRel(<, Nat)
           T == {n - k : k \in S}
<1>1. IsWellFoundedOn(R, Nat)
  BY NatLessThanWellFounded
<1>2. \A k \in S : k \in Nat /\ n - k \in Nat
  OBVIOUS
<1>3. T \subseteq Nat /\ T # {}
  BY <1>2
<1> HIDE DEF R
<1>4. PICK x \in T : \A y \in T : ~(<<y, x>> \in R)
  <2> HIDE DEF T
  <2> QED BY <1>1, <1>3, WFMin
<1>5. PICK m \in S : x = n - m
  BY <1>4
<1>6. ASSUME NEW k \in S PROVE k <= m
  <2>1. n - k \in T /\ n - k \in Nat /\ n - m \in Nat /\ k \in Nat /\ m \in Nat
    BY <1>2
  <2>2. ~(<<n - k, n - m>> \in R)
    <3> HIDE DEF T
    <3> QED BY <1>4, <1>5, <2>1
  <2>3. ~(n - k < n - m)
    BY <2>1, <2>2 DEF R, OpToRel
  <2> QED BY <2>1, <2>3
<1>7. \E z \in S : \A y \in S : z >= y
  BY <1>2, <1>6
<1>8. Legacy!Max(S) \in S /\ \A y \in S : Legacy!Max(S) >= y
  BY <1>7 DEF Legacy!Max
<1> QED BY <1>2, <1>8

\* A handoff rests on the last reply the reviewer gave about its revision, recorded or
\* lost (room_handoff, status_report).
THEOREM HandoffsAgreed == Legacy!Spec => HandoffFollowsReply
<1> DEFINE About(r) == {t \in DOMAIN asked : asked[t].rev = r /\ asked[t].delivered}
           Follows == \A r \in handoffs' \ handoffs :
                         r = lrev /\ About(r) # {} /\ asked[Legacy!Max(About(r))].reply = "accept"
<1>1. ASSUME LegacyInv, Legacy!room_handoff PROVE Follows
  <2> DEFINE reviews == {t \in DOMAIN asked : asked[t].rev = lrev /\ asked[t].status # "not_sent"}
             m == Legacy!Max(reviews)
  <2>1. /\ reviews # {} /\ asked[m].status = "completed" /\ asked[m].out = "accept"
        /\ handoffs' = handoffs \cup {lrev}
    BY <1>1 DEF Legacy!room_handoff, Legacy!agreement
  <2>2. DOMAIN asked = 1 .. Len(asked) /\ Len(asked) \in Nat
    BY <1>1, UsedType DEF LegacyInv
  <2>3. m \in reviews /\ \A k \in reviews : k <= m
    <3>1. reviews \subseteq 1 .. Len(asked)
      BY <2>2
    <3> HIDE DEF reviews
    <3> QED BY <2>1, <2>2, <3>1, LastOf
  <2>4. asked[m].reply = "accept" /\ m \in About(lrev)
    <3>1. m \in DOMAIN asked /\ Faithful(asked[m]) /\ asked[m].rev = lrev
      BY <1>1, <2>3 DEF LegacyInv, TurnsInv
    <3>2. asked[m].reply = "accept" /\ asked[m].delivered
      BY <2>1, <3>1, LegacyBounds DEF Faithful, Legacy!Replies
    <3> HIDE DEF m
    <3> QED BY <3>1, <3>2
  <2>5. About(lrev) \subseteq reviews
    BY <1>1 DEF LegacyInv, TurnsInv, Faithful
  <2>6. Legacy!Max(About(lrev)) = m
    <3>1. About(lrev) \subseteq 1 .. Len(asked)
      BY <2>2
    <3> HIDE DEF reviews, m, About
    <3>2. /\ Legacy!Max(About(lrev)) \in About(lrev)
          /\ \A k \in About(lrev) : k <= Legacy!Max(About(lrev))
      BY <2>2, <2>4, <3>1, LastOf
    <3>3. Legacy!Max(About(lrev)) <= m /\ m <= Legacy!Max(About(lrev))
      BY <2>3, <2>4, <2>5, <3>2
    <3> QED BY <2>2, <2>4, <3>1, <3>2, <3>3
  <2> HIDE DEF reviews, m, About
  <2> QED BY <2>1, <2>4, <2>6
<1>2. ASSUME LegacyInv, [Legacy!Next]_Legacy!vars PROVE Legacy!room_handoff \/ handoffs' = handoffs
  BY <1>2 DEF Legacy!Next, Legacy!Controller, Legacy!vars, Legacy!room_spec_put, Legacy!room_record,
     Legacy!room_decision_record, Legacy!room_issue_dispose, Legacy!Refresh, Legacy!room_review_submit,
     Legacy!room_job_cancel, Legacy!room_job_recover, Legacy!worker_start, Legacy!ask, Legacy!Popen,
     Legacy!Outcome, Legacy!Reconcile, Legacy!worker_finish, Legacy!Cancel, Legacy!reconcile,
     Legacy!Claude, Legacy!Deaths, Legacy!Orphan
<1>3. ASSUME LegacyInv, [Legacy!Next]_Legacy!vars PROVE Follows
  BY <1>1, <1>2, <1>3
<1>4. LegacyInv /\ [Legacy!Next]_Legacy!vars =>
        [\A r \in handoffs' \ handoffs :
            LET given == {t \in DOMAIN asked : asked[t].rev = r /\ asked[t].delivered}
            IN r = lrev /\ given # {} /\ asked[Legacy!Max(given)].reply = "accept"]_Legacy!vars
  BY <1>3
<1> QED BY <1>4, LegacyInvariant, PTL DEF Legacy!Spec, HandoffFollowsReply, Legacy!HandoffFollowsReply

=============================================================================
