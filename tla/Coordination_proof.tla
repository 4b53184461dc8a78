-------------------------- MODULE Coordination_proof --------------------------
(***************************************************************************)
(* Proofs about the components of MCRooms: Coordination, for any number of *)
(* rooms, assignments, paths, requests, commits and crashed admissions, and*)
(* ReadAdmission, for any number of guards, calls and messages.            *)
(***************************************************************************)
EXTENDS MCRooms, FiniteSetTheorems, SequenceTheorems, WellFoundedInduction, TLAPS

Committed == DOMAIN commits

\* Every commit that is named exists.
GitInv ==
    /\ \A c \in Committed : commits[c].ancestors \subseteq Committed
    /\ \A r \in Rooms : head[r] \in Committed /\ handoff[r].baseline \in Committed
    /\ \A a \in Assignments :
          /\ lineage[a] # None => lineage[a].handoff.baseline \in Committed
          /\ lifecycle[a] # None /\ lifecycle[a].latest # None =>
                lifecycle[a].latest.commit \in Committed

\* A request under way has no result.
ResultInv ==
    \A r \in Rooms : \A i \in DOMAIN turns[r] :
       turns[r][i].state = "active" => turns[r][i].result = None

Captured(r, candidate) ==
    \E e \in DOMAIN turns[r] : turns[r][e].role = "engineer" /\ turns[r][e].result = candidate

\* The current checkpoint is the last one, of the current revision, and
\* verifies what an engineering result captured.
CheckInv ==
    \A r \in Rooms : checkpoint[r] # None =>
       /\ checkpoint[r].id = checks[r] /\ checks[r] > 0
       /\ checkpoint[r].spec = spec[r]
       /\ Captured(r, checkpoint[r].candidate)

\* A lifecycle belongs to a lineage, and neither room was ahead of itself
\* when the lineage was written.
LineageInv ==
    \A a \in Assignments :
       /\ lifecycle[a] # None => lineage[a] # None
       /\ lineage[a] # None => lineage[a].start.checkpoint <= checks[lineage[a].room]

\* What was handed back was earned when it was, and it still is; what was
\* imported is what was handed back last, and the owner points to it.
HandbackInv ==
    \A a \in Assignments :
       /\ State(a) \in {"handback_recorded", "imported"} =>
             lifecycle[a].latest # None /\ Earned(a, lifecycle[a].latest)
       /\ State(a) = "imported" =>
             /\ lifecycle[a].import # None
             /\ lifecycle[a].import.handback = lifecycle[a].latest
             /\ Names(lineage[a].owner, "owner", a)

\* A room points to admitted assignments only, and to none before it has a role.
PointerInv ==
    \A r \in Rooms :
       /\ \A a \in Ids(r) : lineage[a] # None
       /\ coordination[r].role = None => Ids(r) = {}

IInv == TypeOK /\ GitInv /\ ResultInv /\ CheckInv /\ LineageInv /\ HandbackInv /\ PointerInv /\ EngagedApart

-----------------------------------------------------------------------------
(***************************************************************************)
(* The greatest of some positive numbers, and of the engineering requests. *)
(***************************************************************************)
LEMMA Greatest ==
    ASSUME NEW n \in Nat, NEW S, S \subseteq 1..n, S # {}
    PROVE  \E m \in S : \A k \in S : k <= m
<1> DEFINE R == OpToRel(<, Nat)
           T == {n - k : k \in S}
<1>1. IsWellFoundedOn(R, Nat)
  BY NatLessThanWellFounded
<1>2. T \subseteq Nat
  <2>1. ASSUME NEW k \in S PROVE n - k \in Nat
    <3>1. k \in Nat /\ k <= n
      BY <2>1
    <3> QED BY <3>1
  <2> QED BY <2>1
<1>3. T # {}
  BY DEF T
<1> HIDE DEF R
<1>4. PICK x \in T : \A y \in T : ~(<<y, x>> \in R)
  <2> HIDE DEF T
  <2> QED BY <1>1, <1>2, <1>3, WFMin
<1>5. \A y \in T : ~(y < x)
  <2>1. ASSUME NEW y \in Nat, NEW z \in Nat, y < z PROVE <<y, z>> \in R
    BY <2>1 DEF R, OpToRel
  <2> HIDE DEF T
  <2> QED BY <1>2, <1>4, <2>1
<1>6. PICK m \in S : x = n - m
  BY <1>4
<1>7. ASSUME NEW k \in S PROVE k <= m
  <2>1. n - k \in T
    OBVIOUS
  <2>2. ~(n - k < n - m)
    <3> HIDE DEF T
    <3> QED BY <2>1, <1>5, <1>6
  <2>3. k \in Int /\ m \in Int
    BY <1>7
  <2> HIDE DEF T
  <2> QED BY <2>2, <2>3
<1> QED BY <1>7

LEMMA LatestEngineers ==
    ASSUME TypeOK, NEW r \in Rooms, latest(r) # 0
    PROVE  latest(r) \in DOMAIN turns[r] /\ turns[r][latest(r)].role = "engineer"
<1> DEFINE E == {i \in DOMAIN turns[r] : turns[r][i].role = "engineer"}
<1>1. E # {}
  BY DEF latest
<1>2. E \subseteq 1..Len(turns[r]) /\ Len(turns[r]) \in Nat
  BY LenProperties DEF TypeOK
<1>3. \E m \in E : \A k \in E : k <= m
  <2> HIDE DEF E
  <2> QED BY <1>1, <1>2, Greatest
<1>4. latest(r) = CHOOSE i \in E : \A j \in E : j <= i
  BY <1>1 DEF latest
<1>5. latest(r) \in E
  <2> HIDE DEF E
  <2> QED BY <1>3, <1>4
<1> QED BY <1>5

-----------------------------------------------------------------------------
(***************************************************************************)
(* Type correctness.                                                       *)
(***************************************************************************)
USE DEF STATES, ENGAGED

LEMMA CandidateType ==
    ASSUME TypeOK, NEW r \in Rooms
    PROVE  Candidate(r) \in Worktree
  BY DEF TypeOK, Candidate, Worktree

LEMMA LatestTurn ==
    ASSUME TypeOK, NEW r \in Rooms, turns[r] # <<>>
    PROVE  /\ Len(turns[r]) \in DOMAIN turns[r]
           /\ Last(turns[r]) = turns[r][Len(turns[r])]
           /\ Last(turns[r]) \in Turn
<1>1. turns[r] \in Seq(Turn)
  BY DEF TypeOK
<1>2. Len(turns[r]) \in Nat \ {0} /\ DOMAIN turns[r] = 1..Len(turns[r])
  BY <1>1, EmptySeq, LenProperties
<1> QED BY <1>1, <1>2, ElementOfSeq DEF Last

\* Every commit at hand exists.
LEMMA AtHandExists ==
    ASSUME TypeOK, GitInv, NEW r \in Rooms
    PROVE  AtHand(r) \subseteq Committed
  BY DEF AtHand, GitInv

\* What a commit adds to the repository, and where.
LEMMA CommitAdds ==
    ASSUME TypeOK, GitInv, NEW r \in Rooms, commit(r)
    PROVE  /\ Len(commits) \in Nat /\ Committed = 1..Len(commits)
           /\ Committed' = 1..(Len(commits) + 1)
           /\ \A c \in Committed : commits'[c] = commits[c]
           /\ commits'[Len(commits) + 1] \in Commit
           /\ commits'[Len(commits) + 1].ancestors \subseteq Committed
           /\ commits' \in Seq(Commit)
<1> DEFINE n == Len(commits) + 1
<1>1. commits \in Seq(Commit) /\ Len(commits) \in Nat /\ Committed = 1..Len(commits)
  BY LenProperties DEF TypeOK, Committed
<1>2. PICK merged \in SUBSET AtHand(r), tree \in [Paths -> {n} \cup Committed] :
         commits' = Append(commits,
              [tree |-> tree,
               ancestors |-> UNION {commits[c].ancestors \cup {c} : c \in merged \cup {head[r]}}])
  BY DEF commit, Committed
<1> DEFINE ancestors == UNION {commits[c].ancestors \cup {c} : c \in merged \cup {head[r]}}
           new == [tree |-> tree, ancestors |-> ancestors]
<1>3. ancestors \subseteq Committed
  <2>1. merged \cup {head[r]} \subseteq Committed
    BY <1>2, AtHandExists DEF GitInv
  <2> QED BY <2>1 DEF GitInv
<1>4. new \in Commit
  <2>1. tree \in [Paths -> Nat]
    BY <1>1, <1>2
  <2> HIDE DEF ancestors
  <2> QED BY <1>1, <1>3, <2>1 DEF Commit
<1>5. commits' = Append(commits, new)
  BY <1>2
<1> HIDE DEF new
<1>6. /\ commits' \in Seq(Commit) /\ Len(commits') = n
      /\ \A c \in 1..Len(commits) : commits'[c] = commits[c]
      /\ commits'[n] = new
  BY <1>1, <1>4, <1>5, AppendProperties
<1>7. Committed' = 1..n
  BY <1>6, LenProperties DEF Committed
<1> QED BY <1>1, <1>3, <1>4, <1>6, <1>7 DEF new

\* What becomes of a room's requests.
LEMMA SendAdds ==
    ASSUME TypeOK, NEW r \in Rooms, NEW role \in {"engineer", "reviewer"}, send(r, role)
    PROVE  /\ turns' \in [Rooms -> Seq(Turn)]
           /\ \A b \in Rooms \ {r} : turns'[b] = turns[b]
           /\ Len(turns[r]) \in Nat /\ DOMAIN turns[r] = 1..Len(turns[r])
           /\ DOMAIN turns'[r] = 1..Len(turns[r]) + 1
           /\ \A i \in DOMAIN turns[r] : turns'[r][i] = turns[r][i]
           /\ turns'[r][Len(turns[r]) + 1].result = None
<1> DEFINE new == [role |-> role, state |-> "active", spec |-> spec[r], result |-> None,
                   review |-> IF role = "engineer" THEN None ELSE checkpoint[r]]
<1>1. turns[r] \in Seq(Turn)
  BY DEF TypeOK
<1>2. new \in Turn
  <2>1. role # "engineer" => checkpoint[r] \in Check
    BY DEF TypeOK, send, Current
  <2>2. spec[r] \in Nat
    BY DEF TypeOK
  <2> QED BY <2>1, <2>2 DEF Turn
<1>3. turns' = [turns EXCEPT ![r] = Append(@, new)]
  BY DEF send
<1>a. new.result = None
  OBVIOUS
<1> HIDE DEF new
<1>4. /\ Append(turns[r], new) \in Seq(Turn)
      /\ Len(Append(turns[r], new)) = Len(turns[r]) + 1
      /\ \A i \in 1..Len(turns[r]) : Append(turns[r], new)[i] = turns[r][i]
      /\ Append(turns[r], new)[Len(turns[r]) + 1] = new
  BY <1>1, <1>2, AppendProperties
<1>5. turns'[r] = Append(turns[r], new) /\ turns' \in [Rooms -> Seq(Turn)]
      /\ \A b \in Rooms \ {r} : turns'[b] = turns[b]
  BY <1>3, <1>4 DEF TypeOK
<1>6. Len(turns[r]) \in Nat /\ DOMAIN turns[r] = 1..Len(turns[r])
      /\ DOMAIN turns'[r] = 1..Len(turns[r]) + 1
  BY <1>1, <1>4, <1>5, LenProperties
<1> QED BY <1>4, <1>5, <1>6, <1>a

LEMMA CompleteKeeps ==
    ASSUME TypeOK, NEW r \in Rooms, complete(r)
    PROVE  /\ turns' \in [Rooms -> Seq(Turn)]
           /\ \A b \in Rooms \ {r} : turns'[b] = turns[b]
           /\ DOMAIN turns'[r] = DOMAIN turns[r]
           /\ \A i \in DOMAIN turns[r] :
                 /\ turns'[r][i].role = turns[r][i].role
                 /\ \/ turns'[r][i] = turns[r][i]
                    \/ turns[r][i].state = "active" /\ turns'[r][i].state = "completed"
<1> DEFINE n == Len(turns[r])
           new == [turns[r][n] EXCEPT !.state = "completed",
                      !.result = IF Last(turns[r]).role = "engineer" THEN Candidate(r) ELSE None]
<1>1. turns[r] \in Seq(Turn)
  BY DEF TypeOK
<1>2. n \in DOMAIN turns[r] /\ DOMAIN turns[r] = 1..n /\ turns[r][n] \in Turn
      /\ turns[r][n].state = "active"
  <2>1. turns[r] # <<>> /\ Last(turns[r]).state = "active"
    BY DEF complete
  <2> QED BY <1>1, <2>1, LatestTurn, LenProperties
<1>3. new \in Turn /\ new.role = turns[r][n].role /\ new.state = "completed"
  BY <1>2, CandidateType DEF Turn
<1>4. turns' = [turns EXCEPT ![r] = [turns[r] EXCEPT ![n] = new]]
  BY DEF complete
<1> HIDE DEF new
<1>5. /\ [turns[r] EXCEPT ![n] = new] \in Seq(Turn)
      /\ Len([turns[r] EXCEPT ![n] = new]) = n
      /\ \A i \in 1..n : [turns[r] EXCEPT ![n] = new][i] = IF i = n THEN new ELSE turns[r][i]
  BY <1>1, <1>2, <1>3, ExceptSeq
<1>6. turns'[r] = [turns[r] EXCEPT ![n] = new] /\ turns' \in [Rooms -> Seq(Turn)]
      /\ \A b \in Rooms \ {r} : turns'[b] = turns[b]
  BY <1>4, <1>5 DEF TypeOK
<1> QED BY <1>2, <1>3, <1>5, <1>6

\* What an admission writes, however far it gets.
Admitted(o, b, a, owned, old) ==
    /\ lineage' \in [Assignments -> Lineage \cup {None}]
    /\ \A x \in Assignments : lineage[x] # None => lineage'[x] = lineage[x]
    /\ \A x \in Assignments \ {a} : lineage'[x] = lineage[x]
    /\ lineage[a] = None => lineage'[a] = _new_lineage(o, b, owned, old)
    /\ lineage'[a] # None
    /\ lifecycle' \in [Assignments -> Lifecycle \cup {None}]
    /\ \A x \in Assignments :
          \/ lifecycle'[x] = lifecycle[x]
          \/ x = a /\ lifecycle[a] = None /\ lifecycle'[a] = _new_lifecycle
          \/ /\ x = old /\ lineage[a] = None /\ Engaged(x) /\ lifecycle[x] # None
             /\ lifecycle'[x] = [lifecycle[x] EXCEPT !.state = "superseded"]
    /\ coordination' \in [Rooms -> [role : {None, "owner", "assignment"},
                                    ids : Seq(Assignments)]]
    /\ \A r \in Rooms : /\ ToSet(coordination[r].ids) \subseteq ToSet(coordination'[r].ids)
                        /\ coordination[r].role = "owner" => coordination'[r].role = "owner"
    /\ \A r \in Rooms :
          \/ coordination'[r] = coordination[r]
          \/ /\ coordination'[r].role = IF r = b THEN "assignment" ELSE "owner"
             /\ ToSet(coordination'[r].ids) = ToSet(coordination[r].ids) \cup {a}
    /\ lineage'[a].supersedes = old

\* What a sequence holds once an element is appended.
LEMMA AppendSet ==
    ASSUME NEW S, NEW s \in Seq(S), NEW e \in S
    PROVE  ToSet(Append(s, e)) = ToSet(s) \cup {e}
<1>1. /\ DOMAIN s = 1..Len(s) /\ Len(s) \in Nat
      /\ DOMAIN Append(s, e) = 1..(Len(s) + 1)
      /\ \A i \in 1..Len(s) : Append(s, e)[i] = s[i]
      /\ Append(s, e)[Len(s) + 1] = e
  BY LenProperties, AppendProperties
<1> QED BY <1>1 DEF ToSet

LEMMA AdmissionWrites ==
    ASSUME TypeOK, LineageInv, NEW o \in Rooms, NEW b \in Rooms, NEW a \in Assignments,
           NEW owned \in SUBSET Paths \ {{}}, NEW old \in (Assignments \ {a}) \cup {None},
           assignment_open(o, b, a, owned, old)
    PROVE  Admitted(o, b, a, owned, old)
<1> DEFINE new == _new_lineage(o, b, owned, old)
<1>1. PICK k \in 1..5 : Writes(o, b, a, new, old, k)
  BY DEF assignment_open
<1>2. old # None => Supersedable(o, b, old)
  BY DEF assignment_open
<1>3. new \in Lineage
  <2>1. Len(turns[b]) \in Nat
    BY LenProperties DEF TypeOK
  <2> QED BY <2>1 DEF TypeOK, _new_lineage, Lineage
<1>4. _new_lifecycle \in Lifecycle
  BY EmptySeq DEF _new_lifecycle, Lifecycle
<1>a. None \notin Lineage /\ None \notin Lifecycle
  BY NoneAssumption
<1> HIDE DEF new
<1>5. lineage' = IF lineage[a] = None THEN [lineage EXCEPT ![a] = new] ELSE lineage
  BY <1>1 DEF Writes
<1>6. /\ lineage' \in [Assignments -> Lineage \cup {None}]
      /\ \A x \in Assignments : lineage[x] # None => lineage'[x] = lineage[x]
      /\ \A x \in Assignments \ {a} : lineage'[x] = lineage[x]
      /\ lineage[a] = None => lineage'[a] = new
      /\ lineage'[a] # None
  BY <1>3, <1>5, <1>a DEF TypeOK
<1>7. lifecycle' = [x \in Assignments |->
              IF x = a /\ lifecycle[a] = None /\ k >= 2 THEN _new_lifecycle
              ELSE IF x = old /\ (lineage[a] = None /\ old # None) /\ k >= 3
                   THEN [lifecycle[x] EXCEPT !.state = "superseded"]
              ELSE lifecycle[x]]
  BY <1>1 DEF Writes
<1>8. \A x \in Assignments :
         \/ lifecycle'[x] = lifecycle[x]
         \/ x = a /\ lifecycle[a] = None /\ lifecycle'[a] = _new_lifecycle
         \/ /\ x = old /\ lineage[a] = None /\ Engaged(x) /\ lifecycle[x] # None
            /\ lifecycle'[x] = [lifecycle[x] EXCEPT !.state = "superseded"]
  BY <1>2, <1>7 DEF Supersedable
<1>9. lifecycle' \in [Assignments -> Lifecycle \cup {None}]
  <2>1. ASSUME NEW x \in Assignments PROVE lifecycle'[x] \in Lifecycle \cup {None}
    <3>1. lifecycle[x] \in Lifecycle \cup {None}
      BY DEF TypeOK
    <3>2. lifecycle[x] # None => [lifecycle[x] EXCEPT !.state = "superseded"] \in Lifecycle
      BY <3>1 DEF Lifecycle
    <3> QED BY <1>4, <1>8, <3>1, <3>2
  <2> QED BY <1>7, <2>1
<1>10. coordination' = [r \in Rooms |->
              IF r = o /\ k >= 4 THEN Pointed(o, "owner", a)
              ELSE IF r = b /\ k = 5 THEN Pointed(b, "assignment", a)
              ELSE coordination[r]]
  BY <1>1 DEF Writes
<1>b. ASSUME NEW r \in Rooms, NEW role \in {"owner", "assignment"}
      PROVE  /\ Pointed(r, role, a) \in [role : {None, "owner", "assignment"}, ids : Seq(Assignments)]
             /\ Pointed(r, role, a).role = role
             /\ ToSet(Pointed(r, role, a).ids) = ToSet(coordination[r].ids) \cup {a}
  <2>1. coordination[r].ids \in Seq(Assignments)
    BY DEF TypeOK
  <2>2. ToSet(Append(coordination[r].ids, a)) = ToSet(coordination[r].ids) \cup {a}
    BY <2>1, AppendSet
  <2>3. Append(coordination[r].ids, a) \in Seq(Assignments)
    BY <2>1
  <2> QED BY <2>1, <2>2, <2>3 DEF Pointed, Ids
<1>c. coordination \in [Rooms -> [role : {None, "owner", "assignment"}, ids : Seq(Assignments)]]
  BY DEF TypeOK
<1>d. o # b /\ coordination[b].role # "owner"
  BY NoneAssumption DEF assignment_open, Unengaged
<1>11. coordination' \in [Rooms -> [role : {None, "owner", "assignment"}, ids : Seq(Assignments)]]
  BY <1>10, <1>b, <1>c
<1>12. \A r \in Rooms :
          \/ coordination'[r] = coordination[r]
          \/ /\ coordination'[r].role = IF r = b THEN "assignment" ELSE "owner"
             /\ ToSet(coordination'[r].ids) = ToSet(coordination[r].ids) \cup {a}
  <2> SUFFICES ASSUME NEW r \in Rooms
               PROVE  \/ coordination'[r] = coordination[r]
                      \/ /\ coordination'[r].role = IF r = b THEN "assignment" ELSE "owner"
                         /\ ToSet(coordination'[r].ids) = ToSet(coordination[r].ids) \cup {a}
    OBVIOUS
  <2>1. coordination'[r] = IF r = o /\ k >= 4 THEN Pointed(o, "owner", a)
                           ELSE IF r = b /\ k = 5 THEN Pointed(b, "assignment", a)
                           ELSE coordination[r]
    BY <1>10
  <2>2. /\ Pointed(o, "owner", a).role = "owner"
        /\ ToSet(Pointed(o, "owner", a).ids) = ToSet(coordination[o].ids) \cup {a}
    BY <1>b
  <2>3. /\ Pointed(b, "assignment", a).role = "assignment"
        /\ ToSet(Pointed(b, "assignment", a).ids) = ToSet(coordination[b].ids) \cup {a}
    BY <1>b
  <2>4. CASE r = o /\ k >= 4
    BY <1>d, <2>1, <2>2, <2>4
  <2>5. CASE ~(r = o /\ k >= 4) /\ r = b /\ k = 5
    BY <2>1, <2>3, <2>5
  <2>6. CASE ~(r = o /\ k >= 4) /\ ~(r = b /\ k = 5)
    BY <2>1, <2>6
  <2> QED BY <2>4, <2>5, <2>6
<1>13. ASSUME NEW r \in Rooms
       PROVE  /\ ToSet(coordination[r].ids) \subseteq ToSet(coordination'[r].ids)
              /\ coordination[r].role = "owner" => coordination'[r].role = "owner"
  BY <1>12, <1>d
<1>14. lineage'[a].supersedes = old
  <2>1. new.supersedes = old
    BY DEF new, _new_lineage
  <2>2. lineage[a] # None => lineage[a] = [new EXCEPT !.start = lineage[a].start]
    BY DEF assignment_open, new
  <2>3. lineage[a] # None => lineage[a].supersedes = old
    BY <1>3, <2>1, <2>2 DEF Lineage
  <2> QED BY <1>6, <2>1, <2>3
<1> QED BY <1>6, <1>8, <1>9, <1>11, <1>12, <1>13, <1>14 DEF new, Admitted

\* What the handback and the import change.
LEMMA HandbackWrites ==
    ASSUME TypeOK, NEW b \in Rooms, NEW a \in Assignments, NEW i \in DOMAIN turns[b],
           handback_record(b, a, i)
    PROVE  LET record == [commit |-> head[b], request |-> i, checkpoint |-> checkpoint[b]]
           IN  /\ record \in Handback /\ lifecycle[a] # None
               /\ lifecycle' \in [Assignments -> Lifecycle \cup {None}]
               /\ \A x \in Assignments \ {a} : lifecycle'[x] = lifecycle[x]
               /\ lifecycle'[a] # None /\ lifecycle'[a].latest = record
               /\ lifecycle'[a].state = "handback_recorded"
<1> DEFINE record == [commit |-> head[b], request |-> i, checkpoint |-> checkpoint[b]]
<1>1. record \in Handback
  <2>1. checkpoint[b] \in Check
    BY DEF TypeOK, handback_record, Current
  <2>2. i \in Nat /\ head[b] \in Nat
    BY LenProperties DEF TypeOK
  <2> QED BY <2>1, <2>2 DEF Handback
<1>2. lifecycle[a] \in Lifecycle /\ lifecycle[a] # None
  BY DEF handback_record, TypeOK
<1>3. lifecycle' = [lifecycle EXCEPT ![a] = [lifecycle[a] EXCEPT !.latest = record,
                                                                !.state = "handback_recorded"]]
  BY <1>2 DEF handback_record, TypeOK, Lifecycle
<1> HIDE DEF record
<1>4. [lifecycle[a] EXCEPT !.latest = record, !.state = "handback_recorded"] \in Lifecycle
  BY <1>1, <1>2 DEF Lifecycle
<1>5. /\ lifecycle' \in [Assignments -> Lifecycle \cup {None}]
      /\ \A x \in Assignments \ {a} : lifecycle'[x] = lifecycle[x]
      /\ lifecycle'[a] = [lifecycle[a] EXCEPT !.latest = record, !.state = "handback_recorded"]
  BY <1>3, <1>4 DEF TypeOK
<1>6. lifecycle'[a] # None /\ lifecycle'[a].latest = record
      /\ lifecycle'[a].state = "handback_recorded"
  BY <1>2, <1>4, <1>5, NoneAssumption DEF Lifecycle
<1> QED BY <1>1, <1>2, <1>5, <1>6 DEF record

LEMMA PreflightWrites ==
    ASSUME TypeOK, NEW o \in Rooms, NEW a \in Assignments, import_preflight(o, a),
           lifecycle[a] # None, lifecycle[a].latest # None
    PROVE  /\ lifecycle' \in [Assignments -> Lifecycle \cup {None}]
           /\ answer' \in [Assignments -> Preflight \cup {None}]
           /\ \A x \in Assignments \ {a} : lifecycle'[x] = lifecycle[x]
           /\ lifecycle'[a] # None /\ lifecycle'[a].latest = lifecycle[a].latest
           /\ lifecycle'[a].state = lifecycle[a].state
           /\ lifecycle'[a].import = lifecycle[a].import
<1> DEFINE blocked == dirty[o] \/ _authority_blockers(a)
           clean == _is_ancestor(lineage[a].handoff.baseline, head[o]) /\ Clean(head[o], a)
           record == [handback |-> lifecycle[a].latest, before |-> head[o], blocked |-> blocked,
                      ready |-> ~blocked /\ clean]
           known == \E i \in DOMAIN lifecycle[a].preflights : lifecycle[a].preflights[i] = record
           p == IF known THEN lifecycle[a].preflights ELSE Append(lifecycle[a].preflights, record)
<1>1. lifecycle[a] \in Lifecycle
  BY DEF TypeOK
<1>2. blocked \in BOOLEAN /\ (~blocked /\ clean) \in BOOLEAN
  <2>1. dirty[o] \in BOOLEAN
    BY DEF TypeOK
  <2> QED BY <2>1 DEF _authority_blockers
<1>3. record \in Preflight
  <2> HIDE DEF blocked, clean
  <2>1. lifecycle[a].latest \in Handback /\ head[o] \in Nat
    BY <1>1 DEF Lifecycle, TypeOK
  <2> QED BY <1>2, <2>1 DEF Preflight
<1>4. /\ lifecycle' = [lifecycle EXCEPT ![a] = [lifecycle[a] EXCEPT !.preflights = p]]
      /\ answer' = [answer EXCEPT ![a] = record]
  BY <1>1 DEF import_preflight, TypeOK, Lifecycle
<1> HIDE DEF record
<1>5. p \in Seq(Preflight)
  <2>1. lifecycle[a].preflights \in Seq(Preflight)
    BY <1>1 DEF Lifecycle
  <2> HIDE DEF known
  <2> QED BY <1>3, <2>1, AppendProperties
<1> HIDE DEF p
<1>6. [lifecycle[a] EXCEPT !.preflights = p] \in Lifecycle
  BY <1>1, <1>5 DEF Lifecycle
<1>7. /\ lifecycle' \in [Assignments -> Lifecycle \cup {None}]
      /\ answer' \in [Assignments -> Preflight \cup {None}]
      /\ \A x \in Assignments \ {a} : lifecycle'[x] = lifecycle[x]
      /\ lifecycle'[a] = [lifecycle[a] EXCEPT !.preflights = p]
  BY <1>3, <1>4, <1>6 DEF TypeOK
<1>8. /\ lifecycle'[a] # None /\ lifecycle'[a].latest = lifecycle[a].latest
      /\ lifecycle'[a].state = lifecycle[a].state
      /\ lifecycle'[a].import = lifecycle[a].import
  BY <1>1, <1>6, <1>7, NoneAssumption DEF Lifecycle
<1> QED BY <1>7, <1>8

LEMMA ImportWrites ==
    ASSUME TypeOK, NEW o \in Rooms, NEW a \in Assignments, NEW resolution \in BOOLEAN,
           import_record(o, a, resolution), lifecycle[a] # None
    PROVE  LET import == [handback |-> lifecycle[a].latest, after |-> head[o],
                          requests |-> Len(turns[o])]
           IN  /\ import \in Import
               /\ lifecycle' \in [Assignments -> Lifecycle \cup {None}]
               /\ \A x \in Assignments \ {a} : lifecycle'[x] = lifecycle[x]
               /\ lifecycle'[a] # None /\ lifecycle'[a].latest = lifecycle[a].latest
               /\ lifecycle'[a].state = "imported" /\ lifecycle'[a].import = import
<1> DEFINE import == [handback |-> lifecycle[a].latest, after |-> head[o],
                      requests |-> Len(turns[o])]
<1>1. lifecycle[a] \in Lifecycle
  BY DEF TypeOK
<1>2. lifecycle[a].latest \in Handback
  <2>1. lifecycle[a].preflights \in Seq(Preflight) /\ lifecycle[a].preflights # <<>>
    BY <1>1 DEF Lifecycle, import_record
  <2>2. Last(lifecycle[a].preflights) \in Preflight
    BY <2>1, EmptySeq, ElementOfSeq DEF Last
  <2>3. lifecycle[a].latest = Last(lifecycle[a].preflights).handback
    BY DEF import_record
  <2> QED BY <2>2, <2>3 DEF Preflight
<1>3. import \in Import
  <2>1. Len(turns[o]) \in Nat /\ head[o] \in Nat
    BY LenProperties DEF TypeOK
  <2> QED BY <1>2, <2>1 DEF Import
<1>4. lifecycle' = [lifecycle EXCEPT ![a] = [lifecycle[a] EXCEPT !.state = "imported",
                                                                !.import = import]]
  BY <1>1 DEF import_record, TypeOK, Lifecycle
<1> HIDE DEF import
<1>5. [lifecycle[a] EXCEPT !.state = "imported", !.import = import] \in Lifecycle
  BY <1>1, <1>3 DEF Lifecycle
<1>6. /\ lifecycle' \in [Assignments -> Lifecycle \cup {None}]
      /\ \A x \in Assignments \ {a} : lifecycle'[x] = lifecycle[x]
      /\ lifecycle'[a] = [lifecycle[a] EXCEPT !.state = "imported", !.import = import]
  BY <1>4, <1>5 DEF TypeOK
<1>7. /\ lifecycle'[a] # None /\ lifecycle'[a].latest = lifecycle[a].latest
      /\ lifecycle'[a].state = "imported" /\ lifecycle'[a].import = import
  BY <1>1, <1>5, <1>6, NoneAssumption DEF Lifecycle
<1> QED BY <1>3, <1>6, <1>7 DEF import

LEMMA InitType == Init => TypeOK
<1> SUFFICES ASSUME Init PROVE TypeOK
  OBVIOUS
<1>1. commits \in Seq(Commit)
  <2>1. [tree |-> [p \in Paths |-> 1], ancestors |-> {}] \in Commit
    BY DEF Commit
  <2> QED BY <2>1 DEF Init
<1>2. handoff \in [Rooms -> Handoff] /\ turns \in [Rooms -> Seq(Turn)]
  BY EmptySeq DEF Init, Handoff
<1> QED BY <1>1, <1>2 DEF Init, TypeOK

LEMMA StepType == IInv /\ [Next]_vars => TypeOK'
<1> SUFFICES ASSUME IInv, [Next]_vars PROVE TypeOK'
  OBVIOUS
<1> USE DEF IInv
<1>1. ASSUME NEW r \in Rooms, spec_put(r) PROVE TypeOK'
  <2>1. spec' \in [Rooms -> Nat] /\ checkpoint' \in [Rooms -> Check \cup {None}] /\ disturbed' = disturbed + 1
    BY <1>1 DEF spec_put, Disturb, TypeOK
  <2>2. UNCHANGED <<git, handoff, turns, checks, acceptances, assignment, opens, crashes>>
    BY <1>1 DEF spec_put
  <2> QED BY <2>1, <2>2 DEF TypeOK, git, assignment
<1>2. ASSUME NEW r \in Rooms, hand_off(r) PROVE TypeOK'
  BY <1>2 DEF hand_off, TypeOK, git, assignment, Handoff
<1>3. ASSUME NEW r \in Rooms, complete(r) PROVE TypeOK'
  BY <1>3, CompleteKeeps DEF complete, TypeOK, git, assignment
<1>4. ASSUME NEW r \in Rooms, verify(r) PROVE TypeOK'
  <2>1. [id |-> checks[r] + 1, candidate |-> Candidate(r), spec |-> spec[r]] \in Check
    <3>1. Candidate(r) \in Worktree
      BY CandidateType
    <3>2. checks[r] + 1 \in Nat /\ spec[r] \in Nat
      BY DEF TypeOK
    <3> QED BY <3>1, <3>2 DEF Check
  <2> QED BY <1>4, <2>1 DEF verify, TypeOK, git, assignment
<1>5. ASSUME NEW r \in Rooms, commit(r) PROVE TypeOK'
  <2>1. commits' \in Seq(Commit) /\ Len(commits) + 1 \in Nat
    BY <1>5, CommitAdds
  <2>2. head' = [head EXCEPT ![r] = Len(commits) + 1] /\ dirty' = [dirty EXCEPT ![r] = FALSE]
    BY <1>5 DEF commit
  <2>3. UNCHANGED <<work, assignment, opens, crashes, disturbed>>
    BY <1>5 DEF commit
  <2> QED BY <2>1, <2>2, <2>3 DEF TypeOK, work, assignment
<1>6. ASSUME NEW r \in Rooms, reset(r) PROVE TypeOK'
  <2>1. commits[head[r]].ancestors \subseteq Nat
    BY LenProperties DEF GitInv, Committed, TypeOK
  <2>2. head' \in [Rooms -> Nat] /\ dirty' \in [Rooms -> BOOLEAN]
    BY <1>6, <2>1 DEF reset, TypeOK
  <2>3. UNCHANGED <<commits, work, assignment, opens, crashes>> /\ disturbed' = disturbed + 1
    BY <1>6 DEF reset, Disturb
  <2>4. disturbed' \in Nat
    BY <2>3 DEF TypeOK
  <2> QED BY <2>2, <2>3, <2>4 DEF TypeOK, work, assignment
<1>7. ASSUME NEW r \in Rooms, NEW role \in {"engineer", "reviewer"}, send(r, role) PROVE TypeOK'
  BY <1>7, SendAdds DEF send, TypeOK, git, assignment
<1>8. ASSUME NEW r \in Rooms, NEW i \in DOMAIN turns[r], accept(r, i) PROVE TypeOK'
  <2>1. i \in Nat
    BY LenProperties DEF TypeOK
  <2>2. [request |-> i, checkpoint |-> checkpoint[r]] \in Acceptance
    BY <1>8, <2>1 DEF accept, Current, TypeOK, Acceptance
  <2> QED BY <1>8, <2>2 DEF accept, TypeOK, git, assignment
<1>9. ASSUME NEW o \in Rooms, NEW b \in Rooms, NEW a \in Assignments,
             NEW owned \in SUBSET Paths \ {{}}, NEW old \in (Assignments \ {a}) \cup {None},
             assignment_open(o, b, a, owned, old)
      PROVE TypeOK'
  <2>1. UNCHANGED <<commits, head, dirty, spec, handoff, turns, checkpoint, checks, acceptances,
                    answer, disturbed>>
    BY <1>9 DEF assignment_open, git, work
  <2>2. opens' \in Nat /\ crashes' \in Nat
    <3>1. opens' = opens + 1
      BY <1>9 DEF assignment_open
    <3>2. crashes' = crashes + 1 \/ crashes' = crashes
      BY <1>9 DEF assignment_open
    <3>3. opens \in Nat /\ crashes \in Nat
      BY DEF TypeOK
    <3> QED BY <3>1, <3>2, <3>3
  <2>3. /\ lineage' \in [Assignments -> Lineage \cup {None}]
        /\ lifecycle' \in [Assignments -> Lifecycle \cup {None}]
        /\ coordination' \in [Rooms -> [role : {None, "owner", "assignment"},
                                        ids : Seq(Assignments)]]
    BY <1>9, AdmissionWrites DEF Admitted
  <2> QED BY <2>1, <2>2, <2>3 DEF TypeOK
<1>10. ASSUME NEW r \in Rooms, NEW a \in Assignments, NEW i \in DOMAIN turns[r],
              handback_record(r, a, i)
       PROVE TypeOK'
  BY <1>10, HandbackWrites DEF handback_record, TypeOK, git, work
<1>11. ASSUME NEW r \in Rooms, NEW a \in Assignments, import_preflight(r, a) PROVE TypeOK'
  <2>1. lifecycle[a] # None /\ lifecycle[a].latest # None
    BY <1>11, NoneAssumption DEF import_preflight, State, HandbackInv
  <2>2. /\ lifecycle' \in [Assignments -> Lifecycle \cup {None}]
        /\ answer' \in [Assignments -> Preflight \cup {None}]
    BY <1>11, <2>1, PreflightWrites
  <2>3. UNCHANGED <<git, work, coordination, lineage, opens, crashes, disturbed>>
    BY <1>11 DEF import_preflight
  <2> QED BY <2>2, <2>3 DEF TypeOK, git, work
<1>12. ASSUME NEW r \in Rooms, NEW a \in Assignments, NEW resolution \in BOOLEAN,
              import_record(r, a, resolution)
       PROVE TypeOK'
  <2>1. lifecycle[a] # None
    BY <1>12, NoneAssumption DEF import_record, State
  <2> QED BY <1>12, <2>1, ImportWrites DEF import_record, TypeOK, git, work
<1>13. CASE UNCHANGED vars
  BY <1>13 DEF vars, git, work, assignment, TypeOK
<1> QED
  BY <1>1, <1>2, <1>3, <1>4, <1>5, <1>6, <1>7, <1>8, <1>9, <1>10, <1>11, <1>12, <1>13 DEF Next

-----------------------------------------------------------------------------
(***************************************************************************)
(* What a step may never undo: commits, requests, results, acceptances,    *)
(* checkpoints and lineages are only added.                                *)
(***************************************************************************)
Kept ==
    /\ \A c \in Committed : c \in Committed' /\ commits'[c] = commits[c]
    /\ \A r \in Rooms :
          /\ \A i \in DOMAIN turns[r] :
                /\ i \in DOMAIN turns'[r]
                /\ turns'[r][i].role = turns[r][i].role
                /\ turns[r][i].result # None => turns'[r][i].result = turns[r][i].result
          /\ acceptances[r] \subseteq acceptances'[r]
          /\ checks[r] <= checks'[r]
    /\ \A a \in Assignments : lineage[a] # None => lineage'[a] = lineage[a]

LEMMA StepKeeps == IInv /\ [Next]_vars => Kept
<1> SUFFICES ASSUME IInv, [Next]_vars PROVE Kept
  OBVIOUS
<1> USE DEF IInv
<1>a. \A r \in Rooms : checks[r] \in Nat
  BY DEF TypeOK
<1>1. ASSUME NEW r \in Rooms, spec_put(r) \/ hand_off(r) \/ reset(r) PROVE Kept
  BY <1>1, <1>a DEF spec_put, hand_off, reset, Kept, Committed, git, work, assignment
<1>2. ASSUME NEW r \in Rooms, complete(r) PROVE Kept
  <2>1. UNCHANGED <<commits, acceptances, checks, lineage>>
    BY <1>2 DEF complete, git, assignment
  <2>2. ASSUME NEW b \in Rooms, NEW i \in DOMAIN turns[b]
        PROVE  /\ i \in DOMAIN turns'[b]
               /\ turns'[b][i].role = turns[b][i].role
               /\ turns[b][i].result # None => turns'[b][i].result = turns[b][i].result
    <3>1. CASE b = r
      BY <1>2, <3>1, CompleteKeeps DEF ResultInv
    <3>2. CASE b # r
      BY <1>2, <3>2, CompleteKeeps
    <3> QED BY <3>1, <3>2
  <2> QED BY <1>a, <2>1, <2>2 DEF Kept, Committed
<1>3. ASSUME NEW r \in Rooms, verify(r) PROVE Kept
  BY <1>3, <1>a DEF verify, Kept, Committed, git, assignment, TypeOK
<1>4. ASSUME NEW r \in Rooms, commit(r) PROVE Kept
  <2>1. UNCHANGED <<turns, acceptances, checks, lineage>>
    BY <1>4 DEF commit, work, assignment
  <2>2. \A c \in Committed : c \in Committed' /\ commits'[c] = commits[c]
    BY <1>4, CommitAdds
  <2> QED BY <1>a, <2>1, <2>2 DEF Kept
<1>5. ASSUME NEW r \in Rooms, NEW role \in {"engineer", "reviewer"}, send(r, role) PROVE Kept
  <2>1. UNCHANGED <<commits, acceptances, checks, lineage>>
    BY <1>5 DEF send, git, assignment
  <2>2. ASSUME NEW b \in Rooms, NEW i \in DOMAIN turns[b]
        PROVE  i \in DOMAIN turns'[b] /\ turns'[b][i] = turns[b][i]
    BY <1>5, SendAdds
  <2> QED BY <1>a, <2>1, <2>2 DEF Kept, Committed
<1>6. ASSUME NEW r \in Rooms, NEW i \in DOMAIN turns[r], accept(r, i) PROVE Kept
  BY <1>6, <1>a DEF accept, Kept, Committed, git, assignment, TypeOK
<1>7. ASSUME NEW o \in Rooms, NEW b \in Rooms, NEW a \in Assignments,
             NEW owned \in SUBSET Paths \ {{}}, NEW old \in (Assignments \ {a}) \cup {None},
             assignment_open(o, b, a, owned, old)
      PROVE Kept
  <2>1. UNCHANGED <<commits, turns, acceptances, checks>>
    BY <1>7 DEF assignment_open, git, work
  <2>2. \A x \in Assignments : lineage[x] # None => lineage'[x] = lineage[x]
    BY <1>7, AdmissionWrites DEF Admitted
  <2> QED BY <1>a, <2>1, <2>2 DEF Kept, Committed
<1>8. ASSUME NEW r \in Rooms, NEW a \in Assignments,
             \/ \E i \in DOMAIN turns[r] : handback_record(r, a, i)
             \/ import_preflight(r, a)
             \/ \E resolution \in BOOLEAN : import_record(r, a, resolution)
      PROVE Kept
  <2>1. UNCHANGED <<commits, turns, acceptances, checks, lineage>>
    BY <1>8 DEF handback_record, import_preflight, import_record, git, work
  <2> QED BY <1>a, <2>1 DEF Kept, Committed
<1>9. CASE UNCHANGED vars
  BY <1>9, <1>a DEF vars, git, work, assignment, Kept, Committed
<1> QED BY <1>1, <1>2, <1>3, <1>4, <1>5, <1>6, <1>7, <1>8, <1>9 DEF Next

\* What a handback rested on stays so.
LEMMA EarnedStays ==
    ASSUME IInv, TypeOK', Kept, NEW a \in Assignments, lineage[a] # None,
           NEW h \in Handback, h.commit \in Committed, Earned(a, h)
    PROVE  Earned(a, h)'
<1> DEFINE L == lineage[a]
<1>1. L \in Lineage /\ L.room \in Rooms /\ L.handoff.baseline \in Committed /\ lineage'[a] = L
  BY DEF IInv, TypeOK, Kept, GitInv, Lineage
<1>2. h.checkpoint.candidate # None
  BY NoneAssumption DEF Handback, Check
<1>3. \A i \in DOMAIN turns[L.room] :
         /\ i \in DOMAIN turns'[L.room]
         /\ turns'[L.room][i].role = turns[L.room][i].role
         /\ turns[L.room][i].result # None => turns'[L.room][i].result = turns[L.room][i].result
  BY <1>1 DEF Kept
<1>4. \E acc \in acceptances'[L.room] : acc.request = h.request /\ acc.checkpoint = h.checkpoint
  BY <1>1 DEF Earned, Kept
<1>5. \E e \in L.start.requests + 1 .. Len(turns'[L.room]) : turns'[L.room][e].role = "engineer"
  <2>1. PICK e \in L.start.requests + 1 .. Len(turns[L.room]) : turns[L.room][e].role = "engineer"
    BY DEF Earned
  <2>2. turns[L.room] \in Seq(Turn) /\ L.start.requests \in Nat
    BY <1>1 DEF IInv, TypeOK, Lineage
  <2>3. e \in DOMAIN turns[L.room]
    BY <2>1, <2>2, LenProperties
  <2>4. e \in DOMAIN turns'[L.room] /\ turns'[L.room][e].role = "engineer"
    BY <1>3, <2>1, <2>3
  <2>5. e <= Len(turns'[L.room]) /\ Len(turns'[L.room]) \in Nat
    BY <1>1, <2>4, LenProperties DEF TypeOK
  <2> QED BY <2>1, <2>2, <2>4, <2>5
<1>6. \E e \in DOMAIN turns'[L.room] :
         turns'[L.room][e].role = "engineer" /\ turns'[L.room][e].result = h.checkpoint.candidate
  BY <1>2, <1>3 DEF Earned
<1>7. _changed(L.handoff.baseline, h.commit)' \subseteq L.owned
  <2>1. commits'[L.handoff.baseline] = commits[L.handoff.baseline]
        /\ commits'[h.commit] = commits[h.commit]
    BY <1>1 DEF Kept
  <2>2. _changed(L.handoff.baseline, h.commit)' = _changed(L.handoff.baseline, h.commit)
    BY <1>1, <2>1 DEF _changed
  <2> QED BY <2>2 DEF Earned
<1> QED BY <1>1, <1>4, <1>5, <1>6, <1>7 DEF Earned

-----------------------------------------------------------------------------
(***************************************************************************)
(* The invariant, part by part.                                            *)
(***************************************************************************)
\* Which steps touch the requests, and which the checkpoint.
LEMMA TurnsSteps ==
    ASSUME [Next]_vars
    PROVE  \/ \E r \in Rooms : complete(r) \/ \E role \in {"engineer", "reviewer"} : send(r, role)
           \/ UNCHANGED turns
<1>1. ASSUME NEW r \in Rooms, \/ spec_put(r) \/ hand_off(r) \/ verify(r) \/ commit(r) \/ reset(r)
                               \/ \E i \in DOMAIN turns[r] : accept(r, i)
      PROVE UNCHANGED turns
  BY <1>1 DEF spec_put, hand_off, verify, commit, reset, accept, work
<1>2. ASSUME NEW o \in Rooms, NEW b \in Rooms, NEW a \in Assignments,
             NEW owned \in SUBSET Paths \ {{}}, NEW old \in (Assignments \ {a}) \cup {None},
             assignment_open(o, b, a, owned, old)
      PROVE UNCHANGED turns
  BY <1>2 DEF assignment_open, work
<1>3. ASSUME NEW r \in Rooms, NEW a \in Assignments,
             \/ \E i \in DOMAIN turns[r] : handback_record(r, a, i)
             \/ import_preflight(r, a)
             \/ \E resolution \in BOOLEAN : import_record(r, a, resolution)
      PROVE UNCHANGED turns
  BY <1>3 DEF handback_record, import_preflight, import_record, work
<1>4. CASE UNCHANGED vars
  BY <1>4 DEF vars, work
<1> QED BY <1>1, <1>2, <1>3, <1>4 DEF Next

LEMMA CheckSteps ==
    ASSUME [Next]_vars
    PROVE  \/ \E r \in Rooms : spec_put(r) \/ hand_off(r) \/ verify(r)
           \/ UNCHANGED <<checks, checkpoint, spec>>
<1>1. ASSUME NEW r \in Rooms,
             \/ complete(r) \/ commit(r) \/ reset(r)
             \/ \E role \in {"engineer", "reviewer"} : send(r, role)
             \/ \E i \in DOMAIN turns[r] : accept(r, i)
      PROVE UNCHANGED <<checks, checkpoint, spec>>
  BY <1>1 DEF complete, commit, reset, send, accept, work
<1>2. ASSUME NEW o \in Rooms, NEW b \in Rooms, NEW a \in Assignments,
             NEW owned \in SUBSET Paths \ {{}}, NEW old \in (Assignments \ {a}) \cup {None},
             assignment_open(o, b, a, owned, old)
      PROVE UNCHANGED <<checks, checkpoint, spec>>
  BY <1>2 DEF assignment_open, work
<1>3. ASSUME NEW r \in Rooms, NEW a \in Assignments,
             \/ \E i \in DOMAIN turns[r] : handback_record(r, a, i)
             \/ import_preflight(r, a)
             \/ \E resolution \in BOOLEAN : import_record(r, a, resolution)
      PROVE UNCHANGED <<checks, checkpoint, spec>>
  BY <1>3 DEF handback_record, import_preflight, import_record, work
<1>4. CASE UNCHANGED vars
  BY <1>4 DEF vars, work
<1> QED BY <1>1, <1>2, <1>3, <1>4 DEF Next

LEMMA StepGit == IInv /\ [Next]_vars => GitInv'
<1> SUFFICES ASSUME IInv, [Next]_vars PROVE GitInv'
  OBVIOUS
<1> USE DEF IInv
<1>a. \A r \in Rooms : handoff[r] \in Handoff
  BY DEF TypeOK
<1>1. ASSUME NEW r \in Rooms, spec_put(r) \/ complete(r) \/ verify(r) PROVE GitInv'
  BY <1>1 DEF spec_put, complete, verify, GitInv, Committed, git, assignment
<1>2. ASSUME NEW r \in Rooms, hand_off(r) PROVE GitInv'
  <2>1. handoff' = [handoff EXCEPT ![r] = [spec |-> spec[r], baseline |-> head[r]]]
    BY <1>2 DEF hand_off
  <2>2. UNCHANGED <<commits, head, lineage, lifecycle>>
    BY <1>2 DEF hand_off, git, assignment
  <2> QED BY <2>1, <2>2 DEF GitInv, Committed, TypeOK
<1>3. ASSUME NEW r \in Rooms, commit(r) PROVE GitInv'
  <2>1. UNCHANGED <<handoff, lineage, lifecycle>>
    BY <1>3 DEF commit, work, assignment
  <2>2. head' = [head EXCEPT ![r] = Len(commits) + 1]
    BY <1>3 DEF commit
  <2>3. /\ Len(commits) \in Nat /\ Committed = 1..Len(commits)
        /\ Committed' = 1..(Len(commits) + 1)
        /\ \A c \in Committed : commits'[c] = commits[c]
        /\ commits'[Len(commits) + 1].ancestors \subseteq Committed
    BY <1>3, CommitAdds
  <2>4. Committed \subseteq Committed' /\ Len(commits) + 1 \in Committed'
    BY <2>3
  <2>5. ASSUME NEW c \in Committed' PROVE commits'[c].ancestors \subseteq Committed'
    <3>1. c \in Committed \/ c = Len(commits) + 1
      BY <2>3
    <3> QED BY <2>3, <2>4, <3>1 DEF GitInv
  <2>6. \A b \in Rooms : head'[b] \in Committed'
    BY <2>2, <2>4 DEF GitInv, TypeOK
  <2> QED BY <2>1, <2>4, <2>5, <2>6 DEF GitInv
<1>4. ASSUME NEW r \in Rooms, reset(r) PROVE GitInv'
  <2>1. UNCHANGED <<commits, handoff, lineage, lifecycle>>
    BY <1>4 DEF reset, work, assignment
  <2>2. \A b \in Rooms : head'[b] \in Committed
    <3>1. CASE UNCHANGED head
      BY <3>1 DEF GitInv
    <3>2. ASSUME NEW c \in commits[head[r]].ancestors, head' = [head EXCEPT ![r] = c]
          PROVE  \A b \in Rooms : head'[b] \in Committed
      <4>1. c \in Committed
        BY DEF GitInv
      <4> QED BY <3>2, <4>1 DEF GitInv, TypeOK
    <3> QED BY <1>4, <3>1, <3>2 DEF reset
  <2> QED BY <2>1, <2>2 DEF GitInv, Committed
<1>5. ASSUME NEW r \in Rooms,
             \/ \E role \in {"engineer", "reviewer"} : send(r, role)
             \/ \E i \in DOMAIN turns[r] : accept(r, i)
      PROVE GitInv'
  BY <1>5 DEF send, accept, GitInv, Committed, git, assignment
<1>6. ASSUME NEW o \in Rooms, NEW b \in Rooms, NEW a \in Assignments,
             NEW owned \in SUBSET Paths \ {{}}, NEW old \in (Assignments \ {a}) \cup {None},
             assignment_open(o, b, a, owned, old)
      PROVE GitInv'
  <2>1. UNCHANGED <<commits, head, handoff>>
    BY <1>6 DEF assignment_open, git, work
  <2>2. ASSUME NEW x \in Assignments, lineage'[x] # None
        PROVE  lineage'[x].handoff.baseline \in Committed
    <3>1. CASE lineage[x] # None
      BY <1>6, <3>1, AdmissionWrites DEF GitInv, Admitted
    <3>2. CASE lineage[x] = None
      <4>1. /\ \A y \in Assignments \ {a} : lineage'[y] = lineage[y]
            /\ lineage[a] = None => lineage'[a] = _new_lineage(o, b, owned, old)
        <5>1. Admitted(o, b, a, owned, old)
          BY <1>6, AdmissionWrites
        <5> QED BY <5>1 DEF Admitted
      <4>2. x = a /\ lineage'[a] = _new_lineage(o, b, owned, old)
        BY <2>2, <3>2, <4>1
      <4> QED BY <4>2 DEF _new_lineage, GitInv
    <3> QED BY <3>1, <3>2
  <2>3. ASSUME NEW x \in Assignments, lifecycle'[x] # None, lifecycle'[x].latest # None
        PROVE  lifecycle'[x].latest.commit \in Committed
    <3>1. \/ lifecycle'[x] = lifecycle[x]
          \/ lifecycle'[x] = _new_lifecycle
          \/ lifecycle[x] # None /\ lifecycle'[x] = [lifecycle[x] EXCEPT !.state = "superseded"]
      BY <1>6, AdmissionWrites DEF Admitted
    <3>2. lifecycle[x] # None => lifecycle[x] \in Lifecycle
      BY DEF TypeOK
    <3>3. lifecycle[x] # None /\ lifecycle'[x].latest = lifecycle[x].latest
      BY <2>3, <3>1, <3>2 DEF _new_lifecycle, Lifecycle
    <3> QED BY <2>3, <3>3 DEF GitInv
  <2> QED BY <2>1, <2>2, <2>3 DEF GitInv, Committed
<1>7. ASSUME NEW r \in Rooms, NEW a \in Assignments, NEW i \in DOMAIN turns[r],
             handback_record(r, a, i)
      PROVE GitInv'
  <2>1. UNCHANGED <<commits, head, handoff, lineage>>
    BY <1>7 DEF handback_record, git, work
  <2>2. lifecycle[a] \in Lifecycle
    BY <1>7 DEF handback_record, TypeOK
  <2>3. lifecycle'[a].latest.commit = head[r]
        /\ \A x \in Assignments \ {a} : lifecycle'[x] = lifecycle[x]
    <3>1. lifecycle'[a].latest = [commit |-> head[r], request |-> i, checkpoint |-> checkpoint[r]]
      BY <1>7, HandbackWrites
    <3>2. \A x \in Assignments \ {a} : lifecycle'[x] = lifecycle[x]
      BY <1>7, HandbackWrites
    <3> QED BY <3>1, <3>2
  <2> QED BY <2>1, <2>3 DEF GitInv, Committed
<1>8. ASSUME NEW r \in Rooms, NEW a \in Assignments,
             \/ import_preflight(r, a)
             \/ \E resolution \in BOOLEAN : import_record(r, a, resolution)
      PROVE GitInv'
  <2>1. UNCHANGED <<commits, head, handoff, lineage>>
    BY <1>8 DEF import_preflight, import_record, git, work
  <2>2. lifecycle[a] # None /\ lifecycle[a].latest # None /\ lifecycle[a] \in Lifecycle
    BY <1>8, NoneAssumption DEF import_preflight, import_record, State, HandbackInv, TypeOK
  <2>3. /\ \A x \in Assignments \ {a} : lifecycle'[x] = lifecycle[x]
        /\ lifecycle'[a].latest = lifecycle[a].latest
    <3>1. CASE import_preflight(r, a)
      BY <2>2, <3>1, PreflightWrites
    <3>2. ASSUME NEW resolution \in BOOLEAN, import_record(r, a, resolution)
          PROVE  /\ \A x \in Assignments \ {a} : lifecycle'[x] = lifecycle[x]
                 /\ lifecycle'[a].latest = lifecycle[a].latest
      BY <2>2, <3>2, ImportWrites
    <3> QED BY <1>8, <3>1, <3>2
  <2> QED BY <2>1, <2>2, <2>3 DEF GitInv, Committed
<1>9. CASE UNCHANGED vars
  BY <1>9 DEF vars, git, work, assignment, GitInv, Committed
<1> QED BY <1>1, <1>2, <1>3, <1>4, <1>5, <1>6, <1>7, <1>8, <1>9 DEF Next

LEMMA StepResult == IInv /\ [Next]_vars => ResultInv'
<1> SUFFICES ASSUME IInv, [Next]_vars PROVE ResultInv'
  OBVIOUS
<1> USE DEF IInv
<1>1. ASSUME NEW r \in Rooms, complete(r) PROVE ResultInv'
  <2>1. ASSUME NEW b \in Rooms, NEW i \in DOMAIN turns'[b], turns'[b][i].state = "active"
        PROVE  i \in DOMAIN turns[b] /\ turns'[b][i] = turns[b][i]
    BY <1>1, <2>1, CompleteKeeps
  <2> QED BY <2>1 DEF ResultInv
<1>2. ASSUME NEW r \in Rooms, NEW role \in {"engineer", "reviewer"}, send(r, role)
      PROVE ResultInv'
  <2>1. ASSUME NEW b \in Rooms, NEW i \in DOMAIN turns'[b]
        PROVE  turns'[b][i].result = None \/ (i \in DOMAIN turns[b] /\ turns'[b][i] = turns[b][i])
    <3>1. CASE b = r
      <4>1. i \in DOMAIN turns[r] \/ i = Len(turns[r]) + 1
        BY <1>2, <2>1, <3>1, SendAdds
      <4> QED BY <1>2, <3>1, <4>1, SendAdds
    <3>2. CASE b # r
      BY <1>2, <3>2, SendAdds
    <3> QED BY <3>1, <3>2
  <2> QED BY <2>1 DEF ResultInv
<1>3. CASE UNCHANGED turns
  BY <1>3 DEF ResultInv
<1> QED BY <1>1, <1>2, <1>3, TurnsSteps

LEMMA StepCheck == IInv /\ [Next]_vars => CheckInv'
<1> SUFFICES ASSUME IInv, [Next]_vars PROVE CheckInv'
  OBVIOUS
<1> USE DEF IInv
<1>a. \A r \in Rooms : /\ checks[r] \in Nat
                       /\ checkpoint[r] # None => checkpoint[r].candidate # None
  BY NoneAssumption DEF TypeOK, Check
<1>b. ASSUME NEW r \in Rooms, NEW candidate, candidate # None, Captured(r, candidate)
      PROVE  Captured(r, candidate)'
  <2>1. Kept
    BY StepKeeps
  <2> QED BY <1>b, <2>1 DEF Kept, Captured
<1>1. ASSUME NEW r \in Rooms, spec_put(r) \/ hand_off(r) PROVE CheckInv'
  <2>1. /\ UNCHANGED <<checks, turns>> /\ checkpoint' = [checkpoint EXCEPT ![r] = None]
        /\ \A x \in Rooms \ {r} : spec'[x] = spec[x]
    BY <1>1 DEF spec_put, hand_off, TypeOK
  <2>2. ASSUME NEW x \in Rooms, checkpoint'[x] # None
        PROVE  x # r /\ checkpoint'[x] = checkpoint[x]
    BY <2>1, <2>2 DEF TypeOK
  <2> QED BY <2>1, <2>2 DEF CheckInv, Captured
<1>2. ASSUME NEW r \in Rooms, verify(r) PROVE CheckInv'
  <2>1. /\ checks' = [checks EXCEPT ![r] = @ + 1]
        /\ checkpoint' = [checkpoint EXCEPT ![r] =
              [id |-> checks[r] + 1, candidate |-> Candidate(r), spec |-> spec[r]]]
        /\ UNCHANGED <<spec, turns>> /\ engineering_ready(r)
    BY <1>2 DEF verify
  <2>2. Captured(r, Candidate(r))
    BY <2>1, LatestEngineers DEF engineering_ready, Captured
  <2>3. /\ checks'[r] = checks[r] + 1 /\ checkpoint'[r].id = checks[r] + 1
        /\ checkpoint'[r].spec = spec[r] /\ checkpoint'[r].candidate = Candidate(r)
    BY <2>1 DEF TypeOK
  <2>4. \A x \in Rooms \ {r} : checks'[x] = checks[x] /\ checkpoint'[x] = checkpoint[x]
    BY <2>1 DEF TypeOK
  <2>5. ASSUME NEW x \in Rooms, checkpoint'[x] # None
        PROVE  /\ checkpoint'[x].id = checks'[x] /\ checks'[x] > 0
               /\ checkpoint'[x].spec = spec[x]
               /\ Captured(x, checkpoint'[x].candidate)
    <3>1. CASE x = r
      BY <1>a, <2>2, <2>3, <3>1
    <3>2. CASE x # r
      BY <2>4, <2>5, <3>2 DEF CheckInv
    <3> QED BY <3>1, <3>2
  <2> QED BY <2>1, <2>5 DEF CheckInv, Captured
<1>3. CASE UNCHANGED <<checks, checkpoint, spec>>
  BY <1>3, <1>a, <1>b DEF CheckInv
<1> QED BY <1>1, <1>2, <1>3, CheckSteps

LEMMA StepLineage == IInv /\ [Next]_vars => LineageInv'
<1> SUFFICES ASSUME IInv, [Next]_vars PROVE LineageInv'
  OBVIOUS
<1>a. Kept /\ TypeOK'
  BY StepKeeps, StepType
<1>b. \A x \in Assignments : lineage[x] # None =>
         lineage[x].room \in Rooms /\ lineage[x].start.checkpoint \in Nat
  BY DEF IInv, TypeOK, Lineage
<1>c. \A r \in Rooms : checks[r] \in Nat /\ checks'[r] \in Nat /\ checks[r] <= checks'[r]
  BY <1>a DEF IInv, TypeOK, Kept
<1> USE DEF IInv
<1>1. ASSUME NEW o \in Rooms, NEW b \in Rooms, NEW a \in Assignments,
             NEW owned \in SUBSET Paths \ {{}}, NEW old \in (Assignments \ {a}) \cup {None},
             assignment_open(o, b, a, owned, old)
      PROVE LineageInv'
  <2>0. Admitted(o, b, a, owned, old)
    BY <1>1, AdmissionWrites DEF IInv
  <2>a. /\ \A x \in Assignments : lineage[x] # None => lineage'[x] = lineage[x]
        /\ \A x \in Assignments \ {a} : lineage'[x] = lineage[x]
        /\ lineage[a] = None => lineage'[a] = _new_lineage(o, b, owned, old)
        /\ lineage'[a] # None
    BY <2>0 DEF Admitted
  <2>b. \A x \in Assignments :
           \/ lifecycle'[x] = lifecycle[x]
           \/ x = a /\ lifecycle[a] = None /\ lifecycle'[a] = _new_lifecycle
           \/ /\ x = old /\ lineage[a] = None /\ Engaged(x) /\ lifecycle[x] # None
              /\ lifecycle'[x] = [lifecycle[x] EXCEPT !.state = "superseded"]
    BY <2>0 DEF Admitted
  <2>1. UNCHANGED checks
    BY <1>1 DEF assignment_open, work
  <2>2. ASSUME NEW x \in Assignments, lifecycle'[x] # None PROVE lineage'[x] # None
    <3>1. lifecycle[x] # None \/ x = a
      BY <2>2, <2>b
    <3>2. CASE x = a
      BY <2>a, <3>2
    <3>3. CASE lifecycle[x] # None
      BY <1>a, <3>3 DEF LineageInv, Kept
    <3> QED BY <3>1, <3>2, <3>3
  <2>3. ASSUME NEW x \in Assignments, lineage'[x] # None
        PROVE  lineage'[x].start.checkpoint <= checks[lineage'[x].room]
    <3>1. CASE lineage[x] # None
      BY <1>a, <3>1 DEF LineageInv, Kept
    <3>2. CASE lineage[x] = None
      <4>1. lineage'[x] = _new_lineage(o, b, owned, old)
        BY <2>3, <2>a, <3>2
      <4> QED BY <1>c, <4>1 DEF _new_lineage
    <3> QED BY <3>1, <3>2
  <2> QED BY <2>1, <2>2, <2>3 DEF LineageInv
<1>2. CASE UNCHANGED lineage /\ \A x \in Assignments : lifecycle'[x] # None => lifecycle[x] # None
  BY <1>2, <1>b, <1>c DEF LineageInv
<1>3. ASSUME NEW r \in Rooms, NEW a \in Assignments,
             \/ \E i \in DOMAIN turns[r] : handback_record(r, a, i)
             \/ import_preflight(r, a)
             \/ \E resolution \in BOOLEAN : import_record(r, a, resolution)
      PROVE UNCHANGED lineage /\ \A x \in Assignments : lifecycle'[x] # None => lifecycle[x] # None
  <2>1. lifecycle[a] # None
    BY <1>3, NoneAssumption
       DEF handback_record, import_preflight, import_record, State
  <2>2. UNCHANGED lineage /\ \A x \in Assignments \ {a} : lifecycle'[x] = lifecycle[x]
    BY <1>3 DEF handback_record, import_preflight, import_record, TypeOK
  <2> QED BY <2>1, <2>2
<1>4. ASSUME NEW r \in Rooms,
             \/ spec_put(r) \/ hand_off(r) \/ complete(r) \/ verify(r) \/ commit(r) \/ reset(r)
             \/ \E role \in {"engineer", "reviewer"} : send(r, role)
             \/ \E i \in DOMAIN turns[r] : accept(r, i)
      PROVE UNCHANGED <<lineage, lifecycle, coordination>>
  BY <1>4 DEF spec_put, hand_off, complete, verify, commit, reset, send, accept, assignment
<1>5. CASE UNCHANGED vars
  BY <1>2, <1>5 DEF vars, assignment
<1> QED BY <1>1, <1>2, <1>3, <1>4, <1>5 DEF Next

\* What a handback records is earned.
LEMMA HandbackEarned ==
    ASSUME IInv, NEW b \in Rooms, NEW a \in Assignments, NEW i \in DOMAIN turns[b],
           handback_record(b, a, i)
    PROVE  Earned(a, [commit |-> head[b], request |-> i, checkpoint |-> checkpoint[b]])
<1> DEFINE L == lineage[a]
           h == [commit |-> head[b], request |-> i, checkpoint |-> checkpoint[b]]
<1> USE DEF IInv
<1>1. /\ L # None /\ L \in Lineage /\ L.room = b
      /\ spec[b] = L.spec /\ Current(b) /\ AfterAdmission(a, b, i) /\ InScope(a, head[b])
      /\ head[b] = checkpoint[b].candidate.head
      /\ \E acc \in acceptances[b] : acc.request = i /\ acc.checkpoint = checkpoint[b]
  BY DEF handback_record, TypeOK
<1>2. /\ checkpoint[b].id = checks[b] /\ checks[b] > 0 /\ checks[b] \in Nat
      /\ checkpoint[b].spec = spec[b] /\ Captured(b, checkpoint[b].candidate)
  BY <1>1 DEF CheckInv, Current, TypeOK
<1>3. L.start.checkpoint \in Nat /\ L.start.requests \in Nat /\ L.start.checkpoint <= checks[b]
  BY <1>1 DEF Lineage, LineageInv
<1>4. h.request > L.start.requests /\ h.checkpoint.id > L.start.checkpoint
  BY <1>1, <1>2, <1>3 DEF AfterAdmission
<1>5. \E e \in L.start.requests + 1 .. Len(turns[b]) : turns[b][e].role = "engineer"
  <2>1. Len(turns[b]) \in Nat /\ DOMAIN turns[b] = 1..Len(turns[b])
    BY LenProperties DEF TypeOK
  <2>2. latest(b) > L.start.requests
    BY <1>1 DEF AfterAdmission
  <2>3. latest(b) # 0
    BY <1>3, <2>2
  <2>4. latest(b) \in 1..Len(turns[b]) /\ turns[b][latest(b)].role = "engineer"
    BY <2>1, <2>3, LatestEngineers
  <2>5. latest(b) \in L.start.requests + 1 .. Len(turns[b])
    BY <1>3, <2>1, <2>2, <2>4
  <2> QED BY <2>4, <2>5
<1>6. _changed(L.handoff.baseline, h.commit) \subseteq L.owned
  BY <1>1 DEF InScope
<1> QED BY <1>1, <1>2, <1>4, <1>5, <1>6 DEF Earned, Captured

LEMMA StepHandback == IInv /\ [Next]_vars => HandbackInv'
<1> SUFFICES ASSUME IInv, [Next]_vars PROVE HandbackInv'
  OBVIOUS
<1>a. Kept /\ TypeOK' /\ None \notin STATES
  BY StepKeeps, StepType, NoneAssumption
<1> DEFINE Good(x) ==
              /\ State(x) \in {"handback_recorded", "imported"} =>
                    lifecycle[x].latest # None /\ Earned(x, lifecycle[x].latest)
              /\ State(x) = "imported" =>
                    /\ lifecycle[x].import # None
                    /\ lifecycle[x].import.handback = lifecycle[x].latest
                    /\ Names(lineage[x].owner, "owner", x)
\* An earned handback that the step does not replace stays earned.
<1>b. ASSUME NEW x \in Assignments, lifecycle[x] # None, lifecycle[x].latest # None,
             Earned(x, lifecycle[x].latest), lifecycle'[x].latest = lifecycle[x].latest
      PROVE  Earned(x, lifecycle[x].latest)'
  <2>1. lineage[x] # None /\ lifecycle[x].latest \in Handback
        /\ lifecycle[x].latest.commit \in Committed
    BY <1>b DEF IInv, LineageInv, TypeOK, Lifecycle, GitInv
  <2>2. PICK h \in Handback : h = lifecycle[x].latest
    BY <2>1
  <2>3. Earned(x, h)'
    BY <1>a, <1>b, <2>1, <2>2, EarnedStays
  <2> QED BY <1>b, <2>2, <2>3 DEF Earned, _changed
\* An assignment the step leaves alone, but perhaps for its pointers.
<1>c. ASSUME NEW x \in Assignments,
             lifecycle[x] # None, lifecycle'[x] # None, lifecycle'[x].latest = lifecycle[x].latest,
             lifecycle'[x].state = lifecycle[x].state, lifecycle'[x].import = lifecycle[x].import,
             \A r \in Rooms : /\ ToSet(coordination[r].ids) \subseteq ToSet(coordination'[r].ids)
                              /\ coordination[r].role = "owner" => coordination'[r].role = "owner"
      PROVE  Good(x)'
  <2>1. State(x)' = State(x) /\ Good(x) /\ lineage'[x] = lineage[x]
    BY <1>a, <1>c DEF State, IInv, HandbackInv, LineageInv, Kept
  <2>2. lineage[x] \in Lineage
    BY <1>c DEF IInv, LineageInv, TypeOK
  <2>3. Names(lineage[x].owner, "owner", x) => Names(lineage[x].owner, "owner", x)'
    BY <1>c, <2>1, <2>2 DEF Names, Ids, Lineage
  <2>4. State(x) \in {"handback_recorded", "imported"} => Earned(x, lifecycle[x].latest)'
    BY <1>b, <1>c, <2>1
  <2> QED BY <1>c, <2>1, <2>3, <2>4
<1>d. ASSUME NEW x \in Assignments, lifecycle'[x] = None PROVE Good(x)'
  BY <1>a, <1>d DEF State
<1> HIDE DEF Good
<1>e. (\A x \in Assignments : Good(x)') => HandbackInv'
  BY DEF Good, HandbackInv
<1>1. CASE UNCHANGED <<lifecycle, coordination>>
  BY <1>1, <1>c, <1>d, <1>e
<1>2. ASSUME NEW o \in Rooms, NEW b \in Rooms, NEW a \in Assignments,
             NEW owned \in SUBSET Paths \ {{}}, NEW old \in (Assignments \ {a}) \cup {None},
             assignment_open(o, b, a, owned, old)
      PROVE HandbackInv'
  <2>1. \A r \in Rooms : /\ ToSet(coordination[r].ids) \subseteq ToSet(coordination'[r].ids)
                         /\ coordination[r].role = "owner" => coordination'[r].role = "owner"
    BY <1>2, AdmissionWrites DEF IInv, Admitted
  <2>2. ASSUME NEW x \in Assignments PROVE Good(x)'
    <3>1. \/ lifecycle'[x] = lifecycle[x]
          \/ lifecycle'[x] = _new_lifecycle
          \/ lifecycle[x] # None /\ lifecycle'[x] = [lifecycle[x] EXCEPT !.state = "superseded"]
      BY <1>2, AdmissionWrites DEF IInv, Admitted
    <3>2. CASE lifecycle'[x] = lifecycle[x]
      BY <1>c, <1>d, <2>1, <3>2
    <3>3. CASE lifecycle'[x] = _new_lifecycle
      BY <1>a, <3>3 DEF Good, State, _new_lifecycle
    <3>4. CASE lifecycle[x] # None /\ lifecycle'[x] = [lifecycle[x] EXCEPT !.state = "superseded"]
      <4>1. lifecycle[x] \in Lifecycle
        BY <3>4 DEF IInv, TypeOK
      <4>2. lifecycle'[x].state = "superseded"
        BY <3>4, <4>1 DEF Lifecycle
      <4> QED BY <1>a, <4>2 DEF Good, State
    <3> QED BY <3>1, <3>2, <3>3, <3>4
  <2> QED BY <2>2, <1>e
<1>3. ASSUME NEW b \in Rooms, NEW a \in Assignments, NEW i \in DOMAIN turns[b],
             handback_record(b, a, i)
      PROVE HandbackInv'
  <2> DEFINE record == [commit |-> head[b], request |-> i, checkpoint |-> checkpoint[b]]
  <2>1. /\ record \in Handback
        /\ \A x \in Assignments \ {a} : lifecycle'[x] = lifecycle[x]
        /\ lifecycle'[a] # None /\ lifecycle'[a].latest = record
        /\ lifecycle'[a].state = "handback_recorded"
    BY <1>3, HandbackWrites DEF IInv
  <2>2. UNCHANGED coordination
    BY <1>3 DEF handback_record
  <2>3. Earned(a, record)
    BY <1>3, HandbackEarned
  <2>4. lineage[a] # None /\ record.commit \in Committed /\ record # None
    BY <1>3, <2>1, NoneAssumption DEF handback_record, IInv, GitInv
  <2> HIDE DEF record
  <2>5. Good(a)'
    <3>1. PICK h \in Handback : h = record
      BY <2>1
    <3>2. Earned(a, h)'
      BY <1>a, <2>3, <2>4, <3>1, EarnedStays
    <3>3. lifecycle'[a].latest = h /\ h # None
      BY <2>1, <2>4, <3>1
    <3>4. Earned(a, lifecycle[a].latest)'
      BY <3>2, <3>3 DEF Earned, _changed
    <3> QED BY <1>a, <2>1, <3>3, <3>4 DEF Good, State
  <2>6. ASSUME NEW x \in Assignments \ {a} PROVE Good(x)'
    BY <1>c, <1>d, <2>1, <2>2
  <2> QED BY <1>e, <2>5, <2>6
<1>4. ASSUME NEW o \in Rooms, NEW a \in Assignments, import_preflight(o, a) PROVE HandbackInv'
  <2>1. lifecycle[a] # None /\ lifecycle[a].latest # None
    BY <1>4, NoneAssumption DEF import_preflight, State, IInv, HandbackInv
  <2>2. UNCHANGED coordination
    BY <1>4 DEF import_preflight
  <2>3. Good(a)'
    BY <1>4, <1>c, <2>1, <2>2, PreflightWrites DEF IInv
  <2>4. ASSUME NEW x \in Assignments \ {a} PROVE Good(x)'
    BY <1>4, <1>c, <1>d, <2>1, <2>2, PreflightWrites DEF IInv
  <2> QED BY <1>e, <2>3, <2>4
<1>5. ASSUME NEW o \in Rooms, NEW a \in Assignments, NEW resolution \in BOOLEAN,
             import_record(o, a, resolution)
      PROVE HandbackInv'
  <2>1. /\ lifecycle[a] # None /\ lifecycle[a].state = "handback_recorded"
        /\ lineage[a].owner = o /\ Names(o, "owner", a) /\ lineage[a] \in Lineage
    BY <1>5, NoneAssumption DEF import_record, State, IInv, TypeOK
  <2>2. UNCHANGED <<coordination, lineage>>
    BY <1>5 DEF import_record
  <2>3. /\ lifecycle'[a] # None /\ lifecycle'[a].latest = lifecycle[a].latest
        /\ lifecycle'[a].state = "imported"
        /\ lifecycle'[a].import \in Import
        /\ lifecycle'[a].import.handback = lifecycle[a].latest
        /\ \A x \in Assignments \ {a} : lifecycle'[x] = lifecycle[x]
    <3> DEFINE import == [handback |-> lifecycle[a].latest, after |-> head[o],
                          requests |-> Len(turns[o])]
    <3>1. /\ import \in Import
          /\ lifecycle'[a] # None /\ lifecycle'[a].latest = lifecycle[a].latest
          /\ lifecycle'[a].state = "imported" /\ lifecycle'[a].import = import
          /\ \A x \in Assignments \ {a} : lifecycle'[x] = lifecycle[x]
      BY <1>5, <2>1, ImportWrites DEF IInv
    <3>2. import.handback = lifecycle[a].latest
      OBVIOUS
    <3> HIDE DEF import
    <3> QED BY <3>1, <3>2
  <2>4. lifecycle[a].latest # None /\ Earned(a, lifecycle[a].latest)
    BY <2>1 DEF State, IInv, HandbackInv
  <2>5. Good(a)'
    <3>1. Earned(a, lifecycle[a].latest)'
      BY <1>b, <2>1, <2>3, <2>4
    <3>2. Names(lineage[a].owner, "owner", a)'
      BY <2>1, <2>2 DEF Names, Ids
    <3>3. lifecycle'[a].import # None
      BY <2>3, NoneAssumption
    <3> QED BY <2>3, <2>4, <3>1, <3>2, <3>3 DEF Good
  <2>6. ASSUME NEW x \in Assignments \ {a} PROVE Good(x)'
    BY <1>c, <1>d, <2>2, <2>3
  <2> QED BY <1>e, <2>5, <2>6
<1>6. ASSUME NEW r \in Rooms,
             \/ spec_put(r) \/ hand_off(r) \/ complete(r) \/ verify(r) \/ commit(r) \/ reset(r)
             \/ \E role \in {"engineer", "reviewer"} : send(r, role)
             \/ \E i \in DOMAIN turns[r] : accept(r, i)
      PROVE UNCHANGED <<lifecycle, coordination>>
  BY <1>6 DEF spec_put, hand_off, complete, verify, commit, reset, send, accept, assignment
<1>7. CASE UNCHANGED vars
  BY <1>1, <1>7 DEF vars, assignment
<1> QED BY <1>1, <1>2, <1>3, <1>4, <1>5, <1>6, <1>7 DEF Next

LEMMA PointerSteps ==
    ASSUME [Next]_vars
    PROVE  \/ \E o, b \in Rooms, a \in Assignments :
                 \E owned \in SUBSET Paths \ {{}}, old \in (Assignments \ {a}) \cup {None} :
                    assignment_open(o, b, a, owned, old)
           \/ UNCHANGED <<lineage, coordination>>
<1>1. ASSUME NEW r \in Rooms,
             \/ spec_put(r) \/ hand_off(r) \/ complete(r) \/ verify(r) \/ commit(r) \/ reset(r)
             \/ \E role \in {"engineer", "reviewer"} : send(r, role)
             \/ \E i \in DOMAIN turns[r] : accept(r, i)
      PROVE UNCHANGED <<lineage, coordination>>
  BY <1>1 DEF spec_put, hand_off, complete, verify, commit, reset, send, accept, assignment
<1>2. ASSUME NEW r \in Rooms, NEW a \in Assignments,
             \/ \E i \in DOMAIN turns[r] : handback_record(r, a, i)
             \/ import_preflight(r, a)
             \/ \E resolution \in BOOLEAN : import_record(r, a, resolution)
      PROVE UNCHANGED <<lineage, coordination>>
  BY <1>2 DEF handback_record, import_preflight, import_record
<1>3. CASE UNCHANGED vars
  BY <1>3 DEF vars, assignment
<1> QED BY <1>1, <1>2, <1>3 DEF Next

LEMMA StepPointer == IInv /\ [Next]_vars => PointerInv'
<1> SUFFICES ASSUME IInv, [Next]_vars PROVE PointerInv'
  OBVIOUS
<1>1. PointerInv
  BY DEF IInv
<1>2. CASE UNCHANGED <<lineage, coordination>>
  BY <1>1, <1>2 DEF PointerInv, Ids
<1>3. ASSUME NEW o \in Rooms, NEW b \in Rooms, NEW a \in Assignments,
             NEW owned \in SUBSET Paths \ {{}}, NEW old \in (Assignments \ {a}) \cup {None},
             assignment_open(o, b, a, owned, old)
      PROVE PointerInv'
  <2>1. Admitted(o, b, a, owned, old)
    BY <1>3, AdmissionWrites DEF IInv
  <2>2. lineage'[a] # None /\ \A x \in Assignments : lineage[x] # None => lineage'[x] # None
    BY <2>1 DEF Admitted
  <2>3. ASSUME NEW r \in Rooms
        PROVE  /\ \A x \in ToSet(coordination'[r].ids) : lineage'[x] # None
               /\ coordination'[r].role = None => ToSet(coordination'[r].ids) = {}
    <3>1. /\ \A x \in ToSet(coordination[r].ids) : x \in Assignments /\ lineage[x] # None
          /\ coordination[r].role = None => ToSet(coordination[r].ids) = {}
      <4>1. coordination[r].ids \in Seq(Assignments)
        BY DEF IInv, TypeOK
      <4>2. \A x \in ToSet(coordination[r].ids) : x \in Assignments
        BY <4>1, ElementOfSeq, LenProperties DEF ToSet
      <4> QED BY <1>1, <4>2 DEF PointerInv, Ids
    <3>2. \/ coordination'[r] = coordination[r]
          \/ /\ coordination'[r].role \in {"assignment", "owner"}
             /\ ToSet(coordination'[r].ids) = ToSet(coordination[r].ids) \cup {a}
      BY <2>1 DEF Admitted
    <3>3. None \notin {"assignment", "owner"}
      BY NoneAssumption
    <3> QED BY <2>2, <3>1, <3>2, <3>3
  <2> QED BY <2>3 DEF PointerInv, Ids
<1> QED BY <1>2, <1>3, PointerSteps

\* What EngagedApart says of two assignments.
Apart(a, b) ==
    \/ /\ lineage[a].owned \cap lineage[b].owned = {} /\ lineage[a].owner # lineage[b].owner
       /\ \A r \in Rooms : ~(Names(r, "assignment", a) /\ Names(r, "assignment", b))
    \/ lineage[a].supersedes = b \/ lineage[b].supersedes = a

\* A step that admits nothing engages nothing and moves no pointer.
LEMMA OnlyAdmissionEngages ==
    ASSUME IInv, [Next]_vars
    PROVE  \/ \E o, b \in Rooms, a \in Assignments :
                 \E owned \in SUBSET Paths \ {{}}, old \in (Assignments \ {a}) \cup {None} :
                    assignment_open(o, b, a, owned, old)
           \/ /\ UNCHANGED <<lineage, coordination>>
              /\ \A x \in Assignments : Engaged(x)' => Engaged(x)
<1>1. ASSUME NEW r \in Rooms, NEW a \in Assignments,
             \/ \E i \in DOMAIN turns[r] : handback_record(r, a, i)
             \/ import_preflight(r, a)
             \/ \E resolution \in BOOLEAN : import_record(r, a, resolution)
      PROVE UNCHANGED <<lineage, coordination>> /\ \A x \in Assignments : Engaged(x)' => Engaged(x)
  <2>1. UNCHANGED <<lineage, coordination>> /\ Engaged(a)
    BY <1>1 DEF handback_record, import_preflight, import_record, Engaged
  <2>2. ASSUME NEW x \in Assignments \ {a} PROVE lifecycle'[x] = lifecycle[x]
    BY <1>1 DEF handback_record, import_preflight, import_record, IInv, TypeOK
  <2> QED BY <2>1, <2>2 DEF Engaged, State
<1>2. ASSUME NEW r \in Rooms,
             \/ spec_put(r) \/ hand_off(r) \/ complete(r) \/ verify(r) \/ commit(r) \/ reset(r)
             \/ \E role \in {"engineer", "reviewer"} : send(r, role)
             \/ \E i \in DOMAIN turns[r] : accept(r, i)
      PROVE UNCHANGED <<lineage, lifecycle, coordination>>
  BY <1>2 DEF spec_put, hand_off, complete, verify, commit, reset, send, accept, assignment
<1>3. CASE UNCHANGED vars
  BY <1>3 DEF vars, assignment, Engaged, State
<1>4. CASE UNCHANGED <<lineage, lifecycle, coordination>>
  BY <1>4 DEF Engaged, State
<1> QED BY <1>1, <1>2, <1>3, <1>4 DEF Next

\* An admission leaves the others engaged as they were; what it admits it
\* engages for the first time, or it was engaged already.
LEMMA AdmissionEngages ==
    ASSUME IInv, NEW o \in Rooms, NEW b \in Rooms, NEW a \in Assignments,
           NEW owned \in SUBSET Paths \ {{}}, NEW old \in (Assignments \ {a}) \cup {None},
           assignment_open(o, b, a, owned, old)
    PROVE  /\ \A x \in Assignments \ {a} : lineage'[x] = lineage[x] /\ (Engaged(x)' => Engaged(x))
           /\ lineage[a] # None => lineage'[a] = lineage[a] /\ (Engaged(a)' => Engaged(a))
           /\ terminal_repair(a) => ~Engaged(a)'
<1>0. Admitted(o, b, a, owned, old)
  BY AdmissionWrites DEF IInv
<1>a. /\ \A x \in Assignments : lineage[x] # None => lineage'[x] = lineage[x]
      /\ \A x \in Assignments \ {a} : lineage'[x] = lineage[x]
  BY <1>0 DEF Admitted
<1>b. \A x \in Assignments :
         \/ lifecycle'[x] = lifecycle[x]
         \/ x = a /\ lifecycle[a] = None /\ lifecycle'[a] = _new_lifecycle
         \/ /\ x = old /\ lineage[a] = None /\ Engaged(x) /\ lifecycle[x] # None
            /\ lifecycle'[x] = [lifecycle[x] EXCEPT !.state = "superseded"]
  BY <1>0 DEF Admitted
<1>1. ASSUME NEW x \in Assignments, x # a PROVE lineage'[x] = lineage[x] /\ (Engaged(x)' => Engaged(x))
  <2>1. lineage'[x] = lineage[x] /\ (lifecycle'[x] = lifecycle[x] \/ Engaged(x))
    BY <1>1, <1>a, <1>b
  <2> QED BY <2>1 DEF Engaged, State
<1>2. ASSUME lineage[a] # None PROVE lineage'[a] = lineage[a] /\ (Engaged(a)' => Engaged(a))
  <2>1. lineage'[a] = lineage[a]
    BY <1>2, <1>a
  <2>2. lifecycle'[a] = lifecycle[a] \/ lifecycle[a] = None
    BY <1>2, <1>b
  <2>3. lifecycle[a] = None => Engaged(a)
    BY <1>2 DEF Engaged, State, ENGAGED
  <2>4. lifecycle'[a] = lifecycle[a] => (Engaged(a)' <=> Engaged(a))
    BY <2>1 DEF Engaged, State
  <2> QED BY <2>1, <2>2, <2>3, <2>4
<1>3. terminal_repair(a) => lineage[a] # None /\ ~Engaged(a)
  BY DEF terminal_repair, IInv, LineageInv
<1>4. \A x \in Assignments \ {a} : lineage'[x] = lineage[x] /\ (Engaged(x)' => Engaged(x))
  BY <1>1
<1>5. lineage[a] # None => lineage'[a] = lineage[a] /\ (Engaged(a)' => Engaged(a))
  BY <1>2
<1>6. terminal_repair(a) => ~Engaged(a)'
  BY <1>3, <1>5
<1> QED BY <1>4, <1>5, <1>6 DEF Engaged, State

LEMMA StepApart == IInv /\ [Next]_vars => EngagedApart'
<1> SUFFICES ASSUME IInv, [Next]_vars PROVE EngagedApart'
  OBVIOUS
<1>a. \A x, y \in Assignments : x # y /\ Engaged(x) /\ Engaged(y) => Apart(x, y)
  BY DEF IInv, EngagedApart, Apart
<1>b. (\A x, y \in Assignments : x # y /\ Engaged(x)' /\ Engaged(y)' => Apart(x, y)') => EngagedApart'
  BY DEF EngagedApart, Apart
<1>1. ASSUME UNCHANGED <<lineage, coordination>>, \A x \in Assignments : Engaged(x)' => Engaged(x)
      PROVE EngagedApart'
  <2>1. ASSUME NEW x \in Assignments, NEW y \in Assignments PROVE Apart(x, y)' <=> Apart(x, y)
    BY <1>1 DEF Apart, Names, Ids
  <2> QED BY <1>1, <1>a, <1>b, <2>1
<1>2. ASSUME NEW o \in Rooms, NEW b \in Rooms, NEW a \in Assignments,
             NEW owned \in SUBSET Paths \ {{}}, NEW old \in (Assignments \ {a}) \cup {None},
             assignment_open(o, b, a, owned, old)
      PROVE EngagedApart'
  <2>0. Admitted(o, b, a, owned, old)
    BY <1>2, AdmissionWrites DEF IInv
  <2>1. /\ \A x \in Assignments \ {a} : lineage'[x] = lineage[x] /\ (Engaged(x)' => Engaged(x))
        /\ lineage[a] # None => lineage'[a] = lineage[a] /\ (Engaged(a)' => Engaged(a))
        /\ terminal_repair(a) => ~Engaged(a)'
    BY <1>2, AdmissionEngages
  <2>2. /\ lineage'[a].supersedes = old
        /\ \A r \in Rooms :
              \/ coordination'[r] = coordination[r]
              \/ /\ coordination'[r].role = IF r = b THEN "assignment" ELSE "owner"
                 /\ ToSet(coordination'[r].ids) = ToSet(coordination[r].ids) \cup {a}
    BY <2>0 DEF Admitted
  <2>3. \A r \in Rooms : \A x \in ToSet(coordination[r].ids) :
           coordination[r].role # None /\ lineage[x] # None
    BY DEF IInv, PointerInv, Ids
  \* A room points as an assignment room to what it pointed to so before, or to a.
  <2>4. ASSUME NEW r \in Rooms, NEW x \in Assignments, Names(r, "assignment", x)', x # a
        PROVE  /\ x \in Ids(r) /\ (coordination'[r] = coordination[r] \/ r = b)
               /\ coordination'[r] = coordination[r] => Names(r, "assignment", x)
               /\ coordination[b].role \in {None, "assignment"} /\ r = b => Names(r, "assignment", x)
    <3>1. coordination'[r].role = "assignment" /\ x \in ToSet(coordination'[r].ids)
      BY <2>4 DEF Names, Ids
    <3>2. x \in ToSet(coordination[r].ids) /\ (coordination'[r] = coordination[r] \/ r = b)
      BY <2>2, <2>4, <3>1
    <3> QED BY <2>3, <3>1, <3>2 DEF Names, Ids
  <2>5. /\ coordination[b].role \in {None, "assignment"}
        /\ \A x \in Ids(b) \ {a, old} : ~Engaged(x) \/ terminal_repair(a)
    BY <1>2 DEF assignment_open, Unengaged
  \* Two others.
  <2>6. ASSUME NEW x \in Assignments \ {a}, NEW y \in Assignments \ {a}, x # y, Engaged(x)', Engaged(y)'
        PROVE Apart(x, y)'
    <3>1. lineage'[x] = lineage[x] /\ lineage'[y] = lineage[y] /\ Apart(x, y)
      BY <1>a, <2>1, <2>6
    <3>2. ASSUME NEW r \in Rooms, Names(r, "assignment", x)', Names(r, "assignment", y)'
          PROVE Names(r, "assignment", x) /\ Names(r, "assignment", y)
      BY <2>4, <2>5, <3>2
    <3> QED BY <3>1, <3>2 DEF Apart
  \* The admitted one and another.
  <2>7. ASSUME NEW x \in Assignments \ {a}, Engaged(x)', Engaged(a)' PROVE Apart(x, a)' /\ Apart(a, x)'
    <3>1. CASE x = old
      BY <2>2, <3>1 DEF Apart
    <3>2. CASE x # old
      <4>1. ASSUME NEW r \in Rooms, Names(r, "assignment", x)', Names(r, "assignment", a)',
                   lineage[a] # None => ~(Names(r, "assignment", x) /\ Names(r, "assignment", a))
            PROVE FALSE
        <5>1. x \in Ids(r) /\ (coordination'[r] = coordination[r] \/ r = b)
          BY <2>4, <4>1
        <5>2. r # b
          BY <2>1, <2>5, <2>7, <3>2, <5>1
        <5>3. coordination'[r] = coordination[r]
          BY <5>1, <5>2
        <5>4. Names(r, "assignment", x) /\ Names(r, "assignment", a)
          BY <4>1, <5>3 DEF Names, Ids
        <5>5. lineage[a] # None
          BY <2>3, <5>4 DEF Names, Ids
        <5> QED BY <4>1, <5>4, <5>5
      <4>2. CASE lineage[a] = None
        <5>1. lineage'[a] = _new_lineage(o, b, owned, old) /\ lineage'[x] = lineage[x] /\ Engaged(x)
          BY <2>0, <2>1, <2>7, <4>2 DEF Admitted
        <5>2. _scan(o, owned, {a, old})
          BY <1>2, <4>2 DEF assignment_open, terminal_repair, IInv, LineageInv
        <5>3. lineage'[x].owned \cap lineage'[a].owned = {} /\ lineage'[x].owner # lineage'[a].owner
          BY <3>2, <5>1, <5>2 DEF _new_lineage, _scan
        <5> QED BY <4>1, <4>2, <5>3 DEF Apart
      <4>3. CASE lineage[a] # None
        <5>1. lineage'[a] = lineage[a] /\ lineage'[x] = lineage[x] /\ Apart(x, a) /\ Apart(a, x)
          BY <1>a, <2>1, <2>7, <4>3
        <5> QED BY <4>1, <5>1 DEF Apart
      <4> QED BY <4>2, <4>3
    <3> QED BY <3>1, <3>2
  <2> QED BY <1>b, <2>6, <2>7
<1> QED BY <1>1, <1>2, OnlyAdmissionEngages

-----------------------------------------------------------------------------
(***************************************************************************)
(* The invariant holds initially and is preserved: of every reachable      *)
(* state of the two rooms, whatever crashes in an admission.               *)
(***************************************************************************)
THEOREM CoordinationInvariant == Spec => []IInv
<1>1. Init => IInv
  <2> SUFFICES ASSUME Init PROVE IInv
    OBVIOUS
  <2>1. TypeOK
    BY InitType
  <2>2. commits \in Seq(Commit) /\ Len(commits) = 1
    BY <2>1 DEF Init, TypeOK
  <2>3. Committed = {1}
    BY <2>2, LenProperties DEF Committed
  <2>4. GitInv /\ ResultInv /\ CheckInv
    BY <2>3 DEF Init, GitInv, ResultInv, CheckInv
  <2>5. LineageInv
    BY DEF Init, LineageInv
  <2>6. HandbackInv /\ EngagedApart
    BY NoneAssumption DEF Init, HandbackInv, EngagedApart, State, Engaged
  <2>7. PointerInv
    BY DEF Init, PointerInv, Ids, ToSet
  <2> QED BY <2>1, <2>4, <2>5, <2>6, <2>7 DEF IInv
<1>2. IInv /\ [Next]_vars => IInv'
  BY StepType, StepGit, StepResult, StepCheck, StepLineage, StepHandback, StepPointer, StepApart DEF IInv
<1> QED BY <1>1, <1>2, PTL DEF Spec

\* The types of the state variables (TypeOK) in every reachable state.
THEOREM TypeCorrect == Spec => []TypeOK
  BY CoordinationInvariant, PTL DEF IInv

(***************************************************************************)
(* Assignments engaged at once overlap in no path and share no owner       *)
(* unless one supersedes the other, for any number of rooms, assignments   *)
(* and interrupted admissions (_scan, assignment_open).                    *)
(***************************************************************************)
THEOREM EngagementsApart == Spec => []EngagedApart
  BY CoordinationInvariant, PTL DEF IInv

(***************************************************************************)
(* An import is the latest handback, verified and accepted after the       *)
(* admission, under the pinned specification and inside the owned paths    *)
(* (handback_record, import_record).                                       *)
(***************************************************************************)
THEOREM ImportsHonest == Spec => []ImportHonest
<1>1. IInv => ImportHonest
  BY DEF IInv, HandbackInv, ImportHonest
<1> QED BY <1>1, CoordinationInvariant, PTL

\* A released assignment never engages its paths again, and its import stays
\* what it was (terminal_repair in assignment_open).
THEOREM ReleasesKept == Spec => ReleasedForGood
<1> DEFINE Released(a) == State(a) \in {"imported", "superseded"} =>
               lifecycle'[a].state = lifecycle[a].state /\ lifecycle'[a].import = lifecycle[a].import
<1>1. IInv /\ [Next]_vars =>
         [\A a \in Assignments : State(a) \in {"imported", "superseded"} =>
             lifecycle'[a].state = lifecycle[a].state /\ lifecycle'[a].import = lifecycle[a].import]_vars
  <2> SUFFICES ASSUME IInv, [Next]_vars PROVE \A a \in Assignments : Released(a)
    OBVIOUS
  <2>1. ASSUME NEW x \in Assignments, State(x) \in {"imported", "superseded"}
        PROVE  lifecycle[x] # None /\ ~Engaged(x)
    BY <2>1, NoneAssumption DEF State, Engaged
  <2>2. ASSUME NEW o \in Rooms, NEW b \in Rooms, NEW a \in Assignments,
               NEW owned \in SUBSET Paths \ {{}}, NEW old \in (Assignments \ {a}) \cup {None},
               assignment_open(o, b, a, owned, old)
        PROVE  \A x \in Assignments : Released(x)
    <3>1. Admitted(o, b, a, owned, old)
      BY <2>2, AdmissionWrites DEF IInv
    <3> QED BY <2>1, <3>1 DEF Admitted
  <2>3. ASSUME NEW r \in Rooms, NEW a \in Assignments,
               \/ \E i \in DOMAIN turns[r] : handback_record(r, a, i)
               \/ import_preflight(r, a)
               \/ \E resolution \in BOOLEAN : import_record(r, a, resolution)
        PROVE  \A x \in Assignments : Released(x)
    <3>1. State(a) \in ENGAGED
      BY <2>3 DEF handback_record, import_preflight, import_record, Engaged
    <3>2. ASSUME NEW x \in Assignments \ {a} PROVE lifecycle'[x] = lifecycle[x]
      BY <2>3 DEF handback_record, import_preflight, import_record, IInv, TypeOK
    <3> QED BY <3>1, <3>2
  <2>4. ASSUME NEW r \in Rooms,
               \/ spec_put(r) \/ hand_off(r) \/ complete(r) \/ verify(r) \/ commit(r) \/ reset(r)
               \/ \E role \in {"engineer", "reviewer"} : send(r, role)
               \/ \E i \in DOMAIN turns[r] : accept(r, i)
        PROVE  UNCHANGED lifecycle
    BY <2>4 DEF spec_put, hand_off, complete, verify, commit, reset, send, accept, assignment
  <2>5. CASE UNCHANGED vars
    BY <2>5 DEF vars, assignment
  <2> QED BY <2>2, <2>3, <2>4, <2>5 DEF Next
<1> QED BY <1>1, CoordinationInvariant, PTL DEF Spec, ReleasedForGood

\* An owner accepts after an import only what was engineered since and descends
\* from the imported HEAD (before_owner_accept, engineering_ready).
THEOREM AcceptancesAfterImport == Spec => AcceptedAfterImport
<1> DEFINE After(r) == acceptances'[r] # acceptances[r] =>
          \A a \in Assignments :
             lineage[a] # None /\ lineage[a].owner = r /\ State(a) = "imported" =>
                LET I == lifecycle[a].import
                IN  /\ \E e \in I.requests + 1 .. Len(turns[r]) :
                          turns[r][e].role = "engineer" /\ turns[r][e].result = Candidate(r)
                    /\ _is_ancestor(I.after, head[r])
<1>1. IInv /\ [Next]_vars => [\A r \in Rooms : After(r)]_vars
  <2> SUFFICES ASSUME IInv, [Next]_vars PROVE \A r \in Rooms : After(r)
    OBVIOUS
  <2>1. ASSUME NEW r \in Rooms, NEW i \in DOMAIN turns[r], accept(r, i)
        PROVE  \A q \in Rooms : After(q)
    <3>1. \A q \in Rooms \ {r} : acceptances'[q] = acceptances[q]
      BY <2>1 DEF accept, IInv, TypeOK
    <3>2. ASSUME NEW a \in Assignments, lineage[a] # None, lineage[a].owner = r, State(a) = "imported"
          PROVE  /\ \E e \in lifecycle[a].import.requests + 1 .. Len(turns[r]) :
                       turns[r][e].role = "engineer" /\ turns[r][e].result = Candidate(r)
                 /\ _is_ancestor(lifecycle[a].import.after, head[r])
      <4>1. Names(r, "owner", a) /\ lifecycle[a].import \in Import
        BY <3>2, NoneAssumption DEF IInv, HandbackInv, TypeOK, State, Lifecycle
      <4>2. _is_ancestor(lifecycle[a].import.after, head[r])
            /\ latest(r) > lifecycle[a].import.requests
        BY <2>1, <3>2, <4>1 DEF accept, before_owner_accept, Names
      <4>3. latest(r) # 0 /\ turns[r][latest(r)].result = Candidate(r)
        BY <2>1 DEF accept, engineering_ready
      <4>4. latest(r) \in DOMAIN turns[r] /\ turns[r][latest(r)].role = "engineer"
        BY <4>3, LatestEngineers DEF IInv
      <4>5. DOMAIN turns[r] = 1..Len(turns[r]) /\ Len(turns[r]) \in Nat
            /\ lifecycle[a].import.requests \in Nat
        BY <4>1, LenProperties DEF IInv, TypeOK, Import
      <4>6. latest(r) \in lifecycle[a].import.requests + 1 .. Len(turns[r])
        BY <4>2, <4>4, <4>5
      <4> QED BY <4>2, <4>3, <4>4, <4>6
    <3> QED BY <3>1, <3>2
  <2>2. ASSUME NEW o \in Rooms, NEW b \in Rooms, NEW a \in Assignments,
               NEW owned \in SUBSET Paths \ {{}}, NEW old \in (Assignments \ {a}) \cup {None},
               assignment_open(o, b, a, owned, old)
        PROVE  UNCHANGED acceptances
    BY <2>2 DEF assignment_open, work
  <2>3. ASSUME NEW r \in Rooms, NEW a \in Assignments,
               \/ \E i \in DOMAIN turns[r] : handback_record(r, a, i)
               \/ import_preflight(r, a)
               \/ \E resolution \in BOOLEAN : import_record(r, a, resolution)
        PROVE  UNCHANGED acceptances
    BY <2>3 DEF handback_record, import_preflight, import_record, work
  <2>4. ASSUME NEW r \in Rooms,
               \/ spec_put(r) \/ hand_off(r) \/ complete(r) \/ verify(r) \/ commit(r) \/ reset(r)
               \/ \E role \in {"engineer", "reviewer"} : send(r, role)
        PROVE  UNCHANGED acceptances
    BY <2>4 DEF spec_put, hand_off, complete, verify, commit, reset, send, work
  <2>5. CASE UNCHANGED vars
    BY <2>5 DEF vars, work
  <2> QED BY <2>1, <2>2, <2>3, <2>4, <2>5 DEF Next
<1> QED BY <1>1, CoordinationInvariant, PTL DEF Spec, AcceptedAfterImport

-----------------------------------------------------------------------------
(***************************************************************************)
(* The guard of reads.  What its ledger and its processes are.             *)
(***************************************************************************)
Revisions == [ino : Nat, size : Nat, anchor : Seq(Reads!Row \cup {Reads!Turn})]
Entry == [args : Args, bytes : Nat]
Ledgers == [ino : Nat, entries : [Assignments -> {None} \cup Entry]]
Continuity == [revision : Revisions, bindings : [Assignments -> {None} \cup (Paths \X Args)]]
Admissions == [call : Assignments, message : Paths, args : Args, bytes : Nat]

Locked == {"recheck", "reserve", "session", "record", "sync"}
Hook == [at : {"idle", "correlate", "measure", "lock"} \cup Locked,
         call : Assignments \cup {None}, args : Args \cup {None}, message : Paths \cup {None},
         revision : Revisions \cup {None}, checks : Nat, bytes : Nat]

ReadTypes ==
    /\ log \in Seq(Reads!Row \cup {Reads!Turn}) /\ ino \in Nat
    /\ extent \in [Args -> Nat]
    /\ session \in Continuity \cup {None}
    /\ records \in [Paths -> Ledgers \cup {None}]
    /\ hooks \in [Rooms -> Hook]
    /\ admitted \subseteq Admissions

\* What a guard at work is about, and which one has the lock.
HookInv ==
    \A h \in Rooms :
        /\ hooks[h].at # "idle" => hooks[h].call \in Assignments /\ hooks[h].args \in Args
        /\ hooks[h].at \in {"measure", "lock"} \cup Locked => hooks[h].message \in Paths /\ hooks[h].revision \in Revisions
        /\ hooks[h].at \in Locked => lock = h

\* A guard that has decided knows the read to be new or the same; the binding is
\* written before the entry, and the entry before the answer.
Decided(hook) ==
    LET bound == Reads!Bindings[hook.call]
        listed == Reads!RecordOf(hook.message)[hook.call]
        same == listed = [args |-> hook.args, bytes |-> hook.bytes]
        read == <<hook.message, hook.args>>
    IN  /\ hook.at = "session" => (listed = None /\ bound \in {None, read}) \/ (same /\ bound = read)
        /\ hook.at = "record" => listed = None /\ bound = read
        /\ hook.at = "sync" => same /\ bound = read
DecidedInv == \A h \in Rooms : Decided(hooks[h])

\* Every read let through is in both records.
AdmittedInv ==
    \A x \in admitted :
        /\ Reads!Bindings[x.call] = <<x.message, x.args>>
        /\ Reads!RecordOf(x.message)[x.call] = [args |-> x.args, bytes |-> x.bytes]

ReadInv == ReadTypes /\ HookInv /\ DecidedInv /\ AdmittedInv

\* None is no record of the ledger.
LEMMA LedgerNone ==
    /\ None \notin Entry /\ None \notin Ledgers /\ None \notin Continuity /\ None \notin Paths \X Args
    /\ None \notin Assignments /\ None \notin Rooms
BY ReadNone DEF Entry, Ledgers, Continuity, Revisions

\* What the records say, by type.
LEMMA RecordTypes ==
    ASSUME ReadTypes
    PROVE  /\ Reads!Bindings \in [Assignments -> {None} \cup (Paths \X Args)]
           /\ \A m \in Paths : Reads!RecordOf(m) \in [Assignments -> {None} \cup Entry]
BY LedgerNone DEF ReadTypes, Reads!Bindings, Reads!RecordOf, Reads!NoEntries, Continuity, Ledgers

\* The first of some numbers.
LEMMA FirstOf ==
    ASSUME NEW S \in SUBSET Nat, S # {}
    PROVE  Reads!Min(S) \in S
<1> DEFINE R == OpToRel(<, Nat)
<1>1. IsWellFoundedOn(R, Nat)
  BY NatLessThanWellFounded
<1> HIDE DEF R
<1>2. PICK x \in S : \A y \in S : ~(<<y, x>> \in R)
  BY <1>1, WFMin
<1>3. \A y \in S : x <= y
  <2>1. \A z \in S : z \in Nat
    OBVIOUS
  <2>2. ASSUME NEW y \in S, y < x PROVE <<y, x>> \in R
    BY <2>1, <2>2 DEF R, OpToRel
  <2>3. ASSUME NEW y \in S PROVE x <= y
    <3>1. x \in Nat /\ y \in Nat
      BY <2>1
    <3>2. ~(y < x)
      BY <1>2, <2>2
    <3> QED BY <3>1, <3>2
  <2> QED BY <2>3
<1>4. \E z \in S : \A y \in S : z <= y
  BY <1>3
<1> QED BY <1>4 DEF Reads!Min

\* The record of a revision.
LEMMA RevisionType ==
    ASSUME ReadTypes, NEW n \in 0 .. Len(log)
    PROVE  Reads!Revision(n) \in Revisions
<1> DEFINE S == {1, n - AnchorRows + 1}
           a == Reads!Max(S)
<1>1. n \in Nat /\ Len(log) \in Nat /\ AnchorRows \in Nat /\ n - AnchorRows + 1 \in Int
  BY ReadBounds, LenProperties DEF ReadTypes
<1>2. a \in Nat /\ a >= 1
  <2>1. \E x \in S : \A y \in S : x >= y
    BY <1>1
  <2>2. a \in S /\ \A y \in S : a >= y
    BY <2>1 DEF Reads!Max
  <2>3. 1 \in S
    OBVIOUS
  <2> HIDE DEF S
  <2>4. a >= 1
    BY <2>2, <2>3
  <2>5. a \in Int
    BY <1>1, <2>2 DEF S
  <2> QED BY <2>4, <2>5
<1>3. SubSeq(log, a, n) \in Seq(Reads!Row \cup {Reads!Turn})
  <2> HIDE DEF a
  <2> QED BY <1>1, <1>2, SubSeqProperties DEF ReadTypes
<1> QED BY <1>1, <1>3 DEF Reads!Revision, Revisions, ReadTypes

\* The message of a call that was found.
LEMMA FoundMessage ==
    ASSUME ReadTypes, NEW c \in Assignments, NEW x, Reads!Found(c, x)
    PROVE  Reads!MessageOf(c) \in Paths
<1>1. Reads!Matches(c) \subseteq DOMAIN log /\ Reads!Matches(c) # {} /\ DOMAIN log \subseteq Nat
  BY LenProperties DEF Reads!Matches, Reads!Window, Reads!Found, ReadTypes
<1>2. Reads!Min(Reads!Matches(c)) \in Reads!Matches(c)
  BY <1>1, FirstOf
<1>3. /\ log[Reads!Min(Reads!Matches(c))] \in Reads!Row \cup {Reads!Turn}
      /\ log[Reads!Min(Reads!Matches(c))].call = c
  BY <1>1, <1>2 DEF ReadTypes, Reads!Matches
<1> QED BY <1>3, LedgerNone DEF Reads!MessageOf, Reads!Row, Reads!Turn

\* A guard takes a step that leaves the ledger alone.
LEMMA HookMoves ==
    ASSUME ReadInv, NEW h \in Rooms, NEW f \in Hook, Reads!Step(h, f),
           UNCHANGED <<log, ino, extent, session, records, admitted>>,
           f.at # "idle" => f.call \in Assignments /\ f.args \in Args,
           f.at \in {"measure", "lock"} \cup Locked => f.message \in Paths /\ f.revision \in Revisions,
           f.at \in Locked => lock' = h, lock' = lock \/ lock = None \/ lock = h,
           Decided(f)
    PROVE  ReadInv'
<1>1. /\ hooks' \in [Rooms -> Hook] /\ hooks'[h] = f
      /\ \A k \in Rooms : k # h => hooks'[k] = hooks[k]
  BY DEF ReadInv, ReadTypes, Reads!Step
<1>2. ReadTypes'
  BY <1>1 DEF ReadInv, ReadTypes
<1>3. HookInv'
  <2>1. ASSUME NEW k \in Rooms, k # h, hooks[k].at \in Locked PROVE lock' = k
    <3>1. lock = k /\ k # None
      BY <2>1, LedgerNone DEF ReadInv, HookInv
    <3> QED BY <2>1, <3>1
  <2> QED BY <1>1, <2>1 DEF ReadInv, HookInv
<1>4. Reads!Bindings' = Reads!Bindings /\ \A m \in Paths \cup {None} : Reads!RecordOf(m)' = Reads!RecordOf(m)
  BY DEF Reads!Bindings, Reads!RecordOf
<1>5. \A k \in Rooms : hooks'[k] \in Hook /\ (k = h => hooks'[k] = f) /\ (k # h => hooks'[k] = hooks[k])
  BY <1>1
<1>6. DecidedInv'
  <2>1. ASSUME NEW k \in Rooms PROVE Decided(hooks[k])'
    <3>1. Decided(hooks[k]) \/ k = h
      BY DEF ReadInv, DecidedInv
    <3>2. UNCHANGED <<session, records>>
      OBVIOUS
    <3>3. CASE k = h
      <4>1. hooks'[k] = f
        BY <1>5, <3>3
      <4> QED BY <3>2, <4>1 DEF Decided, Reads!Bindings, Reads!RecordOf
    <3>4. CASE k # h
      <4>1. hooks'[k] = hooks[k]
        BY <1>5, <3>4
      <4>2. Decided(hooks[k])
        BY <3>1, <3>4
      <4>3. /\ session' = session /\ records' = records
        BY <3>2
      <4> QED BY <4>1, <4>2, <4>3 DEF Decided, Reads!Bindings, Reads!RecordOf
    <3> QED BY <3>3, <3>4
  <2> QED BY <2>1 DEF DecidedInv
<1>7. AdmittedInv'
  BY DEF ReadInv, AdmittedInv, Reads!Bindings, Reads!RecordOf
<1> QED BY <1>2, <1>3, <1>6, <1>7 DEF ReadInv

\* A refused read, and a guard that was killed.
LEMMA Denied ==
    ASSUME ReadInv, NEW h \in Rooms, Reads!Deny(h),
           UNCHANGED <<log, ino, extent, session, records, admitted>>, lock' = lock \/ lock = h
    PROVE  ReadInv'
<1>1. Reads!Idle \in Hook /\ Reads!Idle.at = "idle"
  BY DEF Reads!Idle, Hook
<1>2. Decided(Reads!Idle)
  BY <1>1 DEF Decided
<1> QED BY <1>1, <1>2, HookMoves DEF Reads!Deny, Locked

-----------------------------------------------------------------------------
(***************************************************************************)
(* The steps of a guard.                                                   *)
(***************************************************************************)
\* Up to the decision.
LEMMA Correlates ==
    ASSUME ReadInv, NEW h \in Rooms,
           \/ \E c \in Assignments, x \in Args : Reads!Begin(h, c, x)
           \/ Reads!_read_message_identity_with_readiness(h)
           \/ Reads!_measure_read(h) \/ Reads!_lock_state(h) \/ Reads!_recheck(h)
    PROVE  ReadInv'
<1> DEFINE hook == hooks[h]
<1>1. /\ UNCHANGED <<log, ino, extent, session, records, admitted>>
      /\ hook \in Hook
  BY DEF Reads!Begin, Reads!_read_message_identity_with_readiness, Reads!_measure_read,
     Reads!_lock_state, Reads!_recheck, Reads!Elsewhere, Reads!transcript, Reads!state, ReadInv, ReadTypes
<1>2. /\ hook.at # "idle" => hook.call \in Assignments /\ hook.args \in Args
      /\ hook.at \in {"measure", "lock"} \cup Locked => hook.message \in Paths /\ hook.revision \in Revisions
      /\ hook.at \in Locked => lock = h
  BY DEF ReadInv, HookInv
<1>3. ASSUME NEW c \in Assignments, NEW x \in Args, Reads!Begin(h, c, x) PROVE ReadInv'
  <2>1. PICK f : f = [Reads!Idle EXCEPT !.at = "correlate", !.call = c, !.args = x]
    OBVIOUS
  <2>2. f \in Hook /\ f.at = "correlate" /\ f.call = c /\ f.args = x
    BY <2>1 DEF Reads!Idle, Hook
  <2>3. Reads!Step(h, f) /\ lock' = lock
    BY <1>3, <2>1 DEF Reads!Begin
  <2>4. Decided(f)
    BY <2>2 DEF Decided
  <2> QED BY <1>1, <2>2, <2>3, <2>4, HookMoves DEF Locked
<1>4. ASSUME Reads!_read_message_identity_with_readiness(h) PROVE ReadInv'
  <2>1. hook.at = "correlate" /\ lock' = lock
    BY <1>4 DEF Reads!_read_message_identity_with_readiness, Reads!At
  <2>2. ASSUME NEW m \in Paths, NEW r \in Revisions,
               Reads!Step(h, [hook EXCEPT !.at = "measure", !.message = m, !.revision = r, !.checks = 0])
        PROVE  ReadInv'
    <3>1. PICK f : f = [hook EXCEPT !.at = "measure", !.message = m, !.revision = r, !.checks = 0]
      OBVIOUS
    <3>2. /\ f \in Hook /\ f.at = "measure" /\ f.call = hook.call /\ f.args = hook.args
          /\ f.message = m /\ f.revision = r
      BY <1>1, <3>1 DEF Hook
    <3>3. Reads!Step(h, f)
      BY <2>2, <3>1
    <3>4. Decided(f)
      BY <3>2 DEF Decided
    <3> QED BY <1>1, <1>2, <2>1, <3>2, <3>3, <3>4, HookMoves DEF Locked
  <2>3. ASSUME NEW r \in Revisions, Reads!Step(h, [hook EXCEPT !.checks = @ + 1, !.revision = r])
        PROVE  ReadInv'
    <3>1. PICK f : f = [hook EXCEPT !.checks = @ + 1, !.revision = r]
      OBVIOUS
    <3>2. f \in Hook /\ f.at = "correlate" /\ f.call = hook.call /\ f.args = hook.args
      <4>1. hook.checks \in Nat
        BY <1>1 DEF Hook
      <4>2. PICK n \in Nat : n = hook.checks + 1
        BY <4>1
      <4>3. f = [hook EXCEPT !.checks = n, !.revision = r]
        BY <1>1, <3>1, <4>2 DEF Hook
      <4> QED BY <1>1, <2>1, <4>3 DEF Hook
    <3>3. Reads!Step(h, f)
      BY <2>3, <3>1
    <3>4. Decided(f)
      BY <3>2 DEF Decided
    <3> QED BY <1>1, <1>2, <2>1, <3>2, <3>3, <3>4, HookMoves DEF Locked
  <2>4. Len(log) \in Nat
    BY LenProperties DEF ReadInv, ReadTypes
  <2>5. Reads!Revision(Len(log)) \in Revisions /\ Reads!Revision(0) \in Revisions
    BY <2>4, RevisionType DEF ReadInv
  <2>6. Reads!Found(hook.call, hook.args) => Reads!MessageOf(hook.call) \in Paths
    BY <1>2, <2>1, FoundMessage DEF ReadInv
  <2>7. \/ Reads!Deny(h)
        \/ /\ Reads!Found(hook.call, hook.args)
           /\ Reads!Step(h, [hook EXCEPT !.at = "measure", !.message = Reads!MessageOf(hook.call),
                                         !.revision = Reads!Revision(0), !.checks = 0])
        \/ Reads!Step(h, [hook EXCEPT !.checks = @ + 1, !.revision = Reads!Revision(Len(log))])
    BY <1>4 DEF Reads!_read_message_identity_with_readiness
  <2> QED BY <1>1, <2>1, <2>2, <2>3, <2>5, <2>6, <2>7, Denied
<1>5. ASSUME Reads!_measure_read(h) PROVE ReadInv'
  <2>1. hook.at = "measure" /\ lock' = lock
    BY <1>5 DEF Reads!_measure_read, Reads!At
  <2>2. CASE Reads!Step(h, [hook EXCEPT !.at = "lock", !.bytes = extent[hook.args]])
    <3>1. extent[hook.args] \in Nat
      BY <1>2, <2>1 DEF ReadInv, ReadTypes
    <3>2. PICK f : f = [hook EXCEPT !.at = "lock", !.bytes = extent[hook.args]]
      OBVIOUS
    <3>3. /\ f \in Hook /\ f.at = "lock" /\ f.call = hook.call /\ f.args = hook.args
          /\ f.message = hook.message /\ f.revision = hook.revision
      BY <1>1, <3>1, <3>2 DEF Hook
    <3>4. Reads!Step(h, f)
      BY <2>2, <3>2
    <3>5. Decided(f)
      BY <3>3 DEF Decided
    <3> QED BY <1>1, <1>2, <2>1, <3>3, <3>4, <3>5, HookMoves DEF Locked
  <2> QED BY <1>1, <1>5, <2>1, <2>2, Denied DEF Reads!_measure_read
<1>6. ASSUME Reads!_lock_state(h) PROVE ReadInv'
  <2>1. hook.at = "lock"
    BY <1>6 DEF Reads!_lock_state, Reads!At
  <2>2. CASE lock = None /\ lock' = h /\ Reads!Step(h, [hook EXCEPT !.at = "recheck"])
    <3>1. PICK f : f = [hook EXCEPT !.at = "recheck"]
      OBVIOUS
    <3>2. /\ f \in Hook /\ f.at = "recheck" /\ f.call = hook.call /\ f.args = hook.args
          /\ f.message = hook.message /\ f.revision = hook.revision
      BY <1>1, <3>1 DEF Hook, Locked
    <3>3. Reads!Step(h, f)
      BY <2>2, <3>1
    <3>4. Decided(f)
      BY <3>2 DEF Decided
    <3> QED BY <1>1, <1>2, <2>1, <2>2, <3>2, <3>3, <3>4, HookMoves DEF Locked
  <2> QED BY <1>1, <1>6, <2>2, Denied DEF Reads!_lock_state
<1>7. ASSUME Reads!_recheck(h) PROVE ReadInv'
  <2>1. hook.at = "recheck"
    BY <1>7 DEF Reads!_recheck, Reads!At
  <2>2. CASE Reads!Step(h, [hook EXCEPT !.at = "reserve", !.revision = Reads!Revision(Len(log))]) /\ lock' = lock
    <3>1. Len(log) \in Nat
      BY LenProperties DEF ReadInv, ReadTypes
    <3>2. Reads!Revision(Len(log)) \in Revisions
      BY <3>1, RevisionType DEF ReadInv
    <3>3. PICK f : f = [hook EXCEPT !.at = "reserve", !.revision = Reads!Revision(Len(log))]
      OBVIOUS
    <3>4. /\ f \in Hook /\ f.at = "reserve" /\ f.call = hook.call /\ f.args = hook.args
          /\ f.message = hook.message /\ f.revision \in Revisions
      BY <1>1, <3>2, <3>3 DEF Hook, Locked
    <3>5. Reads!Step(h, f)
      BY <2>2, <3>3
    <3>6. Decided(f)
      BY <3>4 DEF Decided
    <3> QED BY <1>1, <1>2, <2>1, <2>2, <3>4, <3>5, <3>6, HookMoves DEF Locked
  <2>3. CASE Reads!Release(h)
    BY <1>1, <1>2, <2>1, <2>3, Denied DEF Reads!Release, Locked
  <2> QED BY <1>7, <2>2, <2>3 DEF Reads!_recheck
<1> QED BY <1>3, <1>4, <1>5, <1>6, <1>7

\* The decision.
LEMMA Decides ==
    ASSUME ReadInv, NEW h \in Rooms, Reads!_reserve_read(h)
    PROVE  ReadInv'
<1> DEFINE hook == hooks[h]
<1>1. /\ UNCHANGED <<log, ino, extent, session, records, admitted>> /\ hook \in Hook
      /\ hook.at = "reserve" /\ hook.call \in Assignments /\ hook.args \in Args
      /\ hook.message \in Paths /\ hook.revision \in Revisions /\ lock = h
  BY DEF Reads!_reserve_read, Reads!At, Reads!Elsewhere, Reads!transcript, Reads!state, ReadInv, ReadTypes,
     HookInv, Locked
<1> DEFINE where == IF Reads!WritesSession(h) THEN "session" ELSE IF Reads!New(h) THEN "record" ELSE "sync"
           revision == IF session # None /\ session.revision.size = hook.revision.size
                       THEN session.revision ELSE Reads!Revision(hook.revision.size)
<1>2. CASE /\ Reads!Admissible(h) /\ Len(log) >= hook.revision.size
           /\ Reads!Step(h, [hook EXCEPT !.at = where, !.revision = revision]) /\ lock' = lock
  <2>1. revision \in Revisions
    <3>1. hook.revision.size \in Nat /\ Len(log) \in Nat
      BY <1>1, LenProperties DEF Revisions, ReadInv, ReadTypes
    <3>2. hook.revision.size \in 0 .. Len(log)
      BY <1>2, <3>1
    <3>3. Reads!Revision(hook.revision.size) \in Revisions
      BY <3>2, RevisionType DEF ReadInv
    <3>4. session # None => session.revision \in Revisions
      BY DEF ReadInv, ReadTypes, Continuity
    <3> QED BY <3>3, <3>4
  <2>2. PICK a, r : a = where /\ r = revision
    OBVIOUS
  <2>3. a \in {"session", "record", "sync"} /\ r \in Revisions
    BY <2>1, <2>2
  <2>4. PICK f : f = [hook EXCEPT !.at = a, !.revision = r]
    OBVIOUS
  <2>5. /\ f \in Hook /\ f.at = a /\ f.call = hook.call /\ f.args = hook.args
        /\ f.message = hook.message /\ f.revision = r /\ f.bytes = hook.bytes
    BY <1>1, <2>3, <2>4 DEF Hook, Locked
  <2>6. Reads!Step(h, f)
    BY <1>2, <2>2, <2>4
  <2>7. Decided(f)
    <3> DEFINE bound == Reads!Bindings[hook.call]
               listed == Reads!RecordOf(hook.message)[hook.call]
               same == listed = [args |-> hook.args, bytes |-> hook.bytes]
               read == <<hook.message, hook.args>>
    <3>1. Reads!New(h) <=> listed = None
      BY DEF Reads!New
    <3>2. bound \in {None, read} /\ (listed = None \/ (same /\ bound = read))
      BY <1>2, <3>1 DEF Reads!Admissible
    <3>3. Reads!WritesSession(h) \/ ~(listed = None /\ bound = None)
      BY <3>1 DEF Reads!WritesSession
    <3>4. a = "session" => (listed = None /\ bound \in {None, read}) \/ (same /\ bound = read)
      BY <3>2
    <3>5. a = "record" => listed = None /\ bound = read
      BY <2>2, <3>1, <3>2, <3>3
    <3>6. a = "sync" => same /\ bound = read
      BY <2>2, <3>1, <3>2
    <3> QED BY <2>5, <3>4, <3>5, <3>6 DEF Decided
  <2> QED BY <1>1, <1>2, <2>3, <2>5, <2>6, <2>7, HookMoves DEF Locked
<1>3. CASE Reads!Release(h)
  BY <1>1, <1>3, Denied DEF Reads!Release
<1> QED BY <1>2, <1>3 DEF Reads!_reserve_read

\* The guard with the lock writes: the others have not got so far.
LEMMA HolderWrites ==
    ASSUME ReadInv, NEW h \in Rooms, NEW f \in Hook, Reads!Step(h, f), lock = h,
           UNCHANGED <<log, ino, extent>>,
           session' \in Continuity \cup {None}, records' \in [Paths -> Ledgers \cup {None}],
           admitted' \subseteq Admissions,
           f.at # "idle" => f.call \in Assignments /\ f.args \in Args,
           f.at \in {"measure", "lock"} \cup Locked => f.message \in Paths /\ f.revision \in Revisions,
           f.at \in Locked => lock' = h
    PROVE  /\ ReadTypes' /\ HookInv'
           /\ \A k \in Rooms : IF k = h THEN hooks'[k] = f ELSE hooks'[k].at \notin Locked
<1>1. hooks' \in [Rooms -> Hook]
  BY DEF ReadInv, ReadTypes, Reads!Step
<1>2. \A k \in Rooms : (k = h => hooks'[k] = f) /\ (k # h => hooks'[k] = hooks[k])
  BY DEF ReadInv, ReadTypes, Reads!Step
<1>3. \A k \in Rooms : k # h => hooks[k].at \notin Locked
  BY DEF ReadInv, HookInv
<1>4. \A k \in Rooms : IF k = h THEN hooks'[k] = f ELSE hooks'[k].at \notin Locked
  BY <1>2, <1>3
<1>5. ReadTypes'
  BY <1>1 DEF ReadInv, ReadTypes
<1>6. HookInv'
  BY <1>2, <1>4 DEF ReadInv, HookInv
<1> QED BY <1>4, <1>5, <1>6

\* The binding is written first; one that is there is not changed.
LEMMA BindingWritten ==
    ASSUME ReadInv, NEW h \in Rooms, Reads!_write_session_record(h)
    PROVE  ReadInv' /\ session' # None
<1> DEFINE hook == hooks[h]
           bound == Reads!Bindings[hook.call]
           listed == Reads!RecordOf(hook.message)[hook.call]
           same == listed = [args |-> hook.args, bytes |-> hook.bytes]
           read == <<hook.message, hook.args>>
<1>1. /\ UNCHANGED <<log, ino, extent, records, admitted>> /\ lock' = lock /\ hook \in Hook
      /\ hook.at = "session" /\ hook.call \in Assignments /\ hook.args \in Args
      /\ hook.message \in Paths /\ hook.revision \in Revisions /\ lock = h
  BY DEF Reads!_write_session_record, Reads!At, Reads!Elsewhere, Reads!transcript, ReadInv, ReadTypes,
     HookInv, Locked
<1>2. (listed = None /\ bound \in {None, read}) \/ (same /\ bound = read)
  BY <1>1 DEF ReadInv, DecidedInv, Decided
<1>3. /\ Reads!Bindings \in [Assignments -> {None} \cup (Paths \X Args)]
      /\ listed \in {None} \cup Entry /\ (Reads!New(h) <=> listed = None)
  BY <1>1, RecordTypes DEF ReadInv, Reads!New
<1>4. PICK b : b = IF Reads!New(h) THEN read ELSE bound
  OBVIOUS
<1>5. b = read /\ read \in Paths \X Args
  <2>1. same => listed # None
    BY <1>1, LedgerNone DEF Entry, Hook
  <2> QED BY <1>1, <1>2, <1>3, <1>4, <2>1
<1>6. PICK new : new = [Reads!Bindings EXCEPT ![hook.call] = read]
  OBVIOUS
<1>7. /\ new \in [Assignments -> {None} \cup (Paths \X Args)] /\ new[hook.call] = read
      /\ \A c \in Assignments : Reads!Bindings[c] # None => new[c] = Reads!Bindings[c]
  BY <1>1, <1>2, <1>3, <1>5, <1>6
<1>8. session' = [revision |-> hook.revision, bindings |-> new]
  BY <1>4, <1>5, <1>6 DEF Reads!_write_session_record
<1>9. session' \in Continuity /\ session' # None /\ session'.bindings = new
  BY <1>1, <1>7, <1>8, LedgerNone DEF Continuity
<1>10. Reads!Bindings' = new /\ \A m : Reads!RecordOf(m)' = Reads!RecordOf(m)
  BY <1>1, <1>9 DEF Reads!Bindings, Reads!RecordOf
<1>11. PICK a : a = IF Reads!New(h) THEN "record" ELSE "sync"
  OBVIOUS
<1>12. PICK f : f = [hook EXCEPT !.at = a]
  OBVIOUS
<1>13. /\ f \in Hook /\ f.at = a /\ f.call = hook.call /\ f.args = hook.args
       /\ f.message = hook.message /\ f.revision = hook.revision /\ f.bytes = hook.bytes
  BY <1>1, <1>11, <1>12 DEF Hook, Locked
<1>14. Reads!Step(h, f)
  BY <1>11, <1>12 DEF Reads!_write_session_record
<1>15. /\ ReadTypes' /\ HookInv'
       /\ \A k \in Rooms : IF k = h THEN hooks'[k] = f ELSE hooks'[k].at \notin Locked
  BY <1>1, <1>9, <1>11, <1>13, <1>14, HolderWrites DEF ReadInv, ReadTypes, Locked
<1>16. DecidedInv'
  <2>1. ASSUME NEW k \in Rooms PROVE Decided(hooks[k])'
    <3>1. CASE k # h
      BY <1>15, <3>1 DEF Decided, Locked
    <3>2. CASE k = h
      <4>1. hooks'[k] = f
        BY <1>15, <3>2
      <4>2. Reads!Bindings'[f.call] = read
        BY <1>7, <1>10, <1>13
      <4>3. Reads!RecordOf(f.message)' = Reads!RecordOf(hook.message)
        BY <1>10, <1>13
      <4>4. f.at = "record" => listed = None
        BY <1>3, <1>11, <1>13
      <4>5. f.at = "sync" => same
        BY <1>2, <1>3, <1>11, <1>13
      <4>6. f.at # "session"
        BY <1>11, <1>13
      <4>7. Reads!RecordOf(hooks[k].message)' = Reads!RecordOf(hook.message)
        BY <4>1, <4>3
      <4> QED BY <1>13, <4>1, <4>2, <4>4, <4>5, <4>6, <4>7 DEF Decided
    <3> QED BY <3>1, <3>2
  <2> QED BY <2>1 DEF DecidedInv
<1>17. AdmittedInv'
  <2>1. ASSUME NEW x \in admitted
        PROVE  /\ Reads!Bindings'[x.call] = <<x.message, x.args>>
               /\ Reads!RecordOf(x.message)'[x.call] = [args |-> x.args, bytes |-> x.bytes]
    <3>1. x.call \in Assignments /\ x.message \in Paths /\ x.args \in Args
      BY <2>1 DEF ReadInv, ReadTypes, Admissions
    <3>2. /\ Reads!Bindings[x.call] = <<x.message, x.args>>
          /\ Reads!RecordOf(x.message)[x.call] = [args |-> x.args, bytes |-> x.bytes]
      BY <2>1 DEF ReadInv, AdmittedInv
    <3>3. Reads!Bindings[x.call] # None
      BY <3>1, <3>2, LedgerNone
    <3>4. Reads!Bindings'[x.call] = <<x.message, x.args>>
      BY <1>7, <1>10, <3>1, <3>2, <3>3
    <3> QED BY <1>10, <3>2, <3>4
  <2> QED BY <1>1, <2>1 DEF AdmittedInv
<1> QED BY <1>9, <1>15, <1>16, <1>17 DEF ReadInv

\* The entry is written next, where there was none.
LEMMA EntryWritten ==
    ASSUME ReadInv, NEW h \in Rooms, Reads!_write_record(h)
    PROVE  ReadInv'
<1> DEFINE hook == hooks[h]
           entry == [args |-> hook.args, bytes |-> hook.bytes]
           read == <<hook.message, hook.args>>
<1>1. /\ UNCHANGED <<log, ino, extent, session, admitted>> /\ lock' = lock /\ hook \in Hook
      /\ hook.at = "record" /\ hook.call \in Assignments /\ hook.args \in Args
      /\ hook.message \in Paths /\ hook.revision \in Revisions /\ lock = h
  BY DEF Reads!_write_record, Reads!At, Reads!Elsewhere, Reads!transcript, ReadInv, ReadTypes,
     HookInv, Locked
<1>2. Reads!RecordOf(hook.message)[hook.call] = None /\ Reads!Bindings[hook.call] = read
  BY <1>1 DEF ReadInv, DecidedInv, Decided
<1>3. \A m \in Paths : Reads!RecordOf(m) \in [Assignments -> {None} \cup Entry]
  BY RecordTypes DEF ReadInv
<1>4. PICK entries : entries = [Reads!RecordOf(hook.message) EXCEPT ![hook.call] = entry]
  OBVIOUS
<1>5. /\ entries \in [Assignments -> {None} \cup Entry] /\ entries[hook.call] = entry
      /\ \A c \in Assignments : c # hook.call => entries[c] = Reads!RecordOf(hook.message)[c]
  <2>1. entry \in Entry
    BY <1>1 DEF Entry, Hook
  <2> HIDE DEF entry
  <2> QED BY <1>1, <1>3, <1>4, <2>1
<1>6. PICK ledger : ledger = [ino |-> hook.revision.ino, entries |-> entries]
  OBVIOUS
<1>7. ledger \in Ledgers /\ ledger # None /\ ledger.entries = entries
  BY <1>1, <1>5, <1>6, LedgerNone DEF Ledgers, Revisions
<1>8. records' = [records EXCEPT ![hook.message] = ledger]
  BY <1>4, <1>6 DEF Reads!_write_record
<1>9. /\ records' \in [Paths -> Ledgers \cup {None}] /\ records'[hook.message] = ledger
      /\ \A m \in Paths : m # hook.message => records'[m] = records[m]
  BY <1>1, <1>7, <1>8 DEF ReadInv, ReadTypes
<1>10. /\ Reads!Bindings' = Reads!Bindings
       /\ \A m \in Paths : (m = hook.message => Reads!RecordOf(m)' = entries)
                        /\ (m # hook.message => Reads!RecordOf(m)' = Reads!RecordOf(m))
  <2>1. Reads!Bindings' = Reads!Bindings
    BY <1>1 DEF Reads!Bindings
  <2>2. ASSUME NEW m \in Paths, m = hook.message PROVE Reads!RecordOf(m)' = entries
    BY <1>7, <1>9, <2>2 DEF Reads!RecordOf
  <2>3. ASSUME NEW m \in Paths, m # hook.message PROVE Reads!RecordOf(m)' = Reads!RecordOf(m)
    BY <1>9, <2>3 DEF Reads!RecordOf, Reads!NoEntries
  <2> QED BY <2>1, <2>2, <2>3
<1>11. PICK f : f = [hook EXCEPT !.at = "sync"]
  OBVIOUS
<1>12. /\ f \in Hook /\ f.at = "sync" /\ f.call = hook.call /\ f.args = hook.args
       /\ f.message = hook.message /\ f.revision = hook.revision /\ f.bytes = hook.bytes
  BY <1>1, <1>11 DEF Hook, Locked
<1>13. Reads!Step(h, f)
  BY <1>11 DEF Reads!_write_record
<1>14. /\ ReadTypes' /\ HookInv'
       /\ \A k \in Rooms : IF k = h THEN hooks'[k] = f ELSE hooks'[k].at \notin Locked
  BY <1>1, <1>9, <1>12, <1>13, HolderWrites DEF ReadInv, ReadTypes, Locked
<1>15. DecidedInv'
  <2>1. ASSUME NEW k \in Rooms PROVE Decided(hooks[k])'
    <3>1. CASE k # h
      BY <1>14, <3>1 DEF Decided, Locked
    <3>2. CASE k = h
      <4>1. hooks'[k] = f /\ hooks[k].message = hook.message
        BY <1>14, <3>2
      <4>2. Reads!RecordOf(f.message)' = entries
        BY <1>1, <1>10, <1>12
      <4>3. Reads!RecordOf(hooks[k].message)' = entries
        BY <4>1, <4>2
      <4>4. Reads!Bindings'[f.call] = read
        BY <1>2, <1>10, <1>12
      <4>5. entries[f.call] = entry
        BY <1>5, <1>12
      <4> QED BY <1>12, <4>1, <4>3, <4>4, <4>5 DEF Decided
    <3> QED BY <3>1, <3>2
  <2> QED BY <2>1 DEF DecidedInv
<1>16. AdmittedInv'
  <2>1. ASSUME NEW x \in admitted
        PROVE  /\ Reads!Bindings'[x.call] = <<x.message, x.args>>
               /\ Reads!RecordOf(x.message)'[x.call] = [args |-> x.args, bytes |-> x.bytes]
    <3>1. x.call \in Assignments /\ x.message \in Paths /\ x.args \in Args /\ x.bytes \in Nat
      BY <2>1 DEF ReadInv, ReadTypes, Admissions
    <3>2. /\ Reads!Bindings[x.call] = <<x.message, x.args>>
          /\ Reads!RecordOf(x.message)[x.call] = [args |-> x.args, bytes |-> x.bytes]
      BY <2>1 DEF ReadInv, AdmittedInv
    <3>3. Reads!RecordOf(x.message)[x.call] # None
      BY <3>1, <3>2, LedgerNone DEF Entry
    <3>4. ~(x.message = hook.message /\ x.call = hook.call)
      BY <1>2, <3>3
    <3>5. Reads!RecordOf(x.message)'[x.call] = Reads!RecordOf(x.message)[x.call]
      BY <1>5, <1>10, <3>1, <3>4
    <3> QED BY <1>10, <3>2, <3>5
  <2> QED BY <1>1, <2>1 DEF AdmittedInv
<1> QED BY <1>14, <1>15, <1>16 DEF ReadInv

\* The read goes ahead, or its reservation stays.
LEMMA Answers ==
    ASSUME ReadInv, NEW h \in Rooms, Reads!Answer(h)
    PROVE  ReadInv'
<1> DEFINE hook == hooks[h]
<1>1. /\ UNCHANGED <<log, ino, extent, session, records>> /\ hook \in Hook
      /\ hook.at = "sync" /\ hook.call \in Assignments /\ hook.args \in Args
      /\ hook.message \in Paths /\ lock = h
  BY DEF Reads!Answer, Reads!At, Reads!Elsewhere, Reads!transcript, Reads!state, ReadInv, ReadTypes, HookInv, Locked
<1>2. PICK x : x = [call |-> hook.call, message |-> hook.message, args |-> hook.args, bytes |-> hook.bytes]
  OBVIOUS
<1>3. /\ x \in Admissions /\ x.call = hook.call /\ x.message = hook.message /\ x.args = hook.args
      /\ x.bytes = hook.bytes
  BY <1>1, <1>2 DEF Admissions, Hook
<1>4. admitted' = admitted \cup {x} \/ admitted' = admitted
  BY <1>2 DEF Reads!Answer
<1>5. Reads!Step(h, Reads!Idle) /\ Reads!Idle \in Hook /\ Reads!Idle.at = "idle"
  BY DEF Reads!Answer, Reads!Release, Reads!Deny, Reads!Idle, Hook
<1>6. admitted' \subseteq Admissions
  BY <1>3, <1>4 DEF ReadInv, ReadTypes
<1>7. /\ ReadTypes' /\ HookInv'
      /\ \A k \in Rooms : IF k = h THEN hooks'[k] = Reads!Idle ELSE hooks'[k].at \notin Locked
  BY <1>1, <1>5, <1>6, HolderWrites DEF ReadInv, ReadTypes, Locked
<1>8. DecidedInv'
  BY <1>5, <1>7 DEF DecidedInv, Decided, Locked
<1>9. AdmittedInv'
  <2>1. /\ Reads!Bindings[x.call] = <<x.message, x.args>>
        /\ Reads!RecordOf(x.message)[x.call] = [args |-> x.args, bytes |-> x.bytes]
    BY <1>1, <1>3 DEF ReadInv, DecidedInv, Decided
  <2>2. \A y \in admitted' : /\ Reads!Bindings[y.call] = <<y.message, y.args>>
                           /\ Reads!RecordOf(y.message)[y.call] = [args |-> y.args, bytes |-> y.bytes]
    BY <1>4, <2>1 DEF ReadInv, AdmittedInv
  <2> QED BY <1>1, <2>2 DEF AdmittedInv, Reads!Bindings, Reads!RecordOf
<1> QED BY <1>7, <1>8, <1>9 DEF ReadInv

\* Killed at any point.
LEMMA KilledKeeps ==
    ASSUME ReadInv, NEW h \in Rooms, Reads!Killed(h)
    PROVE  ReadInv'
<1>1. /\ UNCHANGED <<log, ino, extent, session, records, admitted>> /\ Reads!Deny(h)
      /\ lock' = lock \/ lock = h
  BY DEF Reads!Killed, Reads!transcript
<1> QED BY <1>1, Denied

\* The native client and the files.
LEMMA Outside ==
    ASSUME ReadInv,
           \/ \E row \in Reads!Row \cup {Reads!Turn} : Reads!Append_(row)
           \/ Reads!Flush \/ Reads!Rewind \/ Reads!Change
    PROVE  ReadInv'
<1>1. UNCHANGED <<session, records, lock, hooks, admitted>>
  BY DEF Reads!Append_, Reads!Flush, Reads!Rewind, Reads!Change, Reads!Guards, Reads!state
<1>2. log' \in Seq(Reads!Row \cup {Reads!Turn})
  <2>1. log \in Seq(Reads!Row \cup {Reads!Turn})
    BY DEF ReadInv, ReadTypes
  <2>2. ASSUME NEW row \in Reads!Row \cup {Reads!Turn}, Reads!Append_(row) PROVE log' \in Seq(Reads!Row \cup {Reads!Turn})
    BY <2>1, <2>2, AppendProperties DEF Reads!Append_
  <2>3. CASE Reads!Rewind
    <3>1. PICK n \in 0 .. (Len(log) - 1) : log' = SubSeq(log, 1, n)
      BY <2>3 DEF Reads!Rewind
    <3>2. n <= Len(log)
      BY <2>1, <3>1, LenProperties
    <3> QED BY <2>1, <3>1, <3>2, SubSeqProperties, LenProperties
  <2> QED BY <2>1, <2>2, <2>3 DEF Reads!Flush, Reads!Change, Reads!transcript
<1>3. ino' \in Nat
  BY DEF Reads!Append_, Reads!Flush, Reads!Rewind, Reads!Change, Reads!transcript, ReadInv, ReadTypes
<1>4. extent' \in [Args -> Nat]
  <2>1. CASE Reads!Change
    <3>1. PICK a \in Args, n \in Reads!Extents : extent' = [extent EXCEPT ![a] = n]
      BY <2>1 DEF Reads!Change
    <3>2. n \in Nat
      BY <3>1, ReadBounds DEF Reads!Extents
    <3> QED BY <3>1, <3>2 DEF ReadInv, ReadTypes
  <2> QED BY <2>1 DEF Reads!Append_, Reads!Flush, Reads!Rewind, ReadInv, ReadTypes
<1>5. ReadTypes'
  BY <1>1, <1>2, <1>3, <1>4 DEF ReadInv, ReadTypes
<1>6. HookInv' /\ DecidedInv' /\ AdmittedInv'
  BY <1>1 DEF ReadInv, HookInv, DecidedInv, Decided, AdmittedInv, Reads!Bindings, Reads!RecordOf
<1> QED BY <1>5, <1>6 DEF ReadInv

-----------------------------------------------------------------------------
(***************************************************************************)
(* The invariant of the guard and what it says of the reads.               *)
(***************************************************************************)
\* The guard starts with an empty ledger.
LEMMA ReadsInit == Reads!Init => ReadInv
<1> SUFFICES ASSUME Reads!Init PROVE ReadInv
  OBVIOUS
<1>1. log \in Seq(Reads!Row \cup {Reads!Turn})
  BY DEF Reads!Init, Reads!SeqOf
<1>2. extent \in [Args -> Nat]
  <2>1. Reads!Extents \subseteq Nat
    BY ReadBounds DEF Reads!Extents
  <2>2. extent \in [Args -> Reads!Extents]
    BY DEF Reads!Init
  <2> QED BY <2>1, <2>2
<1>3. Reads!Idle \in Hook /\ Reads!Idle.at = "idle"
  BY DEF Reads!Idle, Hook
<1>4. hooks = [k \in Rooms |-> Reads!Idle] /\ \A k \in Rooms : hooks[k] = Reads!Idle
  BY DEF Reads!Init
<1>5. ReadTypes
  BY <1>1, <1>2, <1>3, <1>4 DEF Reads!Init, ReadTypes
<1>6. HookInv /\ DecidedInv /\ AdmittedInv
  BY <1>3, <1>4 DEF HookInv, DecidedInv, Decided, AdmittedInv, Reads!Init, Locked
<1> QED BY <1>5, <1>6 DEF ReadInv

\* Every step of the guards, the client and the files keeps it.
LEMMA ReadsStep == ReadInv /\ [Reads!Next]_(Reads!vars) => ReadInv'
<1> SUFFICES ASSUME ReadInv, [Reads!Next]_(Reads!vars) PROVE ReadInv'
  OBVIOUS
<1>1. ASSUME NEW h \in Rooms, Reads!Guard(h) PROVE ReadInv'
  BY <1>1, Correlates, Decides, BindingWritten, EntryWritten, Answers DEF Reads!Guard
<1>2. ASSUME NEW h \in Rooms, Reads!Killed(h) PROVE ReadInv'
  BY <1>2, KilledKeeps
<1>3. CASE UNCHANGED Reads!vars
  BY <1>3 DEF Reads!vars, Reads!transcript, Reads!state, ReadInv, ReadTypes, HookInv, DecidedInv, Decided,
     AdmittedInv, Reads!Bindings, Reads!RecordOf
<1> QED BY <1>1, <1>2, <1>3, Outside DEF Reads!Next

\* In every state of the guards of a session, a guard that has decided is about
\* a read that is new or the same one again, and every read that was let
\* through is in both records (_reserve_read and its two writes).
LEMMA ReadsInvariant == Reads!Spec => []ReadInv
BY ReadsInit, ReadsStep, PTL DEF Reads!Spec

\* What both records say of a call says it of every read of that call.
LEMMA OnceOnly == ReadInv => OneCallOneRead
<1> SUFFICES ASSUME ReadInv, NEW x \in admitted, NEW y \in admitted, x.call = y.call PROVE x = y
  BY DEF OneCallOneRead, Reads!OneCallOneRead
<1>1. x \in Admissions /\ y \in Admissions
  BY DEF ReadInv, ReadTypes
<1>2. /\ Reads!Bindings[x.call] = <<x.message, x.args>>
      /\ Reads!RecordOf(x.message)[x.call] = [args |-> x.args, bytes |-> x.bytes]
      /\ Reads!Bindings[y.call] = <<y.message, y.args>>
      /\ Reads!RecordOf(y.message)[y.call] = [args |-> y.args, bytes |-> y.bytes]
  BY DEF ReadInv, AdmittedInv
<1>3. x.message = y.message /\ x.args = y.args
  BY <1>1, <1>2
<1>4. x.bytes = y.bytes
  BY <1>1, <1>2, <1>3
<1> QED BY <1>1, <1>3, <1>4 DEF Admissions

\* A tool identity clears one read only, whatever the transcript, the other
\* guards and a crash between the two writes do (_reserve_read, _read_record).
THEOREM ReadsOnce == Reads!Spec => []OneCallOneRead
BY OnceOnly, ReadsInvariant, PTL

-----------------------------------------------------------------------------
(***************************************************************************)
(* Sums over finite sets.                                                  *)
(***************************************************************************)
\* The sum of f over S.
Total(f, S) == MapThenSumSet(LAMBDA x : f[x], S)

\* The element the sum takes first, and what makes g the function of partial sums.
First(s) == CHOOSE x \in s : TRUE
Partial(f, P, g) == g = [s \in P |-> IF s = {} THEN 0 ELSE f[First(s)] + g[s \ {First(s)}]]
AtMost(S, n) == {s \in SUBSET S : Cardinality(s) <= n}

\* Some numbers have a first one.
LEMMA LeastNumber ==
    ASSUME NEW T, T \subseteq Nat, T # {}
    PROVE  \E n \in T : \A m \in T : n <= m
<1> DEFINE R == OpToRel(<, Nat)
<1>1. IsWellFoundedOn(R, Nat)
  BY NatLessThanWellFounded
<1> HIDE DEF R
<1>2. PICK n \in T : \A m \in T : ~(<<m, n>> \in R)
  BY <1>1, WFMin
<1>3. ASSUME NEW m \in T PROVE n <= m
  <2>1. ~(<<m, n>> \in R) /\ m \in Nat /\ n \in Nat
    BY <1>2
  <2>2. ~(m < n)
    BY <2>1 DEF R, OpToRel
  <2> QED BY <2>1, <2>2
<1> QED BY <1>3

\* One element less.
LEMMA Smaller ==
    ASSUME NEW S, IsFiniteSet(S), NEW x \in S
    PROVE  IsFiniteSet(S \ {x}) /\ Cardinality(S) \in Nat /\ Cardinality(S \ {x}) \in Nat
           /\ Cardinality(S) = Cardinality(S \ {x}) + 1 /\ Cardinality(S) > Cardinality(S \ {x})
<1>1. IsFiniteSet(S \ {x}) /\ Cardinality(S \ {x}) = Cardinality(S) - 1
  BY FS_RemoveElement
<1> QED BY <1>1, FS_CardinalityType

\* There is a function of partial sums.
LEMMA PartialExists ==
    ASSUME NEW S, IsFiniteSet(S), NEW f
    PROVE  \E g : Partial(f, SUBSET S, g)
<1> DEFINE T == {n \in Nat : ~ \E g : Partial(f, AtMost(S, n), g)}
<1>1. ASSUME NEW s \in SUBSET S PROVE IsFiniteSet(s) /\ Cardinality(s) \in Nat /\ Cardinality(s) <= Cardinality(S)
  BY FS_Subset, FS_CardinalityType
<1>2. ASSUME NEW s, s # {} PROVE First(s) \in s
  BY <1>2 DEF First
<1>3. 0 \notin T
  <2> DEFINE g == [s \in AtMost(S, 0) |-> 0]
  <2>1. ASSUME NEW s \in AtMost(S, 0) PROVE s = {}
    BY <1>1, <2>1, FS_EmptySet DEF AtMost
  <2>2. Partial(f, AtMost(S, 0), g)
    BY <2>1 DEF Partial
  <2> QED BY <2>2
<1>4. ASSUME NEW n \in Nat, n \notin T PROVE n + 1 \notin T
  <2>1. PICK g : Partial(f, AtMost(S, n), g)
    BY <1>4
  <2> DEFINE h == [s \in AtMost(S, n + 1) |-> IF s = {} THEN 0 ELSE f[First(s)] + g[s \ {First(s)}]]
  <2>2. ASSUME NEW s \in AtMost(S, n + 1), s # {}
        PROVE  s \ {First(s)} \in AtMost(S, n)
    <3>1. First(s) \in s /\ IsFiniteSet(s) /\ Cardinality(s) <= n + 1
      BY <1>1, <1>2, <2>2 DEF AtMost
    <3> QED BY <1>4, <3>1, Smaller DEF AtMost
  <2>3. ASSUME NEW s \in AtMost(S, n) PROVE h[s] = g[s]
    <3>1. s \in AtMost(S, n + 1)
      BY <1>1, <1>4, <2>3 DEF AtMost
    <3> QED BY <2>1, <2>3, <3>1 DEF Partial
  <2>4. Partial(f, AtMost(S, n + 1), h)
    BY <2>2, <2>3 DEF Partial
  <2> QED BY <2>4
<1>5. T = {}
  <2>1. SUFFICES ASSUME T # {} PROVE FALSE
    OBVIOUS
  <2>2. PICK n \in T : \A m \in T : n <= m
    <3>1. T \subseteq Nat
      OBVIOUS
    <3> HIDE DEF T
    <3> QED BY <2>1, <3>1, LeastNumber
  <2>3. n \in Nat /\ n # 0 /\ n - 1 \in Nat /\ n - 1 \notin T
    <3>1. n \in Nat
      OBVIOUS
    <3> HIDE DEF T
    <3> QED BY <1>3, <2>2, <3>1
  <2> HIDE DEF T
  <2> QED BY <1>4, <2>3
<1>6. SUBSET S = AtMost(S, Cardinality(S)) /\ Cardinality(S) \in Nat
  BY <1>1 DEF AtMost
<1>7. PICK n \in Nat : n = Cardinality(S)
  BY <1>6
<1>8. \E g : Partial(f, AtMost(S, n), g)
  BY <1>5
<1> QED BY <1>6, <1>7, <1>8

\* Functions of partial sums agree.
LEMMA PartialUnique ==
    ASSUME NEW S, IsFiniteSet(S), NEW T, S \subseteq T, NEW f, NEW g, NEW h,
           Partial(f, SUBSET S, g), Partial(f, SUBSET T, h)
    PROVE  g[S] = h[S]
<1> DEFINE B == {Cardinality(s) : s \in {t \in SUBSET S : g[t] # h[t]}}
<1>1. ASSUME NEW s \in SUBSET S PROVE IsFiniteSet(s) /\ Cardinality(s) \in Nat
  BY FS_Subset, FS_CardinalityType
<1>2. B = {}
  <2>1. SUFFICES ASSUME B # {} PROVE FALSE
    OBVIOUS
  <2>2. PICK n \in B : \A m \in B : n <= m
    <3>1. B \subseteq Nat
      BY <1>1
    <3> HIDE DEF B
    <3> QED BY <2>1, <3>1, LeastNumber
  <2>3. PICK s \in SUBSET S : g[s] # h[s] /\ n = Cardinality(s)
    OBVIOUS
  <2>4. s # {} /\ g[s] = f[First(s)] + g[s \ {First(s)}] /\ h[s] = f[First(s)] + h[s \ {First(s)}]
    BY <2>3 DEF Partial
  <2>5. First(s) \in s
    BY <2>4 DEF First
  <2>6. g[s \ {First(s)}] # h[s \ {First(s)}] /\ s \ {First(s)} \in SUBSET S
    BY <2>3, <2>4
  <2>7. Cardinality(s \ {First(s)}) \in B
    BY <2>6
  <2>8. Cardinality(s) <= Cardinality(s \ {First(s)})
    <3> HIDE DEF B
    <3> QED BY <2>2, <2>3, <2>7
  <2> QED BY <1>1, <2>5, <2>8, Smaller
<1> QED BY <1>2

\* A total is the last partial sum.
LEMMA TotalPartial ==
    ASSUME NEW S, IsFiniteSet(S), NEW f
    PROVE  \E g : Partial(f, SUBSET S, g) /\ Total(f, S) = g[S]
<1> DEFINE Sums(g) == [s \in SUBSET S |-> IF s = {} THEN 0
                         ELSE f[CHOOSE x \in s : TRUE] + g[s \ {CHOOSE x \in s : TRUE}]]
<1>1. PICK g : g = Sums(g)
  <2>1. PICK g : Partial(f, SUBSET S, g)
    BY PartialExists
  <2>2. g = Sums(g)
    BY <2>1 DEF Partial, First
  <2> QED BY <2>2
<1>2. \E h : h = Sums(h) /\ MapThenSumSet(LAMBDA x : f[x], S) = h[S]
  BY <1>1 DEF MapThenSumSet, MapThenFoldSet
<1> QED BY <1>2 DEF Partial, First, Total

\* The sum over nothing, and taking the first element.
LEMMA TotalFirst ==
    ASSUME NEW S, IsFiniteSet(S), NEW f
    PROVE  IF S = {} THEN Total(f, S) = 0 ELSE First(S) \in S /\ Total(f, S) = f[First(S)] + Total(f, S \ {First(S)})
<1>1. PICK g : Partial(f, SUBSET S, g) /\ Total(f, S) = g[S]
  BY TotalPartial
<1>2. S = {} => Total(f, S) = 0
  BY <1>1 DEF Partial
<1>3. ASSUME S # {} PROVE First(S) \in S /\ Total(f, S) = f[First(S)] + Total(f, S \ {First(S)})
  <2>1. First(S) \in S
    BY <1>3 DEF First
  <2>2. IsFiniteSet(S \ {First(S)})
    BY FS_Subset
  <2>3. PICK h : Partial(f, SUBSET (S \ {First(S)}), h) /\ Total(f, S \ {First(S)}) = h[S \ {First(S)}]
    BY <2>2, TotalPartial
  <2>4. h[S \ {First(S)}] = g[S \ {First(S)}]
    <3>1. S \ {First(S)} \subseteq S
      OBVIOUS
    <3>2. Partial(f, SUBSET S, g) /\ Partial(f, SUBSET (S \ {First(S)}), h)
      BY <1>1, <2>3
    <3> QED BY <2>2, <3>1, <3>2, PartialUnique
  <2>5. g[S] = f[First(S)] + g[S \ {First(S)}]
    BY <1>1, <1>3 DEF Partial
  <2> QED BY <1>1, <2>1, <2>3, <2>4, <2>5
<1> QED BY <1>2, <1>3

\* Every element may be taken out of the sum.
LEMMA TotalRemove ==
    ASSUME NEW S, IsFiniteSet(S), NEW f, \A x \in S : f[x] \in Nat
    PROVE  Total(f, S) \in Nat /\ \A x \in S : Total(f, S) = f[x] + Total(f, S \ {x})
<1> DEFINE Right(s) == Total(f, s) \in Nat /\ \A x \in s : Total(f, s) = f[x] + Total(f, s \ {x})
           B == {Cardinality(s) : s \in {t \in SUBSET S : ~Right(t)}}
<1>1. ASSUME NEW s \in SUBSET S PROVE IsFiniteSet(s) /\ Cardinality(s) \in Nat
  BY FS_Subset, FS_CardinalityType
<1>2. B = {}
  <2>1. SUFFICES ASSUME B # {} PROVE FALSE
    OBVIOUS
  <2>2. PICK n \in B : \A m \in B : n <= m
    <3>1. B \subseteq Nat
      BY <1>1
    <3> HIDE DEF B
    <3> QED BY <2>1, <3>1, LeastNumber
  <2>3. PICK s \in SUBSET S : ~Right(s) /\ n = Cardinality(s)
    OBVIOUS
  <2>4. ASSUME NEW x \in s PROVE Right(s \ {x})
    <3>1. SUFFICES ASSUME ~Right(s \ {x}) PROVE FALSE
      OBVIOUS
    <3>2. Cardinality(s \ {x}) \in B
      BY <3>1
    <3>3. Cardinality(s) <= Cardinality(s \ {x})
      <4> HIDE DEF B, Right
      <4> QED BY <2>2, <2>3, <3>2
    <3> QED BY <1>1, <2>4, <3>3, Smaller
  <2>5. CASE s = {}
    BY <1>1, <2>3, <2>5, TotalFirst
  <2>6. CASE s # {}
    <3>1. PICK c : c = First(s)
      OBVIOUS
    <3>2. c \in s /\ Total(f, s) = f[c] + Total(f, s \ {c})
      BY <1>1, <2>6, <3>1, TotalFirst
    <3>3. Total(f, s \ {c}) \in Nat /\ f[c] \in Nat
      BY <2>4, <3>2
    <3>4. ASSUME NEW x \in s PROVE Total(f, s) = f[x] + Total(f, s \ {x})
      <4>1. CASE x = c
        BY <3>2, <4>1
      <4>2. CASE x # c
        <5>1. Total(f, s \ {c}) = f[x] + Total(f, (s \ {c}) \ {x})
          BY <2>4, <3>2, <3>4, <4>2
        <5>2. Total(f, s \ {x}) = f[c] + Total(f, (s \ {x}) \ {c})
          BY <2>4, <3>2, <3>4, <4>2
        <5>3. (s \ {c}) \ {x} = (s \ {x}) \ {c}
          OBVIOUS
        <5>4. PICK r : r = Total(f, (s \ {c}) \ {x})
          OBVIOUS
        <5>5. r \in Nat
          <6>1. Right(s \ {x}) /\ x \in s \ {c} /\ c \in s \ {x}
            BY <2>4, <3>2, <3>4, <4>2
          <6>2. s \ {c, x} \in SUBSET S /\ (s \ {c}) \ {x} = s \ {c, x}
            OBVIOUS
          <6>3. Right(s \ {c, x})
            <7>1. SUFFICES ASSUME ~Right(s \ {c, x}) PROVE FALSE
              OBVIOUS
            <7>2. Cardinality(s \ {c, x}) \in B
              BY <6>2, <7>1
            <7>3. Cardinality(s) <= Cardinality(s \ {c, x})
              <8> HIDE DEF B, Right
              <8> QED BY <2>2, <2>3, <7>2
            <7>4. Cardinality(s) > Cardinality(s \ {c}) /\ Cardinality(s \ {c}) > Cardinality((s \ {c}) \ {x})
              BY <1>1, <3>2, <6>1, Smaller
            <7> QED BY <1>1, <6>2, <7>3, <7>4
          <6> QED BY <5>4, <6>2, <6>3
        <5>6. f[x] \in Nat
          BY <3>4
        <5>7. Total(f, s) = f[c] + (f[x] + r) /\ Total(f, s \ {x}) = f[c] + r
          BY <3>2, <5>1, <5>2, <5>3, <5>4
        <5> HIDE DEF Right
        <5> QED BY <3>3, <5>5, <5>6, <5>7
      <4> QED BY <4>1, <4>2
    <3>5. Total(f, s) \in Nat
      <4> HIDE DEF Right
      <4> QED BY <3>2, <3>3
    <3> QED BY <2>3, <3>4, <3>5
  <2> QED BY <2>5, <2>6
<1> QED BY <1>2

\* A sum is below another one that has for each of its summands one as large.
LEMMA TotalBelow ==
    ASSUME NEW S, IsFiniteSet(S), NEW T, IsFiniteSet(T), NEW f, NEW g, NEW h,
           \A x \in S : f[x] \in Nat /\ (f[x] = 0 \/ (h[x] \in T /\ f[x] <= g[h[x]])),
           \A x \in T : g[x] \in Nat,
           \A x, y \in S : h[x] = h[y] => x = y
    PROVE  Total(f, S) <= Total(g, T)
<1> DEFINE Under(s) == \A t \in SUBSET T : (\A x \in s : f[x] = 0 \/ h[x] \in t) => Total(f, s) <= Total(g, t)
           B == {Cardinality(s) : s \in {t \in SUBSET S : ~Under(t)}}
<1>1. ASSUME NEW s \in SUBSET S PROVE IsFiniteSet(s) /\ Cardinality(s) \in Nat /\ \A x \in s : f[x] \in Nat
  BY FS_Subset, FS_CardinalityType
<1>2. ASSUME NEW t \in SUBSET T PROVE IsFiniteSet(t) /\ \A x \in t : g[x] \in Nat
  BY FS_Subset
<1>3. B = {}
  <2>1. SUFFICES ASSUME B # {} PROVE FALSE
    OBVIOUS
  <2>2. PICK n \in B : \A m \in B : n <= m
    <3>1. B \subseteq Nat
      BY <1>1
    <3> HIDE DEF B
    <3> QED BY <2>1, <3>1, LeastNumber
  <2>3. PICK s \in SUBSET S : ~Under(s) /\ n = Cardinality(s)
    OBVIOUS
  <2>4. PICK t \in SUBSET T : (\A x \in s : f[x] = 0 \/ h[x] \in t) /\ ~(Total(f, s) <= Total(g, t))
    BY <2>3
  <2>5. Total(g, t) \in Nat /\ \A x \in t : Total(g, t) = g[x] + Total(g, t \ {x})
    BY <1>2, TotalRemove
  <2>6. s # {}
    <3>1. s = {} => Total(f, s) = 0
      BY <1>1, TotalFirst
    <3> HIDE DEF B, Under
    <3> QED BY <2>4, <2>5, <3>1
  <2>7. PICK x \in s : TRUE
    BY <2>6
  <2>8. Total(f, s) = f[x] + Total(f, s \ {x})
    BY <1>1, TotalRemove
  <2>9. Under(s \ {x})
    <3>1. SUFFICES ASSUME ~Under(s \ {x}) PROVE FALSE
      OBVIOUS
    <3>2. Cardinality(s \ {x}) \in B
      BY <3>1
    <3>3. Cardinality(s) <= Cardinality(s \ {x})
      <4> HIDE DEF B, Under
      <4> QED BY <2>2, <2>3, <3>2
    <3> QED BY <1>1, <3>3, Smaller
  <2>10. Total(f, s \ {x}) \in Nat /\ f[x] \in Nat
    <3>1. s \ {x} \in SUBSET S
      OBVIOUS
    <3> QED BY <1>1, <3>1, TotalRemove
  <2>11. CASE f[x] = 0
    <3>1. Total(f, s \ {x}) <= Total(g, t)
      BY <2>4, <2>9
    <3> HIDE DEF B, Under
    <3> QED BY <2>4, <2>8, <2>10, <2>11, <3>1
  <2>12. CASE f[x] # 0
    <3>1. h[x] \in t /\ f[x] <= g[h[x]] /\ g[h[x]] \in Nat
      BY <2>4, <2>12
    <3>2. t \ {h[x]} \in SUBSET T /\ \A y \in s \ {x} : f[y] = 0 \/ h[y] \in t \ {h[x]}
      BY <2>4
    <3>3. Total(f, s \ {x}) <= Total(g, t \ {h[x]}) /\ Total(g, t \ {h[x]}) \in Nat
      BY <1>2, <2>9, <3>2, TotalRemove
    <3>4. Total(g, t) = g[h[x]] + Total(g, t \ {h[x]})
      BY <2>5, <3>1
    <3> HIDE DEF B, Under
    <3> QED BY <2>4, <2>8, <2>10, <3>1, <3>3, <3>4
  <2> QED BY <2>11, <2>12
<1>4. Under(S)
  BY <1>3
<1> QED BY <1>4

-----------------------------------------------------------------------------
(***************************************************************************)
(* The budget of a message and the directory of the guard.                 *)
(***************************************************************************)
\* What a record may have booked.
Listed(entries) == {c \in Assignments : entries[c] # None}
Bytes(entries) == [c \in Listed(entries) |-> entries[c].bytes]
Booked(entries) ==
    /\ IsFiniteSet(Listed(entries))
    /\ Reads!Charged(entries) <= READ_MAX_MESSAGE_BYTES

\* The decision for a new read still holds when its entry is written.
BudgetInv ==
    /\ IsFiniteSet(admitted)
    /\ \A m \in Paths : Booked(Reads!RecordOf(m))
    /\ \A h \in Rooms : hooks[h].at \in {"session", "record"} /\ Reads!New(h) =>
           Reads!Charged(Reads!RecordOf(hooks[h].message)) + hooks[h].bytes <= READ_MAX_MESSAGE_BYTES

\* The names that are taken, those of the files excepted that a guard still writes.
Recorded == {m \in Paths : records[m] # None}
DirectoryInv ==
    /\ scratch \in Nat /\ IsFiniteSet(Recorded)
    /\ Reads!Names <= READ_STATE_MAX_ENTRIES
    /\ \A h \in Rooms :
         /\ hooks[h].at = "session" => Reads!Names + (IF session = None THEN 1 ELSE 0) + 1 <= READ_STATE_MAX_ENTRIES
         /\ hooks[h].at = "record" => Reads!Names + 1 <= READ_STATE_MAX_ENTRIES

\* A sum of bytes: of the entries of a record, of the reads let through.
LEMMA EntriesTotal ==
    ASSUME NEW S, IsFiniteSet(S), NEW e
    PROVE  Reads!MapThenSumSet(LAMBDA c : e[c].bytes, S) = Total([c \in S |-> e[c].bytes], S)
<1> DEFINE f == [c \in S |-> e[c].bytes]
           Sums(g) == [s \in SUBSET S |-> IF s = {} THEN 0
                         ELSE e[CHOOSE x \in s : TRUE].bytes + g[s \ {CHOOSE x \in s : TRUE}]]
<1>1. PICK g : Partial(f, SUBSET S, g) /\ Total(f, S) = g[S]
  BY TotalPartial
<1>2. ASSUME NEW g0 PROVE Partial(f, SUBSET S, g0) <=> g0 = Sums(g0)
  <2>1. ASSUME NEW s \in SUBSET S, s # {} PROVE f[First(s)] = e[CHOOSE x \in s : TRUE].bytes
    BY <2>1 DEF First
  <2>2. [s \in SUBSET S |-> IF s = {} THEN 0 ELSE f[First(s)] + g0[s \ {First(s)}]] = Sums(g0)
    BY <2>1 DEF First
  <2> QED BY <2>2 DEF Partial
<1>3. g = Sums(g)
  BY <1>1, <1>2
<1>4. \E h : h = Sums(h) /\ Reads!MapThenSumSet(LAMBDA c : e[c].bytes, S) = h[S]
  <2> HIDE DEF f
  <2> QED BY <1>3 DEF Reads!MapThenSumSet, Reads!MapThenFoldSet
<1>5. PICK h : h = Sums(h) /\ Reads!MapThenSumSet(LAMBDA c : e[c].bytes, S) = h[S]
  BY <1>4
<1>6. g[S] = h[S]
  <2>1. Partial(f, SUBSET S, h)
    BY <1>2, <1>5
  <2> HIDE DEF f
  <2> QED BY <1>1, <2>1, PartialUnique
<1> QED BY <1>1, <1>5, <1>6

LEMMA ReadsTotal ==
    ASSUME NEW S, IsFiniteSet(S)
    PROVE  Reads!MapThenSumSet(LAMBDA read : read.bytes, S) = Total([c \in S |-> c.bytes], S)
<1> DEFINE f == [c \in S |-> c.bytes]
           Sums(g) == [s \in SUBSET S |-> IF s = {} THEN 0
                         ELSE (CHOOSE x \in s : TRUE).bytes + g[s \ {CHOOSE x \in s : TRUE}]]
<1>1. PICK g : Partial(f, SUBSET S, g) /\ Total(f, S) = g[S]
  BY TotalPartial
<1>2. ASSUME NEW g0 PROVE Partial(f, SUBSET S, g0) <=> g0 = Sums(g0)
  <2>1. ASSUME NEW s \in SUBSET S, s # {} PROVE f[First(s)] = (CHOOSE x \in s : TRUE).bytes
    BY <2>1 DEF First
  <2>2. [s \in SUBSET S |-> IF s = {} THEN 0 ELSE f[First(s)] + g0[s \ {First(s)}]] = Sums(g0)
    BY <2>1 DEF First
  <2> QED BY <2>2 DEF Partial
<1>3. g = Sums(g)
  BY <1>1, <1>2
<1>4. \E h : h = Sums(h) /\ Reads!MapThenSumSet(LAMBDA read : read.bytes, S) = h[S]
  <2> HIDE DEF f
  <2> QED BY <1>3 DEF Reads!MapThenSumSet, Reads!MapThenFoldSet
<1>5. PICK h : h = Sums(h) /\ Reads!MapThenSumSet(LAMBDA read : read.bytes, S) = h[S]
  BY <1>4
<1>6. g[S] = h[S]
  <2>1. Partial(f, SUBSET S, h)
    BY <1>2, <1>5
  <2> HIDE DEF f
  <2> QED BY <1>1, <2>1, PartialUnique
<1> QED BY <1>1, <1>5, <1>6

\* What a record has charged.
LEMMA ChargedTotal ==
    ASSUME NEW entries \in [Assignments -> {None} \cup Entry], IsFiniteSet(Listed(entries))
    PROVE  /\ Reads!Charged(entries) = Total(Bytes(entries), Listed(entries))
           /\ Reads!Charged(entries) \in Nat
           /\ \A c \in Listed(entries) : Bytes(entries)[c] = entries[c].bytes /\ Bytes(entries)[c] \in Nat
<1>1. PICK S : S = Listed(entries)
  OBVIOUS
<1>2. Reads!Charged(entries) = Total(Bytes(entries), S)
  <2>1. Reads!MapThenSumSet(LAMBDA c : entries[c].bytes, S) = Total([c \in S |-> entries[c].bytes], S)
    BY <1>1, EntriesTotal
  <2>2. Reads!Charged(entries) = Reads!MapThenSumSet(LAMBDA c : entries[c].bytes, S)
    BY <1>1 DEF Reads!Charged, Listed
  <2> QED BY <1>1, <2>1, <2>2 DEF Bytes
<1>3. ASSUME NEW c \in S PROVE Bytes(entries)[c] = entries[c].bytes /\ Bytes(entries)[c] \in Nat
  <2>1. entries[c] \in Entry /\ c \in Listed(entries)
    BY <1>1 DEF Listed
  <2> QED BY <2>1 DEF Bytes, Entry
<1>4. Total(Bytes(entries), S) \in Nat
  BY <1>1, <1>3, TotalRemove
<1> QED BY <1>1, <1>2, <1>3, <1>4

\* Nothing is charged to an empty record, and an entry adds what it says.
LEMMA ChargedNothing == Booked(Reads!NoEntries) /\ Reads!Charged(Reads!NoEntries) = 0
<1>1. Reads!NoEntries \in [Assignments -> {None} \cup Entry] /\ Listed(Reads!NoEntries) = {}
  BY DEF Reads!NoEntries, Listed
<1>2. IsFiniteSet(Listed(Reads!NoEntries))
  BY <1>1, FS_EmptySet
<1>3. PICK f : f = Bytes(Reads!NoEntries)
  OBVIOUS
<1>4. Total(f, {}) = 0
  BY FS_EmptySet, TotalFirst
<1> QED BY <1>1, <1>2, <1>3, <1>4, ChargedTotal, ReadBounds DEF Booked

LEMMA ChargedEntry ==
    ASSUME NEW old \in [Assignments -> {None} \cup Entry], IsFiniteSet(Listed(old)),
           NEW new \in [Assignments -> {None} \cup Entry], NEW c \in Assignments,
           old[c] = None, new[c] # None, \A d \in Assignments : d # c => new[d] = old[d]
    PROVE  IsFiniteSet(Listed(new)) /\ Reads!Charged(new) <= Reads!Charged(old) + new[c].bytes
<1>1. Listed(new) = Listed(old) \cup {c} /\ c \notin Listed(old)
  BY DEF Listed
<1>2. IsFiniteSet(Listed(new))
  BY <1>1, FS_AddElement
<1>3. PICK S : S = Listed(old)
  OBVIOUS
<1>4. PICK T : T = Listed(new)
  OBVIOUS
<1>5. PICK f : f = Bytes(old)
  OBVIOUS
<1>6. PICK g : g = Bytes(new)
  OBVIOUS
<1>7. /\ Reads!Charged(old) = Total(f, S) /\ Total(f, S) \in Nat /\ \A d \in S : f[d] = old[d].bytes /\ f[d] \in Nat
      /\ Reads!Charged(new) = Total(g, T) /\ Total(g, T) \in Nat /\ \A d \in T : g[d] = new[d].bytes /\ g[d] \in Nat
  BY <1>2, <1>3, <1>4, <1>5, <1>6, ChargedTotal
<1>8. T = S \cup {c} /\ c \notin S /\ T \ {c} = S /\ c \in T /\ IsFiniteSet(S) /\ IsFiniteSet(T)
  BY <1>1, <1>2, <1>3, <1>4
<1>9. Total(g, T) = g[c] + Total(g, S)
  <2>1. IsFiniteSet(T) /\ \A d \in T : g[d] \in Nat
    BY <1>7, <1>8
  <2>2. \A x \in T : Total(g, T) = g[x] + Total(g, T \ {x})
    BY <2>1, TotalRemove
  <2> QED BY <1>8, <2>2
<1>10. Total(g, S) <= Total(f, S)
  <2>1. PICK h : h = [d \in S |-> d]
    OBVIOUS
  <2>2. \A d \in S : g[d] \in Nat /\ h[d] \in S /\ g[d] <= f[h[d]]
    <3>1. ASSUME NEW d \in S PROVE g[d] \in Nat /\ h[d] = d /\ g[d] = f[d]
      <4>1. d \in Assignments /\ d # c /\ d \in T
        BY <1>3, <1>8 DEF Listed
      <4> QED BY <1>7, <2>1, <4>1
    <3> QED BY <3>1
  <2>3. \A x, y \in S : h[x] = h[y] => x = y
    BY <2>1
  <2> QED BY <1>7, <1>8, <2>2, <2>3, TotalBelow
<1>11. Total(g, S) \in Nat /\ g[c] \in Nat /\ g[c] = new[c].bytes
  BY <1>7, <1>8, TotalRemove
<1> QED BY <1>2, <1>7, <1>9, <1>10, <1>11

-----------------------------------------------------------------------------
(***************************************************************************)
(* The steps of a guard, and its limits.                                   *)
(***************************************************************************)
Writing == {"session", "record"}
LimitsInv == BudgetInv /\ DirectoryInv

\* The names are a number.
LEMMA NamesCount ==
    ASSUME DirectoryInv
    PROVE  /\ Cardinality(Recorded) \in Nat /\ scratch \in Nat /\ Reads!Names \in Nat
           /\ Reads!Names = 1 + (IF session = None THEN 0 ELSE 1) + Cardinality(Recorded) + scratch
<1>1. Cardinality(Recorded) \in Nat /\ scratch \in Nat
  BY FS_CardinalityType DEF DirectoryInv
<1>2. Reads!Names = 1 + (IF session = None THEN 0 ELSE 1) + Cardinality(Recorded) + scratch
  <2>1. Reads!Cardinality(Recorded) = Cardinality(Recorded)
    BY DEF Cardinality, Reads!Cardinality
  <2> QED BY <2>1 DEF Reads!Names, Recorded
<1>3. PICK n : n = Cardinality(Recorded)
  OBVIOUS
<1> QED BY <1>1, <1>2, <1>3

\* Nobody starts to write.
LEMMA NothingWritten ==
    ASSUME LimitsInv, UNCHANGED <<session, records, scratch>>, IsFiniteSet(admitted'),
           \A k \in Rooms : hooks'[k] = hooks[k] \/ hooks'[k].at \notin Writing
    PROVE  LimitsInv'
<1>1. \A m : Reads!RecordOf(m)' = Reads!RecordOf(m)
  BY DEF Reads!RecordOf
<1>2. BudgetInv'
  <2>1. \A m \in Paths : Booked(Reads!RecordOf(m))'
    BY DEF LimitsInv, BudgetInv, Reads!RecordOf
  <2>2. ASSUME NEW k \in Rooms, hooks'[k].at \in Writing, Reads!New(k)'
        PROVE  (Reads!Charged(Reads!RecordOf(hooks[k].message)) + hooks[k].bytes <= READ_MAX_MESSAGE_BYTES)'
    <3>1. hooks'[k] = hooks[k]
      BY <2>2
    <3>2. Reads!New(k)
      BY <2>2, <3>1 DEF Reads!New, Reads!RecordOf
    <3>3. Reads!Charged(Reads!RecordOf(hooks[k].message)) + hooks[k].bytes <= READ_MAX_MESSAGE_BYTES
      BY <2>2, <3>1, <3>2 DEF LimitsInv, BudgetInv, Writing
    <3> QED BY <3>1, <3>3 DEF Reads!RecordOf
  <2> QED BY <2>1, <2>2 DEF BudgetInv, Writing
<1>3. DirectoryInv'
  BY DEF LimitsInv, DirectoryInv, Reads!Names, Recorded, Writing
<1> QED BY <1>2, <1>3 DEF LimitsInv

\* The holder of the lock takes a step to f, and writes perhaps a record.
LEMMA HolderLimits ==
    ASSUME ReadInv, LimitsInv, NEW h \in Rooms, hooks[h].at \in Locked, NEW f, hooks' = [hooks EXCEPT ![h] = f],
           \A m \in Paths : Booked(Reads!RecordOf(m)'), admitted' = admitted,
           f.at \in Writing /\ Reads!RecordOf(f.message)'[f.call] = None =>
               Reads!Charged(Reads!RecordOf(f.message)') + f.bytes <= READ_MAX_MESSAGE_BYTES
    PROVE  /\ BudgetInv' /\ hooks'[h] = f
           /\ \A k \in Rooms : k # h => hooks'[k] = hooks[k] /\ hooks'[k].at \notin Writing
<1>1. /\ hooks'[h] = f
      /\ \A k \in Rooms : k # h => hooks'[k] = hooks[k]
  BY DEF ReadInv, ReadTypes
<1>2. ASSUME NEW k \in Rooms, k # h PROVE hooks[k].at \notin Writing
  <2>1. lock = h
    BY DEF ReadInv, HookInv
  <2> QED BY <1>2, <2>1 DEF ReadInv, HookInv, Writing, Locked
<1>3. ASSUME NEW k \in Rooms, hooks'[k].at \in Writing, Reads!New(k)'
      PROVE  (Reads!Charged(Reads!RecordOf(hooks[k].message)) + hooks[k].bytes <= READ_MAX_MESSAGE_BYTES)'
  <2>1. k = h /\ hooks'[k] = f
    BY <1>1, <1>2, <1>3
  <2>2. Reads!RecordOf(f.message)'[f.call] = None
    BY <1>3, <2>1 DEF Reads!New, Reads!RecordOf
  <2>3. Reads!Charged(Reads!RecordOf(f.message)') + f.bytes <= READ_MAX_MESSAGE_BYTES
    BY <1>3, <2>1, <2>2
  <2> QED BY <2>1, <2>3 DEF Reads!RecordOf
<1>4. BudgetInv'
  BY <1>3 DEF LimitsInv, BudgetInv, Writing
<1> QED BY <1>1, <1>2, <1>4

\* A decision counts against the budget and the directory what is still to be written.
LEMMA DecisionLimits ==
    ASSUME ReadInv, LimitsInv, NEW h \in Rooms, Reads!_reserve_read(h)
    PROVE  LimitsInv'
<1> DEFINE hook == hooks[h]
<1>1. /\ UNCHANGED <<session, records, scratch, admitted>> /\ hook \in Hook /\ hook.at = "reserve"
      /\ hook.message \in Paths /\ IsFiniteSet(admitted)
  BY DEF Reads!_reserve_read, Reads!At, Reads!state, ReadInv, ReadTypes, HookInv, Locked, LimitsInv, BudgetInv
<1>2. CASE Reads!Release(h)
  <2>1. \A k \in Rooms : hooks'[k] = hooks[k] \/ hooks'[k].at = "idle"
    BY <1>2 DEF Reads!Release, Reads!Deny, Reads!Step, Reads!Idle, ReadInv, ReadTypes
  <2> QED BY <1>1, <2>1, NothingWritten DEF Writing
<1>3. CASE ~Reads!Release(h)
  <2>1. PICK r : Reads!Step(h, [hook EXCEPT
                    !.at = IF Reads!WritesSession(h) THEN "session" ELSE IF Reads!New(h) THEN "record" ELSE "sync",
                    !.revision = r])
    BY <1>3 DEF Reads!_reserve_read
  <2>2. Reads!Admissible(h) /\ Reads!Room(h)
    BY <1>3 DEF Reads!_reserve_read
  <2>3. PICK a : a = IF Reads!WritesSession(h) THEN "session" ELSE IF Reads!New(h) THEN "record" ELSE "sync"
    OBVIOUS
  <2>4. PICK f : f = [hook EXCEPT !.at = a, !.revision = r]
    OBVIOUS
  <2>5. f.at = a /\ f.call = hook.call /\ f.message = hook.message /\ f.bytes = hook.bytes
    BY <1>1, <2>4 DEF Hook
  <2>6. hooks' = [hooks EXCEPT ![h] = f]
    BY <2>1, <2>3, <2>4 DEF Reads!Step
  <2>7. \A m : Reads!RecordOf(m)' = Reads!RecordOf(m)
    BY <1>1 DEF Reads!RecordOf
  <2>8. \A m \in Paths : Booked(Reads!RecordOf(m)')
    BY <2>7 DEF LimitsInv, BudgetInv
  <2>9. Reads!RecordOf(f.message)'[f.call] = None => Reads!Charged(Reads!RecordOf(f.message)') + f.bytes <= READ_MAX_MESSAGE_BYTES
    <3>1. Reads!RecordOf(f.message)' = Reads!RecordOf(hook.message)
      BY <2>5, <2>7
    <3>2. Reads!RecordOf(hook.message)[hook.call] = None =>
              Reads!Charged(Reads!RecordOf(hook.message)) + hook.bytes <= READ_MAX_MESSAGE_BYTES
      BY <2>2 DEF Reads!Admissible, Reads!New
    <3> QED BY <2>5, <3>1, <3>2
  <2>10. /\ BudgetInv' /\ hooks'[h] = f
         /\ \A k \in Rooms : k # h => hooks'[k] = hooks[k] /\ hooks'[k].at \notin Writing
    BY <1>1, <2>6, <2>8, <2>9, HolderLimits DEF Locked
  <2>11. /\ a = "session" => Reads!Names + (IF session = None THEN 1 ELSE 0) + 1 <= READ_STATE_MAX_ENTRIES
         /\ a = "record" => Reads!Names + 1 <= READ_STATE_MAX_ENTRIES
    <3>1. PICK n \in Nat : n = Reads!Names
      BY NamesCount DEF LimitsInv
    <3>2. a = "session" => Reads!WritesSession(h)
      BY <2>3
    <3>3. a = "record" => Reads!New(h) /\ session # None
      BY <2>3 DEF Reads!WritesSession
    <3>4. n + (IF session = None THEN 1 ELSE 0)
            + (IF Reads!WritesSession(h) \/ Reads!New(h) THEN 1 ELSE 0) <= READ_STATE_MAX_ENTRIES
      BY <2>2, <3>1 DEF Reads!Room
    <3> QED BY <3>1, <3>2, <3>3, <3>4
  <2>12. Reads!Names' = Reads!Names
    BY <1>1 DEF Reads!Names
  <2>13. DirectoryInv'
    BY <1>1, <2>5, <2>10, <2>11, <2>12 DEF LimitsInv, DirectoryInv, Writing, Recorded
  <2> QED BY <2>10, <2>13 DEF LimitsInv
<1> QED BY <1>2, <1>3

\* The binding takes the name that was left for it.
LEMMA BindingLimits ==
    ASSUME ReadInv, LimitsInv, NEW h \in Rooms, Reads!_write_session_record(h)
    PROVE  LimitsInv'
<1> DEFINE hook == hooks[h]
<1>1. /\ UNCHANGED <<records, scratch, admitted>> /\ hook \in Hook /\ hook.at = "session" /\ session' # None
  BY BindingWritten DEF Reads!_write_session_record, Reads!At, ReadInv, ReadTypes
<1>2. PICK a : a = IF Reads!New(h) THEN "record" ELSE "sync"
  OBVIOUS
<1>3. PICK f : f = [hook EXCEPT !.at = a]
  OBVIOUS
<1>4. f.at = a /\ f.call = hook.call /\ f.message = hook.message /\ f.bytes = hook.bytes
  BY <1>1, <1>3 DEF Hook
<1>5. hooks' = [hooks EXCEPT ![h] = f]
  BY <1>2, <1>3 DEF Reads!_write_session_record, Reads!Step
<1>6. \A m : Reads!RecordOf(m)' = Reads!RecordOf(m)
  BY <1>1 DEF Reads!RecordOf
<1>7. \A m \in Paths : Booked(Reads!RecordOf(m)')
  BY <1>6 DEF LimitsInv, BudgetInv
<1>8. Reads!RecordOf(f.message)'[f.call] = None => Reads!Charged(Reads!RecordOf(f.message)') + f.bytes <= READ_MAX_MESSAGE_BYTES
  <2>1. Reads!RecordOf(f.message)' = Reads!RecordOf(hook.message)
    BY <1>4, <1>6
  <2>2. Reads!RecordOf(hook.message)[hook.call] = None =>
            Reads!Charged(Reads!RecordOf(hook.message)) + hook.bytes <= READ_MAX_MESSAGE_BYTES
    BY <1>1 DEF LimitsInv, BudgetInv, Reads!New
  <2> QED BY <1>4, <2>1, <2>2
<1>9. /\ BudgetInv' /\ hooks'[h] = f
      /\ \A k \in Rooms : k # h => hooks'[k] = hooks[k] /\ hooks'[k].at \notin Writing
  BY <1>1, <1>5, <1>7, <1>8, HolderLimits DEF Locked
<1>10. DirectoryInv'
  <2>1. PICK n \in Nat : n = Cardinality(Recorded)
    BY NamesCount DEF LimitsInv
  <2>2. Recorded' = Recorded
    BY <1>1 DEF Recorded
  <2>3. scratch \in Nat /\ Reads!Names = 1 + (IF session = None THEN 0 ELSE 1) + n + scratch
    BY <2>1, NamesCount DEF LimitsInv
  <2>4. Reads!Names' = 1 + 1 + n + scratch
    <3>1. Reads!Cardinality(Recorded) = Cardinality(Recorded)
      BY DEF Cardinality, Reads!Cardinality
    <3> QED BY <1>1, <2>1, <3>1 DEF Reads!Names, Recorded
  <2>5. Reads!Names + (IF session = None THEN 1 ELSE 0) + 1 <= READ_STATE_MAX_ENTRIES
    BY <1>1 DEF LimitsInv, DirectoryInv
  <2>6. PICK m \in Nat : m = Reads!Names' /\ m + 1 <= READ_STATE_MAX_ENTRIES
    BY <2>3, <2>4, <2>5, ReadBounds
  <2>7. m <= READ_STATE_MAX_ENTRIES
    <3>1. m \in Nat /\ m + 1 <= READ_STATE_MAX_ENTRIES
      BY <2>6
    <3>2. READ_STATE_MAX_ENTRIES \in Nat
      BY ReadBounds
    <3> QED BY <3>1, <3>2
  <2>8. f.at \in {"record", "sync"}
    BY <1>2, <1>4
  <2> QED BY <1>1, <1>9, <2>2, <2>6, <2>7, <2>8 DEF LimitsInv, DirectoryInv, Writing
<1> QED BY <1>9, <1>10 DEF LimitsInv

\* The entry is charged what was decided, and takes a name if it is the first of its message.
LEMMA EntryLimits ==
    ASSUME ReadInv, LimitsInv, NEW h \in Rooms, Reads!_write_record(h)
    PROVE  LimitsInv'
<1> DEFINE hook == hooks[h]
<1>1. /\ UNCHANGED <<session, scratch, admitted>> /\ hook \in Hook /\ hook.at = "record"
      /\ hook.call \in Assignments /\ hook.args \in Args /\ hook.message \in Paths /\ hook.revision \in Revisions
  BY DEF Reads!_write_record, Reads!At, ReadInv, ReadTypes, HookInv, Locked
<1>2. PICK old : old = Reads!RecordOf(hook.message)
  OBVIOUS
<1>3. PICK entry : entry = [args |-> hook.args, bytes |-> hook.bytes]
  OBVIOUS
<1>4. PICK new : new = [old EXCEPT ![hook.call] = entry]
  OBVIOUS
<1>5. old[hook.call] = None /\ old \in [Assignments -> {None} \cup Entry] /\ Booked(old)
  BY <1>1, <1>2, RecordTypes DEF ReadInv, DecidedInv, Decided, LimitsInv, BudgetInv
<1>6. /\ new \in [Assignments -> {None} \cup Entry] /\ new[hook.call] # None /\ new[hook.call].bytes = hook.bytes
      /\ \A d \in Assignments : d # hook.call => new[d] = old[d]
  <2>1. entry \in Entry /\ entry.bytes = hook.bytes
    BY <1>1, <1>3 DEF Entry, Hook
  <2> QED BY <1>1, <1>4, <1>5, <2>1, LedgerNone
<1>7. Reads!Charged(old) + hook.bytes <= READ_MAX_MESSAGE_BYTES
  BY <1>1, <1>2, <1>5 DEF LimitsInv, BudgetInv, Reads!New
<1>8. Booked(new)
  <2>1. IsFiniteSet(Listed(new)) /\ Reads!Charged(new) <= Reads!Charged(old) + new[hook.call].bytes
    BY <1>1, <1>5, <1>6, ChargedEntry DEF Booked
  <2>2. Reads!Charged(old) \in Nat /\ Reads!Charged(new) \in Nat /\ hook.bytes \in Nat
    BY <1>1, <1>5, <1>6, <2>1, ChargedTotal DEF Booked, Hook
  <2> QED BY <1>6, <1>7, <2>1, <2>2, ReadBounds DEF Booked
<1>9. PICK ledger : ledger = [ino |-> hook.revision.ino, entries |-> new]
  OBVIOUS
<1>10. ledger # None /\ ledger.entries = new
  BY <1>1, <1>6, <1>9, LedgerNone DEF Ledgers, Revisions
<1>11. records' = [records EXCEPT ![hook.message] = ledger]
  BY <1>2, <1>3, <1>4, <1>9 DEF Reads!_write_record
<1>12. \A m \in Paths : IF m = hook.message THEN records'[m] = ledger ELSE records'[m] = records[m]
  BY <1>1, <1>11 DEF ReadInv, ReadTypes
<1>13. \A m \in Paths : Booked(Reads!RecordOf(m)')
  <2>1. ASSUME NEW m \in Paths, m = hook.message PROVE Reads!RecordOf(m)' = new
    BY <1>10, <1>12, <2>1 DEF Reads!RecordOf
  <2>2. ASSUME NEW m \in Paths, m # hook.message PROVE Reads!RecordOf(m)' = Reads!RecordOf(m)
    BY <1>12, <2>2 DEF Reads!RecordOf, Reads!NoEntries
  <2> QED BY <1>8, <2>1, <2>2 DEF LimitsInv, BudgetInv
<1>14. PICK f : f = [hook EXCEPT !.at = "sync"]
  OBVIOUS
<1>15. f.at = "sync" /\ hooks' = [hooks EXCEPT ![h] = f]
  BY <1>1, <1>14 DEF Hook, Reads!_write_record, Reads!Step
<1>16. /\ BudgetInv' /\ hooks'[h] = f
       /\ \A k \in Rooms : k # h => hooks'[k] = hooks[k] /\ hooks'[k].at \notin Writing
  BY <1>1, <1>13, <1>15, HolderLimits DEF Locked, Writing
<1>17. DirectoryInv'
  <2>1. PICK n \in Nat : n = Cardinality(Recorded)
    BY NamesCount DEF LimitsInv
  <2>2. Recorded' = Recorded \cup {hook.message}
    BY <1>1, <1>10, <1>12 DEF Recorded
  <2>3. PICK R : R = Recorded'
    OBVIOUS
  <2>4. IsFiniteSet(R) /\ Cardinality(R) \in Nat /\ Cardinality(R) <= n + 1
    <3>1. IsFiniteSet(Recorded)
      BY DEF LimitsInv, DirectoryInv
    <3>2. IsFiniteSet(R) /\ Cardinality(R) = IF hook.message \in Recorded THEN Cardinality(Recorded) ELSE Cardinality(Recorded) + 1
      BY <2>2, <2>3, <3>1, FS_AddElement
    <3> QED BY <2>1, <3>2
  <2>5. scratch \in Nat /\ Reads!Names = 1 + (IF session = None THEN 0 ELSE 1) + n + scratch
    BY <2>1, NamesCount DEF LimitsInv
  <2>6. Reads!Names' = 1 + (IF session = None THEN 0 ELSE 1) + Cardinality(R) + scratch
    <3>1. Reads!Cardinality(R) = Cardinality(R)
      BY DEF Cardinality, Reads!Cardinality
    <3> QED BY <1>1, <2>3, <3>1 DEF Reads!Names, Recorded
  <2>7. Reads!Names + 1 <= READ_STATE_MAX_ENTRIES
    BY <1>1 DEF LimitsInv, DirectoryInv
  <2>8. Reads!Names' <= READ_STATE_MAX_ENTRIES
    BY <2>4, <2>5, <2>6, <2>7, ReadBounds
  <2> QED BY <1>1, <1>15, <1>16, <2>3, <2>4, <2>8 DEF LimitsInv, DirectoryInv, Writing
<1> QED BY <1>16, <1>17 DEF LimitsInv

\* The answer, and the death of a guard, which leaves at most the scratch file it was to write.
LEMMA AnswerLimits ==
    ASSUME ReadInv, LimitsInv, NEW h \in Rooms, Reads!Answer(h)
    PROVE  LimitsInv'
<1>1. UNCHANGED <<session, records, scratch>>
  BY DEF Reads!Answer, Reads!state
<1>2. IsFiniteSet(admitted')
  <2>1. \E x : admitted' = admitted \cup {x} \/ admitted' = admitted
    BY DEF Reads!Answer
  <2> QED BY <2>1, FS_AddElement DEF LimitsInv, BudgetInv
<1>3. \A k \in Rooms : hooks'[k] = hooks[k] \/ hooks'[k].at = "idle"
  BY DEF Reads!Answer, Reads!Release, Reads!Deny, Reads!Step, Reads!Idle, ReadInv, ReadTypes
<1> QED BY <1>1, <1>2, <1>3, NothingWritten DEF Writing

LEMMA KilledLimits ==
    ASSUME ReadInv, LimitsInv, NEW h \in Rooms, Reads!Killed(h)
    PROVE  LimitsInv'
<1>1. UNCHANGED <<session, records, admitted>> /\ hooks' = [hooks EXCEPT ![h] = Reads!Idle] /\ IsFiniteSet(admitted')
  BY DEF Reads!Killed, Reads!Deny, Reads!Step, LimitsInv, BudgetInv
<1>2. Reads!Idle.at = "idle" /\ \A k \in Rooms : hooks'[k] = hooks[k] \/ hooks'[k] = Reads!Idle
  BY <1>1 DEF Reads!Idle, ReadInv, ReadTypes
<1>3. CASE scratch' = scratch
  BY <1>1, <1>2, <1>3, NothingWritten DEF Writing
<1>4. CASE hooks[h].at \in Writing /\ scratch' = scratch + 1
  <2>1. \A m : Reads!RecordOf(m)' = Reads!RecordOf(m)
    BY <1>1 DEF Reads!RecordOf
  <2>2. \A m \in Paths : Booked(Reads!RecordOf(m)')
    BY <2>1 DEF LimitsInv, BudgetInv
  <2>3. /\ BudgetInv' /\ hooks'[h] = Reads!Idle
        /\ \A k \in Rooms : k # h => hooks'[k].at \notin Writing
    BY <1>1, <1>2, <1>4, <2>2, HolderLimits DEF Locked, Writing
  <2>4. PICK n \in Nat : n = Cardinality(Recorded)
    BY NamesCount DEF LimitsInv
  <2>5. scratch \in Nat /\ Reads!Names = 1 + (IF session = None THEN 0 ELSE 1) + n + scratch
    BY <2>4, NamesCount DEF LimitsInv
  <2>6. Reads!Names' = 1 + (IF session = None THEN 0 ELSE 1) + n + (scratch + 1)
    <3>1. Reads!Cardinality(Recorded) = Cardinality(Recorded)
      BY DEF Cardinality, Reads!Cardinality
    <3> QED BY <1>1, <1>4, <2>4, <3>1 DEF Reads!Names, Recorded
  <2>7. Reads!Names + 1 <= READ_STATE_MAX_ENTRIES
    <3>1. CASE hooks[h].at = "record"
      BY <3>1 DEF LimitsInv, DirectoryInv
    <3>2. CASE hooks[h].at = "session"
      <4>1. Reads!Names + (IF session = None THEN 1 ELSE 0) + 1 <= READ_STATE_MAX_ENTRIES
        BY <3>2 DEF LimitsInv, DirectoryInv
      <4>2. PICK m \in Nat : m = Reads!Names
        BY <2>5
      <4> QED BY <4>1, <4>2, ReadBounds
    <3> QED BY <1>4, <3>1, <3>2 DEF Writing
  <2>8. Reads!Names' <= READ_STATE_MAX_ENTRIES
    BY <2>5, <2>6, <2>7, ReadBounds
  <2>9. scratch' \in Nat /\ Recorded' = Recorded
    BY <1>1, <1>4, <2>5 DEF Recorded
  <2>10. \A k \in Rooms : hooks'[k].at \notin Writing
    BY <1>2, <2>3 DEF Writing
  <2> QED BY <2>3, <2>8, <2>9, <2>10 DEF LimitsInv, DirectoryInv, Writing
<1> QED BY <1>3, <1>4 DEF Reads!Killed, Writing

\* Before the decision nothing is written.
LEMMA CorrelationLimits ==
    ASSUME ReadInv, LimitsInv, NEW h \in Rooms,
           \/ \E c \in Assignments, x \in Args : Reads!Begin(h, c, x)
           \/ Reads!_read_message_identity_with_readiness(h)
           \/ Reads!_measure_read(h) \/ Reads!_lock_state(h) \/ Reads!_recheck(h)
    PROVE  LimitsInv'
<1>1. UNCHANGED <<session, records, scratch, admitted>> /\ IsFiniteSet(admitted')
  BY DEF Reads!Begin, Reads!_read_message_identity_with_readiness, Reads!_measure_read,
     Reads!_lock_state, Reads!_recheck, Reads!state, LimitsInv, BudgetInv
<1>2. PICK f : Reads!Step(h, f) /\ f.at \notin Writing
  <2>1. Reads!Idle.at = "idle"
    BY DEF Reads!Idle
  <2>2. hooks[h] \in Hook
    BY DEF ReadInv, ReadTypes
  <2>3. ASSUME NEW c \in Assignments, NEW x \in Args, Reads!Begin(h, c, x)
        PROVE  \E f : Reads!Step(h, f) /\ f.at \notin Writing
    <3>1. [Reads!Idle EXCEPT !.at = "correlate", !.call = c, !.args = x].at = "correlate"
      BY DEF Reads!Idle
    <3> QED BY <2>3, <3>1 DEF Reads!Begin, Writing
  <2>4. ASSUME Reads!_read_message_identity_with_readiness(h)
        PROVE  \E f : Reads!Step(h, f) /\ f.at \notin Writing
    <3>1. \A m, r : [hooks[h] EXCEPT !.at = "measure", !.message = m, !.revision = r, !.checks = 0].at = "measure"
      BY <2>2 DEF Hook
    <3>2. hooks[h].at = "correlate" /\ \A n, r : [hooks[h] EXCEPT !.checks = n, !.revision = r].at = hooks[h].at
      BY <2>2, <2>4 DEF Hook, Reads!_read_message_identity_with_readiness, Reads!At
    <3>3. \E n, r : [hooks[h] EXCEPT !.checks = @ + 1, !.revision = Reads!Revision(Len(log))]
                        = [hooks[h] EXCEPT !.checks = n, !.revision = r]
      OBVIOUS
    <3>4. \/ Reads!Deny(h)
          \/ \E m, r : Reads!Step(h, [hooks[h] EXCEPT !.at = "measure", !.message = m, !.revision = r, !.checks = 0])
          \/ \E n, r : Reads!Step(h, [hooks[h] EXCEPT !.checks = n, !.revision = r])
      BY <2>4, <3>3 DEF Reads!_read_message_identity_with_readiness
    <3>5. CASE Reads!Deny(h)
      BY <2>1, <3>5 DEF Reads!Deny, Writing
    <3>6. ASSUME NEW m, NEW r,
                 Reads!Step(h, [hooks[h] EXCEPT !.at = "measure", !.message = m, !.revision = r, !.checks = 0])
          PROVE  \E f : Reads!Step(h, f) /\ f.at \notin Writing
      BY <3>1, <3>6 DEF Writing
    <3>7. ASSUME NEW n, NEW r, Reads!Step(h, [hooks[h] EXCEPT !.checks = n, !.revision = r])
          PROVE  \E f : Reads!Step(h, f) /\ f.at \notin Writing
      <4>1. PICK f : f = [hooks[h] EXCEPT !.checks = n, !.revision = r]
        OBVIOUS
      <4>2. f.at = "correlate"
        BY <3>2, <4>1
      <4> QED BY <3>7, <4>1, <4>2 DEF Writing
    <3> QED BY <3>4, <3>5, <3>6, <3>7
  <2>5. ASSUME Reads!_measure_read(h) \/ Reads!_lock_state(h) \/ Reads!_recheck(h)
        PROVE  \E f : Reads!Step(h, f) /\ f.at \notin Writing
    <3>1. /\ \A n : [hooks[h] EXCEPT !.at = "lock", !.bytes = n].at = "lock"
          /\ [hooks[h] EXCEPT !.at = "recheck"].at = "recheck"
          /\ \A r : [hooks[h] EXCEPT !.at = "reserve", !.revision = r].at = "reserve"
      BY <2>2 DEF Hook
    <3> QED BY <2>1, <2>5, <3>1 DEF Reads!_measure_read, Reads!_lock_state, Reads!_recheck, Reads!Release, Reads!Deny, Writing
  <2> QED BY <2>3, <2>4, <2>5
<1>3. \A k \in Rooms : hooks'[k] = hooks[k] \/ hooks'[k].at \notin Writing
  BY <1>2 DEF Reads!Step, ReadInv, ReadTypes
<1> QED BY <1>1, <1>3, NothingWritten

\* Both limits hold in every state.
LEMMA LimitsInit == Reads!Init => LimitsInv
<1> SUFFICES ASSUME Reads!Init PROVE LimitsInv
  OBVIOUS
<1>1. /\ admitted = {} /\ session = None /\ scratch = 0 /\ \A m \in Paths : records[m] = None
      /\ \A h \in Rooms : hooks[h].at = "idle"
  BY DEF Reads!Init, Reads!Idle
<1>2. BudgetInv
  <2>1. \A m \in Paths : Reads!RecordOf(m) = Reads!NoEntries
    BY <1>1 DEF Reads!RecordOf
  <2> QED BY <1>1, <2>1, ChargedNothing, FS_EmptySet DEF BudgetInv
<1>3. Recorded = {}
  BY <1>1 DEF Recorded
<1>4. IsFiniteSet(Recorded) /\ Cardinality(Recorded) = 0
  BY <1>3, FS_EmptySet
<1>5. Reads!Names = 1
  <2>1. Reads!Cardinality(Recorded) = Cardinality(Recorded)
    BY DEF Cardinality, Reads!Cardinality
  <2> QED BY <1>1, <1>4, <2>1 DEF Reads!Names, Recorded
<1>6. DirectoryInv
  BY <1>1, <1>4, <1>5, ReadBounds DEF DirectoryInv
<1> QED BY <1>2, <1>6 DEF LimitsInv

LEMMA LimitsStep == ReadInv /\ LimitsInv /\ [Reads!Next]_(Reads!vars) => LimitsInv'
<1> SUFFICES ASSUME ReadInv, LimitsInv, [Reads!Next]_(Reads!vars) PROVE LimitsInv'
  OBVIOUS
<1>1. ASSUME NEW h \in Rooms, Reads!Guard(h) PROVE LimitsInv'
  BY <1>1, CorrelationLimits, DecisionLimits, BindingLimits, EntryLimits, AnswerLimits DEF Reads!Guard
<1>2. ASSUME NEW h \in Rooms, Reads!Killed(h) PROVE LimitsInv'
  BY <1>2, KilledLimits
<1>3. CASE UNCHANGED <<session, records, scratch, hooks, admitted>>
  BY <1>3, NothingWritten DEF LimitsInv, BudgetInv
<1> QED BY <1>1, <1>2, <1>3 DEF Reads!Next, Reads!Append_, Reads!Flush, Reads!Rewind, Reads!Change,
    Reads!Guards, Reads!state, Reads!vars

\* What is let through for one message stays within its budget, and the private
\* directory within its bound, for any number of guards, calls and messages
\* (_reserve_read).
THEOREM BudgetsKept == Reads!Spec => []MessageBudget
<1>1. ReadInv /\ LimitsInv => Reads!MessageBudget
  <2> SUFFICES ASSUME ReadInv, LimitsInv, NEW m \in Paths
               PROVE  Reads!MapThenSumSet(LAMBDA read : read.bytes, {read \in admitted : read.message = m})
                          <= READ_MAX_MESSAGE_BYTES
    BY DEF Reads!MessageBudget
  <2>1. PICK S : S = {read \in admitted : read.message = m}
    OBVIOUS
  <2>2. PICK e : e = Reads!RecordOf(m)
    OBVIOUS
  <2>3. IsFiniteSet(S)
    BY <2>1, FS_Subset DEF LimitsInv, BudgetInv
  <2>4. /\ e \in [Assignments -> {None} \cup Entry] /\ IsFiniteSet(Listed(e))
        /\ Reads!Charged(e) <= READ_MAX_MESSAGE_BYTES
    BY <2>2, RecordTypes DEF ReadInv, LimitsInv, BudgetInv, Booked
  <2>5. PICK T : T = Listed(e)
    OBVIOUS
  <2>6. PICK g : g = Bytes(e)
    OBVIOUS
  <2>7. PICK f : f = [x \in S |-> x.bytes]
    OBVIOUS
  <2>8. PICK h : h = [x \in S |-> x.call]
    OBVIOUS
  <2>9. /\ Reads!Charged(e) = Total(g, T) /\ Total(g, T) \in Nat
        /\ \A c \in T : g[c] = e[c].bytes /\ g[c] \in Nat
    BY <2>4, <2>5, <2>6, ChargedTotal
  <2>10. Reads!MapThenSumSet(LAMBDA read : read.bytes, S) = Total(f, S)
    BY <2>3, <2>7, ReadsTotal
  <2>11. ASSUME NEW x \in S PROVE f[x] \in Nat /\ h[x] \in T /\ f[x] <= g[h[x]]
    <3>1. x \in Admissions /\ e[x.call] = [args |-> x.args, bytes |-> x.bytes]
      BY <2>1, <2>2 DEF ReadInv, ReadTypes, AdmittedInv
    <3>2. x.call \in Assignments /\ x.bytes \in Nat /\ x.args \in Args
      BY <3>1 DEF Admissions
    <3>3. e[x.call] # None /\ e[x.call].bytes = x.bytes
      BY <3>1, <3>2, LedgerNone DEF Entry
    <3>4. h[x] \in T /\ h[x] = x.call /\ f[x] = x.bytes
      BY <2>5, <2>7, <2>8, <3>2, <3>3 DEF Listed
    <3>5. g[h[x]] = x.bytes
      BY <2>9, <3>3, <3>4
    <3> QED BY <3>2, <3>4, <3>5
  <2>12. \A x, y \in S : h[x] = h[y] => x = y
    BY <2>1, <2>8, OnceOnly DEF OneCallOneRead, Reads!OneCallOneRead
  <2>13. Total(f, S) <= Total(g, T)
    BY <2>3, <2>4, <2>5, <2>9, <2>11, <2>12, TotalBelow
  <2>14. Total(f, S) \in Nat
    BY <2>3, <2>11, TotalRemove
  <2>15. Total(f, S) <= READ_MAX_MESSAGE_BYTES
    BY <2>4, <2>9, <2>13, <2>14, ReadBounds
  <2> QED BY <2>1, <2>10, <2>15
<1>2. ReadInv /\ LimitsInv => Reads!DirectoryBounded
  <2> SUFFICES ASSUME ReadInv, LimitsInv PROVE Reads!DirectoryBounded
    OBVIOUS
  <2>1. PICK W : W = {h \in Rooms : hooks[h].at \in {"session", "record"}}
    OBVIOUS
  <2>2. PICK n \in Nat : n = Reads!Names
    BY NamesCount DEF LimitsInv
  <2>3. n <= READ_STATE_MAX_ENTRIES
    BY <2>2 DEF LimitsInv, DirectoryInv
  <2>4. n + Cardinality(W) <= READ_STATE_MAX_ENTRIES
    <3>1. CASE W = {}
      BY <2>3, <3>1, FS_EmptySet, ReadBounds
    <3>2. CASE W # {}
      <4>1. PICK h \in Rooms : h \in W /\ hooks[h].at \in {"session", "record"}
        BY <2>1, <3>2
      <4>2. W = {h}
        BY <2>1, <4>1 DEF ReadInv, HookInv, Locked
      <4>3. Cardinality(W) = 1
        BY <4>2, FS_Singleton
      <4>4. n + 1 <= READ_STATE_MAX_ENTRIES
        BY <2>2, <4>1, ReadBounds DEF LimitsInv, DirectoryInv
      <4> QED BY <4>3, <4>4
    <3> QED BY <3>1, <3>2
  <2>5. Reads!Cardinality(W) = Cardinality(W)
    BY DEF Cardinality, Reads!Cardinality
  <2> QED BY <2>1, <2>2, <2>4, <2>5 DEF Reads!DirectoryBounded
<1>3. ReadInv /\ LimitsInv => MessageBudget
  BY <1>1, <1>2 DEF MessageBudget
<1> QED BY <1>3, ReadsInit, ReadsStep, LimitsInit, LimitsStep, PTL DEF Reads!Spec

===============================================================================
