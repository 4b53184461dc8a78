-------------------------- MODULE DeepSeekJobs_proof --------------------------
(***************************************************************************)
(* Proofs about the components of MCDelegates: DeepSeekJobs, for any       *)
(* number of jobs, rooms, payloads, limits and deaths, and TextDelegate,   *)
(* for any number of jobs, versions of the profile and edits.              *)
(***************************************************************************)
EXTENDS MCDelegates, FiniteSetTheorems, WellFoundedInduction, TLAPS

-----------------------------------------------------------------------------
(***************************************************************************)
(* Sums over finite sets.                                                  *)
(***************************************************************************)
\* The sum of f over S.
Total(f, S) == MapThenSumSet(LAMBDA x : f[x], S)

\* The element the sum takes first, and what makes g the function of partial sums.
First(s) == CHOOSE x \in s : TRUE
Partial(f, P, g) == g = [s \in P |-> IF s = {} THEN 0 ELSE f[First(s)] + g[s \ {First(s)}]]
AtMost(S, n) == {s \in SUBSET S : Cardinality(s) <= n}

\* Some numbers have a first one.
LEMMA LeastNumber ==
    ASSUME NEW T, T \subseteq Nat, T # {}
    PROVE  \E n \in T : \A m \in T : n <= m
<1> DEFINE R == OpToRel(<, Nat)
<1>1. IsWellFoundedOn(R, Nat)
  BY NatLessThanWellFounded
<1> HIDE DEF R
<1>2. PICK n \in T : \A m \in T : ~(<<m, n>> \in R)
  BY <1>1, WFMin
<1>3. ASSUME NEW m \in T PROVE n <= m
  <2>1. ~(<<m, n>> \in R) /\ m \in Nat /\ n \in Nat
    BY <1>2
  <2>2. ~(m < n)
    BY <2>1 DEF R, OpToRel
  <2> QED BY <2>1, <2>2
<1> QED BY <1>3

\* One element less.
LEMMA Smaller ==
    ASSUME NEW S, IsFiniteSet(S), NEW x \in S
    PROVE  IsFiniteSet(S \ {x}) /\ Cardinality(S) \in Nat /\ Cardinality(S \ {x}) \in Nat
           /\ Cardinality(S) = Cardinality(S \ {x}) + 1 /\ Cardinality(S) > Cardinality(S \ {x})
<1>1. IsFiniteSet(S \ {x}) /\ Cardinality(S \ {x}) = Cardinality(S) - 1
  BY FS_RemoveElement
<1> QED BY <1>1, FS_CardinalityType

\* There is a function of partial sums.
LEMMA PartialExists ==
    ASSUME NEW S, IsFiniteSet(S), NEW f
    PROVE  \E g : Partial(f, SUBSET S, g)
<1> DEFINE T == {n \in Nat : ~ \E g : Partial(f, AtMost(S, n), g)}
<1>1. ASSUME NEW s \in SUBSET S PROVE IsFiniteSet(s) /\ Cardinality(s) \in Nat /\ Cardinality(s) <= Cardinality(S)
  BY FS_Subset, FS_CardinalityType
<1>2. ASSUME NEW s, s # {} PROVE First(s) \in s
  BY <1>2 DEF First
<1>3. 0 \notin T
  <2> DEFINE g == [s \in AtMost(S, 0) |-> 0]
  <2>1. ASSUME NEW s \in AtMost(S, 0) PROVE s = {}
    BY <1>1, <2>1, FS_EmptySet DEF AtMost
  <2>2. Partial(f, AtMost(S, 0), g)
    BY <2>1 DEF Partial
  <2> QED BY <2>2
<1>4. ASSUME NEW n \in Nat, n \notin T PROVE n + 1 \notin T
  <2>1. PICK g : Partial(f, AtMost(S, n), g)
    BY <1>4
  <2> DEFINE h == [s \in AtMost(S, n + 1) |-> IF s = {} THEN 0 ELSE f[First(s)] + g[s \ {First(s)}]]
  <2>2. ASSUME NEW s \in AtMost(S, n + 1), s # {}
        PROVE  s \ {First(s)} \in AtMost(S, n)
    <3>1. First(s) \in s /\ IsFiniteSet(s) /\ Cardinality(s) <= n + 1
      BY <1>1, <1>2, <2>2 DEF AtMost
    <3> QED BY <1>4, <3>1, Smaller DEF AtMost
  <2>3. ASSUME NEW s \in AtMost(S, n) PROVE h[s] = g[s]
    <3>1. s \in AtMost(S, n + 1)
      BY <1>1, <1>4, <2>3 DEF AtMost
    <3> QED BY <2>1, <2>3, <3>1 DEF Partial
  <2>4. Partial(f, AtMost(S, n + 1), h)
    BY <2>2, <2>3 DEF Partial
  <2> QED BY <2>4
<1>5. T = {}
  <2>1. SUFFICES ASSUME T # {} PROVE FALSE
    OBVIOUS
  <2>2. PICK n \in T : \A m \in T : n <= m
    <3>1. T \subseteq Nat
      OBVIOUS
    <3> HIDE DEF T
    <3> QED BY <2>1, <3>1, LeastNumber
  <2>3. n \in Nat /\ n # 0 /\ n - 1 \in Nat /\ n - 1 \notin T
    <3>1. n \in Nat
      OBVIOUS
    <3> HIDE DEF T
    <3> QED BY <1>3, <2>2, <3>1
  <2> HIDE DEF T
  <2> QED BY <1>4, <2>3
<1>6. SUBSET S = AtMost(S, Cardinality(S)) /\ Cardinality(S) \in Nat
  BY <1>1 DEF AtMost
<1>7. PICK n \in Nat : n = Cardinality(S)
  BY <1>6
<1>8. \E g : Partial(f, AtMost(S, n), g)
  BY <1>5
<1> QED BY <1>6, <1>7, <1>8

\* Functions of partial sums agree.
LEMMA PartialUnique ==
    ASSUME NEW S, IsFiniteSet(S), NEW T, S \subseteq T, NEW f, NEW g, NEW h,
           Partial(f, SUBSET S, g), Partial(f, SUBSET T, h)
    PROVE  g[S] = h[S]
<1> DEFINE B == {Cardinality(s) : s \in {t \in SUBSET S : g[t] # h[t]}}
<1>1. ASSUME NEW s \in SUBSET S PROVE IsFiniteSet(s) /\ Cardinality(s) \in Nat
  BY FS_Subset, FS_CardinalityType
<1>2. B = {}
  <2>1. SUFFICES ASSUME B # {} PROVE FALSE
    OBVIOUS
  <2>2. PICK n \in B : \A m \in B : n <= m
    <3>1. B \subseteq Nat
      BY <1>1
    <3> HIDE DEF B
    <3> QED BY <2>1, <3>1, LeastNumber
  <2>3. PICK s \in SUBSET S : g[s] # h[s] /\ n = Cardinality(s)
    OBVIOUS
  <2>4. s # {} /\ g[s] = f[First(s)] + g[s \ {First(s)}] /\ h[s] = f[First(s)] + h[s \ {First(s)}]
    BY <2>3 DEF Partial
  <2>5. First(s) \in s
    BY <2>4 DEF First
  <2>6. g[s \ {First(s)}] # h[s \ {First(s)}] /\ s \ {First(s)} \in SUBSET S
    BY <2>3, <2>4
  <2>7. Cardinality(s \ {First(s)}) \in B
    BY <2>6
  <2>8. Cardinality(s) <= Cardinality(s \ {First(s)})
    <3> HIDE DEF B
    <3> QED BY <2>2, <2>3, <2>7
  <2> QED BY <1>1, <2>5, <2>8, Smaller
<1> QED BY <1>2

\* A total is the last partial sum.
LEMMA TotalPartial ==
    ASSUME NEW S, IsFiniteSet(S), NEW f
    PROVE  \E g : Partial(f, SUBSET S, g) /\ Total(f, S) = g[S]
<1> DEFINE Sums(g) == [s \in SUBSET S |-> IF s = {} THEN 0
                         ELSE f[CHOOSE x \in s : TRUE] + g[s \ {CHOOSE x \in s : TRUE}]]
<1>1. PICK g : g = Sums(g)
  <2>1. PICK g : Partial(f, SUBSET S, g)
    BY PartialExists
  <2>2. g = Sums(g)
    BY <2>1 DEF Partial, First
  <2> QED BY <2>2
<1>2. \E h : h = Sums(h) /\ MapThenSumSet(LAMBDA x : f[x], S) = h[S]
  BY <1>1 DEF MapThenSumSet, MapThenFoldSet
<1> QED BY <1>2 DEF Partial, First, Total

\* The sum over nothing, and taking the first element.
LEMMA TotalFirst ==
    ASSUME NEW S, IsFiniteSet(S), NEW f
    PROVE  IF S = {} THEN Total(f, S) = 0 ELSE First(S) \in S /\ Total(f, S) = f[First(S)] + Total(f, S \ {First(S)})
<1>1. PICK g : Partial(f, SUBSET S, g) /\ Total(f, S) = g[S]
  BY TotalPartial
<1>2. S = {} => Total(f, S) = 0
  BY <1>1 DEF Partial
<1>3. ASSUME S # {} PROVE First(S) \in S /\ Total(f, S) = f[First(S)] + Total(f, S \ {First(S)})
  <2>1. First(S) \in S
    BY <1>3 DEF First
  <2>2. IsFiniteSet(S \ {First(S)})
    BY FS_Subset
  <2>3. PICK h : Partial(f, SUBSET (S \ {First(S)}), h) /\ Total(f, S \ {First(S)}) = h[S \ {First(S)}]
    BY <2>2, TotalPartial
  <2>4. h[S \ {First(S)}] = g[S \ {First(S)}]
    BY <1>1, <2>2, <2>3, PartialUnique
  <2>5. g[S] = f[First(S)] + g[S \ {First(S)}]
    BY <1>1, <1>3 DEF Partial
  <2> QED BY <1>1, <2>1, <2>3, <2>4, <2>5
<1> QED BY <1>2, <1>3

\* Every element may be taken out of the sum.
LEMMA TotalRemove ==
    ASSUME NEW S, IsFiniteSet(S), NEW f, \A x \in S : f[x] \in Nat
    PROVE  Total(f, S) \in Nat /\ \A x \in S : Total(f, S) = f[x] + Total(f, S \ {x})
<1> DEFINE Right(s) == Total(f, s) \in Nat /\ \A x \in s : Total(f, s) = f[x] + Total(f, s \ {x})
           B == {Cardinality(s) : s \in {t \in SUBSET S : ~Right(t)}}
<1>1. ASSUME NEW s \in SUBSET S PROVE IsFiniteSet(s) /\ Cardinality(s) \in Nat
  BY FS_Subset, FS_CardinalityType
<1>2. B = {}
  <2>1. SUFFICES ASSUME B # {} PROVE FALSE
    OBVIOUS
  <2>2. PICK n \in B : \A m \in B : n <= m
    <3>1. B \subseteq Nat
      BY <1>1
    <3> HIDE DEF B
    <3> QED BY <2>1, <3>1, LeastNumber
  <2>3. PICK s \in SUBSET S : ~Right(s) /\ n = Cardinality(s)
    OBVIOUS
  <2>4. ASSUME NEW x \in s PROVE Right(s \ {x})
    <3>1. SUFFICES ASSUME ~Right(s \ {x}) PROVE FALSE
      OBVIOUS
    <3>2. Cardinality(s \ {x}) \in B
      BY <3>1
    <3>3. Cardinality(s) <= Cardinality(s \ {x})
      <4> HIDE DEF B, Right
      <4> QED BY <2>2, <2>3, <3>2
    <3> QED BY <1>1, <2>4, <3>3, Smaller
  <2>5. CASE s = {}
    BY <1>1, <2>3, <2>5, TotalFirst
  <2>6. CASE s # {}
    <3>1. PICK c : c = First(s)
      OBVIOUS
    <3>2. c \in s /\ Total(f, s) = f[c] + Total(f, s \ {c})
      BY <1>1, <2>6, <3>1, TotalFirst
    <3>3. Total(f, s \ {c}) \in Nat /\ f[c] \in Nat
      BY <2>4, <3>2
    <3>4. ASSUME NEW x \in s PROVE Total(f, s) = f[x] + Total(f, s \ {x})
      <4>1. CASE x = c
        BY <3>2, <4>1
      <4>2. CASE x # c
        <5>1. Total(f, s \ {c}) = f[x] + Total(f, (s \ {c}) \ {x})
          BY <2>4, <3>2, <3>4, <4>2
        <5>2. Total(f, s \ {x}) = f[c] + Total(f, (s \ {x}) \ {c})
          BY <2>4, <3>2, <3>4, <4>2
        <5>3. (s \ {c}) \ {x} = (s \ {x}) \ {c}
          OBVIOUS
        <5>4. PICK r : r = Total(f, (s \ {c}) \ {x})
          OBVIOUS
        <5>5. r \in Nat
          <6>1. Right(s \ {x}) /\ x \in s \ {c} /\ c \in s \ {x}
            BY <2>4, <3>2, <3>4, <4>2
          <6>2. s \ {c, x} \in SUBSET S /\ (s \ {c}) \ {x} = s \ {c, x}
            OBVIOUS
          <6>3. Right(s \ {c, x})
            <7>1. SUFFICES ASSUME ~Right(s \ {c, x}) PROVE FALSE
              OBVIOUS
            <7>2. Cardinality(s \ {c, x}) \in B
              BY <6>2, <7>1
            <7>3. Cardinality(s) <= Cardinality(s \ {c, x})
              <8> HIDE DEF B, Right
              <8> QED BY <2>2, <2>3, <7>2
            <7>4. Cardinality(s) > Cardinality(s \ {c}) /\ Cardinality(s \ {c}) > Cardinality((s \ {c}) \ {x})
              BY <1>1, <3>2, <6>1, Smaller
            <7> QED BY <1>1, <6>2, <7>3, <7>4
          <6> QED BY <5>4, <6>2, <6>3
        <5>6. f[x] \in Nat
          BY <3>4
        <5>7. Total(f, s) = f[c] + (f[x] + r) /\ Total(f, s \ {x}) = f[c] + r
          BY <3>2, <5>1, <5>2, <5>3, <5>4
        <5> HIDE DEF Right
        <5> QED BY <3>3, <5>5, <5>6, <5>7
      <4> QED BY <4>1, <4>2
    <3>5. Total(f, s) \in Nat
      <4> HIDE DEF Right
      <4> QED BY <3>2, <3>3
    <3> QED BY <2>3, <3>4, <3>5
  <2> QED BY <2>5, <2>6
<1> QED BY <1>2

\* A sum is below another one that has for each of its summands one as large.
LEMMA TotalBelow ==
    ASSUME NEW S, IsFiniteSet(S), NEW T, IsFiniteSet(T), NEW f, NEW g, NEW h,
           \A x \in S : f[x] \in Nat /\ (f[x] = 0 \/ (h[x] \in T /\ f[x] <= g[h[x]])),
           \A x \in T : g[x] \in Nat,
           \A x, y \in S : h[x] = h[y] => x = y
    PROVE  Total(f, S) <= Total(g, T)
<1> DEFINE Under(s) == \A t \in SUBSET T : (\A x \in s : f[x] = 0 \/ h[x] \in t) => Total(f, s) <= Total(g, t)
           B == {Cardinality(s) : s \in {t \in SUBSET S : ~Under(t)}}
<1>1. ASSUME NEW s \in SUBSET S PROVE IsFiniteSet(s) /\ Cardinality(s) \in Nat /\ \A x \in s : f[x] \in Nat
  BY FS_Subset, FS_CardinalityType
<1>2. ASSUME NEW t \in SUBSET T PROVE IsFiniteSet(t) /\ \A x \in t : g[x] \in Nat
  BY FS_Subset
<1>3. B = {}
  <2>1. SUFFICES ASSUME B # {} PROVE FALSE
    OBVIOUS
  <2>2. PICK n \in B : \A m \in B : n <= m
    <3>1. B \subseteq Nat
      BY <1>1
    <3> HIDE DEF B
    <3> QED BY <2>1, <3>1, LeastNumber
  <2>3. PICK s \in SUBSET S : ~Under(s) /\ n = Cardinality(s)
    OBVIOUS
  <2>4. PICK t \in SUBSET T : (\A x \in s : f[x] = 0 \/ h[x] \in t) /\ ~(Total(f, s) <= Total(g, t))
    BY <2>3
  <2>5. Total(g, t) \in Nat /\ \A x \in t : Total(g, t) = g[x] + Total(g, t \ {x})
    BY <1>2, TotalRemove
  <2>6. s # {}
    <3>1. s = {} => Total(f, s) = 0
      BY <1>1, TotalFirst
    <3> HIDE DEF B, Under
    <3> QED BY <2>4, <2>5, <3>1
  <2>7. PICK x \in s : TRUE
    BY <2>6
  <2>8. Total(f, s) = f[x] + Total(f, s \ {x})
    BY <1>1, TotalRemove
  <2>9. Under(s \ {x})
    <3>1. SUFFICES ASSUME ~Under(s \ {x}) PROVE FALSE
      OBVIOUS
    <3>2. Cardinality(s \ {x}) \in B
      BY <3>1
    <3>3. Cardinality(s) <= Cardinality(s \ {x})
      <4> HIDE DEF B, Under
      <4> QED BY <2>2, <2>3, <3>2
    <3> QED BY <1>1, <3>3, Smaller
  <2>10. Total(f, s \ {x}) \in Nat /\ f[x] \in Nat
    <3>1. s \ {x} \in SUBSET S
      OBVIOUS
    <3> QED BY <1>1, <3>1, TotalRemove
  <2>11. CASE f[x] = 0
    <3>1. Total(f, s \ {x}) <= Total(g, t)
      BY <2>4, <2>9
    <3> HIDE DEF B, Under
    <3> QED BY <2>4, <2>8, <2>10, <2>11, <3>1
  <2>12. CASE f[x] # 0
    <3>1. h[x] \in t /\ f[x] <= g[h[x]] /\ g[h[x]] \in Nat
      BY <2>4, <2>12
    <3>2. t \ {h[x]} \in SUBSET T /\ \A y \in s \ {x} : f[y] = 0 \/ h[y] \in t \ {h[x]}
      BY <2>4
    <3>3. Total(f, s \ {x}) <= Total(g, t \ {h[x]}) /\ Total(g, t \ {h[x]}) \in Nat
      BY <1>2, <2>9, <3>2, TotalRemove
    <3>4. Total(g, t) = g[h[x]] + Total(g, t \ {h[x]})
      BY <2>5, <3>1
    <3> HIDE DEF B, Under
    <3> QED BY <2>4, <2>8, <2>10, <3>1, <3>3, <3>4
  <2> QED BY <2>11, <2>12
<1>4. Under(S)
  BY <1>3
<1> QED BY <1>4

-----------------------------------------------------------------------------
(***************************************************************************)
(* The invariant of the paid jobs.                                         *)
(***************************************************************************)
\* Which processes a job has, and what its row says while one of them lives.
LeaseInv(j) ==
    /\ jobs[j] = None => sub[j] = "none" /\ remote[j] = "unsent"
    /\ sub[j] # "over" => work[j] = Idle
    /\ jobs[j] # None => sub[j] # "none"
    /\ sub[j] \in {"store", "spawn"} => jobs[j].state = QUEUED
    /\ work[j].at = "start" => jobs[j].state = QUEUED
    /\ work[j].at \in {"connect", "send", "await"} => jobs[j].state = SUBMITTING
    /\ work[j].at \in {"stream", "publish", "linked"} => jobs[j].state = STREAMING
    /\ work[j].at = "finish" => jobs[j].state \in ACTIVE_STATES

\* What the row, and the outcome that is about to be its state, say of the wire.
WireInv(j) ==
    /\ jobs[j] # None /\ jobs[j].state \in {QUEUED, NOT_STARTED} => remote[j] = "unsent"
    /\ jobs[j] # None /\ jobs[j].state = REJECTED => remote[j] = "refused"
    /\ jobs[j] # None /\ jobs[j].state \in UNBILLED => ~jobs[j].billed
    /\ work[j].at \in {"connect", "send"} => remote[j] = "unsent"
    /\ work[j].at = "finish" =>
          /\ work[j].outcome = NOT_STARTED => remote[j] = "unsent"
          /\ work[j].outcome = REJECTED => remote[j] = "refused"

\* Where the answer is, before and after the terminal commit.
AnswerInv(j) ==
    /\ work[j].at # "finish" => ~work[j].path
    /\ work[j].at \in {"stream", "publish", "linked"} => "content" \in files[j]
    /\ work[j].at = "linked" => "export" \in files[j]
    /\ work[j].at \in {"publish", "linked"} => work[j].outcome = COMPLETED
    /\ work[j].at = "finish" /\ work[j].outcome = COMPLETED =>
          IF work[j].path THEN "export" \in files[j] ELSE "content" \in files[j]
    /\ jobs[j] # None /\ jobs[j].state = COMPLETED =>
          IF jobs[j].path THEN "export" \in files[j]
          ELSE files[j] \cap {"content", "export"} # {}

JobInv(j) == LeaseInv(j) /\ WireInv(j) /\ AnswerInv(j)

\* The ledger is filled from the front.
PrefixInv == \E n \in 0..max_jobs : Rows = 1..n

\* Of two rows for the same content one is proven unbilled.
PayInv ==
    \A j, k \in Rows :
        /\ j # k
        /\ jobs[j].room = jobs[k].room
        /\ jobs[j].payload = jobs[k].payload
        => jobs[j].state \in UNBILLED \/ jobs[k].state \in UNBILLED

\* The rows and the types for rooms in R and payloads in P: the delegates share
\* the ledger's code, and differ in what they are asked for.
RowOf(R, P) ==
    [room : R, payload : P, state : ACTIVE_STATES \cup TERMINAL_STATES, billed : BOOLEAN,
     reserved : Nat, retained : Nat, path : BOOLEAN]
Types(R, P) ==
    /\ jobs \in [Jobs -> RowOf(R, P) \cup {None}]
    /\ resolutions \subseteq Jobs
    /\ sub \in [Jobs -> {"none", "store", "spawn", "over"}]
    /\ work \in [Jobs -> [at : Steps, outcome : TERMINAL_STATES \cup {None}, path : BOOLEAN]]
    /\ \A j \in Jobs : work[j].at = "finish" => work[j].outcome # None
    /\ files \in [Jobs -> SUBSET Files]
    /\ cancel \in [Jobs -> BOOLEAN]
    /\ remote \in [Jobs -> {"unsent", "sent", "refused", "generated"}]
    /\ deaths \in 0..MaxDeaths

IInv(R, P) == Types(R, P) /\ PrefixInv /\ PayInv /\ \A j \in Jobs : JobInv(j)

\* The names of the states and their sets are abbreviations.
USE DEF NOT_STARTED, QUEUED, SUBMITTING, STREAMING, COMPLETED, TRUNCATED, REJECTED,
        FAILED_AFTER_SEND, ABANDONED_DEADLINE, ABANDONED_CANCELLED, UNKNOWN,
        ACTIVE_STATES, STOP_STATES, TERMINAL_STATES, UNBILLED

-----------------------------------------------------------------------------
\* None is no outcome, and no row of what the DeepSeek delegate is asked for.
LEMMA NoneIsApart == None \notin TERMINAL_STATES /\ None \notin RowOf(Rooms, Payloads)
  BY NoneAssumption DEF Row, RowOf

\* The files of a job can be counted.
LEMMA FilesFinite == IsFiniteSet(Files)
<1>1. IsFiniteSet({"text"})
  BY FS_Singleton
<1>2. IsFiniteSet({"text"} \cup {"content"})
  BY <1>1, FS_AddElement
<1>3. IsFiniteSet(({"text"} \cup {"content"}) \cup {"export"})
  BY <1>2, FS_AddElement
<1>4. Files = ({"text"} \cup {"content"}) \cup {"export"}
  BY DEF Files
<1> QED BY <1>3, <1>4

LEMMA FilesCounted ==
    ASSUME NEW f \in SUBSET Files, NEW S
    PROVE  Cardinality(f \cap S) \in Nat /\ Cardinality(f) \in Nat
<1>1. IsFiniteSet(f) /\ IsFiniteSet(f \cap S)
  BY FilesFinite, FS_Subset
<1> QED BY <1>1, FS_CardinalityType

\* A job somebody works on has an active row.
LEMMA LeasedIsActive ==
    ASSUME NEW R, NEW P, Types(R, P), NEW j \in Jobs, LeaseInv(j), leased(j)
    PROVE  jobs[j] \in RowOf(R, P) /\ jobs[j].state \in ACTIVE_STATES
<1>1. jobs[j] # None
  BY DEF LeaseInv, leased, Idle, Worker
<1>2. jobs[j] \in RowOf(R, P)
  BY <1>1 DEF Types
<1>3. work[j].at \in Steps
  BY DEF Types
<1> QED BY <1>2, <1>3 DEF LeaseInv, leased, Steps

\* A step takes no row away, keeps what it was asked for, and rewrites no terminal one.
RowsKept ==
    \A j \in Rows : /\ jobs'[j] # None /\ jobs'[j].payload = jobs[j].payload
                    /\ jobs[j].state \in TERMINAL_STATES => jobs'[j] = jobs[j]

\* What a step does that concerns one job only.
OnlyJob(j) ==
    /\ \A k \in Jobs \ {j} :
          /\ jobs'[k] = jobs[k] /\ sub'[k] = sub[k] /\ work'[k] = work[k]
          /\ files'[k] = files[k] /\ remote'[k] = remote[k]
    /\ jobs'[j] # None
    /\ jobs'[j].room = jobs[j].room /\ jobs'[j].payload = jobs[j].payload
    /\ jobs[j].state \in TERMINAL_STATES => jobs'[j] = jobs[j]

\* Such a step keeps the invariant if it keeps the types and that job's part.
LEMMA OneJob ==
    ASSUME NEW R, NEW P, None \notin RowOf(R, P), IInv(R, P), NEW j \in Jobs, jobs[j] # None, OnlyJob(j),
           Types(R, P)', JobInv(j)'
    PROVE  IInv(R, P)' /\ RowsKept
<1>1. \A k \in Jobs : JobInv(k)'
  BY DEF IInv, OnlyJob, JobInv, LeaseInv, WireInv, AnswerInv
<1>2. Rows' = Rows
  BY DEF Rows, OnlyJob
<1>3. PrefixInv'
  BY <1>2 DEF IInv, PrefixInv
<1>4. \A k \in Rows : /\ jobs'[k].room = jobs[k].room /\ jobs'[k].payload = jobs[k].payload
                      /\ jobs[k].state \in UNBILLED => jobs'[k].state \in UNBILLED
  BY DEF Rows, OnlyJob
<1>5. PayInv'
  BY <1>2, <1>4 DEF IInv, PayInv
<1>6. RowsKept
  BY DEF RowsKept, Rows, OnlyJob
<1> QED BY <1>1, <1>3, <1>5, <1>6 DEF IInv

\* The request's text is stored; the submission still has the lease.
LEMMA StoreRequestStep ==
    ASSUME NEW R, NEW P, None \notin RowOf(R, P), IInv(R, P), NEW j \in Jobs, StoreRequest(j)
    PROVE  IInv(R, P)' /\ RowsKept
<1>1. jobs[j] \in RowOf(R, P) /\ JobInv(j) /\ Types(R, P)
  BY NoneIsApart DEF IInv, JobInv, LeaseInv, Types, StoreRequest, Idle, Worker
<1>2. Types(R, P)'
  BY <1>1, NoneIsApart DEF Types, StoreRequest, RowOf, Steps, Files, Gone, Worker
<1>3. OnlyJob(j)
  BY <1>1, NoneIsApart DEF Types, OnlyJob, StoreRequest, JobInv, LeaseInv, RowOf
<1>4. JobInv(j)'
  BY <1>1, NoneIsApart DEF Types, StoreRequest, JobInv, LeaseInv, WireInv, AnswerInv, RowOf, Gone, Idle, Worker
<1> QED BY <1>1, <1>2, <1>3, <1>4, OneJob, NoneIsApart

\* The lease passes to the worker, the row stays queued.
LEMMA _spawn_workerStep ==
    ASSUME NEW R, NEW P, None \notin RowOf(R, P), IInv(R, P), NEW j \in Jobs, _spawn_worker(j)
    PROVE  IInv(R, P)' /\ RowsKept
<1>1. jobs[j] \in RowOf(R, P) /\ JobInv(j) /\ Types(R, P)
  BY NoneIsApart DEF IInv, JobInv, LeaseInv, Types, _spawn_worker, Idle, Worker
<1>2. Types(R, P)'
  BY <1>1, NoneIsApart DEF Types, _spawn_worker, RowOf, Steps, Files, Gone, Worker
<1>3. OnlyJob(j)
  BY <1>1, NoneIsApart DEF Types, OnlyJob, _spawn_worker, JobInv, LeaseInv, RowOf
<1>4. JobInv(j)'
  BY <1>1, NoneIsApart DEF Types, _spawn_worker, JobInv, LeaseInv, WireInv, AnswerInv, RowOf, Gone, Idle, Worker
<1> QED BY <1>1, <1>2, <1>3, <1>4, OneJob, NoneIsApart

\* The worker gives up before the send boundary.
LEMMA UnsentStep ==
    ASSUME NEW R, NEW P, None \notin RowOf(R, P), IInv(R, P), NEW j \in Jobs, Unsent(j)
    PROVE  IInv(R, P)' /\ RowsKept
<1>1. jobs[j] \in RowOf(R, P) /\ JobInv(j) /\ Types(R, P)
  BY NoneIsApart DEF IInv, JobInv, LeaseInv, Types, Unsent, Idle, Worker
<1>2. Types(R, P)'
  BY <1>1, NoneIsApart DEF Types, Unsent, Ends, RowOf, Steps, Files, Gone, Worker
<1>3. OnlyJob(j)
  BY <1>1, NoneIsApart DEF Types, OnlyJob, Unsent, Ends, JobInv, LeaseInv, RowOf
<1>4. JobInv(j)'
  BY <1>1, NoneIsApart DEF Types, Unsent, Ends, JobInv, LeaseInv, WireInv, AnswerInv, RowOf, Gone, Idle, Worker
<1> QED BY <1>1, <1>2, <1>3, <1>4, OneJob, NoneIsApart

\* The row is still queued, for the worker has the lease: it crosses the boundary.
LEMMA CommitSubmittingStep ==
    ASSUME NEW R, NEW P, None \notin RowOf(R, P), IInv(R, P), NEW j \in Jobs, CommitSubmitting(j)
    PROVE  IInv(R, P)' /\ RowsKept
<1>1. jobs[j] \in RowOf(R, P) /\ JobInv(j) /\ Types(R, P)
  BY NoneIsApart DEF IInv, JobInv, LeaseInv, Types, CommitSubmitting, Idle, Worker
<1>2. Types(R, P)'
  <2>1. /\ jobs' = [jobs EXCEPT ![j].state = SUBMITTING, ![j].billed = TRUE]
        /\ work' = [work EXCEPT ![j].at = "connect"]
    BY <1>1 DEF CommitSubmitting, JobInv, LeaseInv
  <2>2. [jobs[j] EXCEPT !.state = SUBMITTING, !.billed = TRUE] \in RowOf(R, P)
    BY <1>1 DEF RowOf
  <2>3. jobs' \in [Jobs -> RowOf(R, P) \cup {None}]
    BY <1>1, <2>1, <2>2 DEF Types
  <2>4. /\ work' \in [Jobs -> [at : Steps, outcome : TERMINAL_STATES \cup {None}, path : BOOLEAN]]
        /\ \A k \in Jobs : work'[k].at = "finish" => work'[k].outcome # None
    BY <1>1, <2>1 DEF Types, Steps
  <2> QED BY <1>1, <2>3, <2>4 DEF Types, CommitSubmitting
<1>3. OnlyJob(j)
  BY <1>1, NoneIsApart DEF Types, OnlyJob, CommitSubmitting, JobInv, LeaseInv, RowOf
<1>4. JobInv(j)'
  BY <1>1, NoneIsApart DEF Types, CommitSubmitting, JobInv, LeaseInv, WireInv, AnswerInv, RowOf, Gone, Idle, Worker
<1> QED BY <1>1, <1>2, <1>3, <1>4, OneJob, NoneIsApart

\* Nothing is sent while connecting.
LEMMA ConnectStep ==
    ASSUME NEW R, NEW P, None \notin RowOf(R, P), IInv(R, P), NEW j \in Jobs, Connect(j)
    PROVE  IInv(R, P)' /\ RowsKept
<1>1. jobs[j] \in RowOf(R, P) /\ JobInv(j) /\ Types(R, P)
  BY NoneIsApart DEF IInv, JobInv, LeaseInv, Types, Connect, Idle, Worker
<1>2. Types(R, P)'
  BY <1>1, NoneIsApart DEF Types, Connect, RowOf, Steps, Files, Gone, Worker
<1>3. OnlyJob(j)
  BY <1>1, NoneIsApart DEF Types, OnlyJob, Connect, JobInv, LeaseInv, RowOf
<1>4. JobInv(j)'
  BY <1>1, NoneIsApart DEF Types, Connect, JobInv, LeaseInv, WireInv, AnswerInv, RowOf, Gone, Idle, Worker
<1> QED BY <1>1, <1>2, <1>3, <1>4, OneJob, NoneIsApart

\* A failure to connect is proven unsent.
LEMMA ConnectFailsStep ==
    ASSUME NEW R, NEW P, None \notin RowOf(R, P), IInv(R, P), NEW j \in Jobs, ConnectFails(j)
    PROVE  IInv(R, P)' /\ RowsKept
<1>1. jobs[j] \in RowOf(R, P) /\ JobInv(j) /\ Types(R, P)
  BY NoneIsApart DEF IInv, JobInv, LeaseInv, Types, ConnectFails, Idle, Worker
<1>2. Types(R, P)'
  BY <1>1, NoneIsApart DEF Types, ConnectFails, Ends, RowOf, Steps, Files, Gone, Worker
<1>3. OnlyJob(j)
  BY <1>1, NoneIsApart DEF Types, OnlyJob, ConnectFails, Ends, JobInv, LeaseInv, RowOf
<1>4. JobInv(j)'
  BY <1>1, NoneIsApart DEF Types, ConnectFails, Ends, JobInv, LeaseInv, WireInv, AnswerInv, RowOf, Gone, Idle, Worker
<1> QED BY <1>1, <1>2, <1>3, <1>4, OneJob, NoneIsApart

\* The request leaves; the row has said submitting for long.
LEMMA SendStep ==
    ASSUME NEW R, NEW P, None \notin RowOf(R, P), IInv(R, P), NEW j \in Jobs, Send(j)
    PROVE  IInv(R, P)' /\ RowsKept
<1>1. jobs[j] \in RowOf(R, P) /\ JobInv(j) /\ Types(R, P)
  BY NoneIsApart DEF IInv, JobInv, LeaseInv, Types, Send, Idle, Worker
<1>2. Types(R, P)'
  BY <1>1, NoneIsApart DEF Types, Send, RowOf, Steps, Files, Gone, Worker
<1>3. OnlyJob(j)
  BY <1>1, NoneIsApart DEF Types, OnlyJob, Send, JobInv, LeaseInv, RowOf
<1>4. JobInv(j)'
  BY <1>1, NoneIsApart DEF Types, Send, JobInv, LeaseInv, WireInv, AnswerInv, RowOf, Gone, Idle, Worker
<1> QED BY <1>1, <1>2, <1>3, <1>4, OneJob, NoneIsApart

\* Nobody knows whether the request left.
LEMMA SendFailsStep ==
    ASSUME NEW R, NEW P, None \notin RowOf(R, P), IInv(R, P), NEW j \in Jobs, SendFails(j)
    PROVE  IInv(R, P)' /\ RowsKept
<1>1. jobs[j] \in RowOf(R, P) /\ JobInv(j) /\ Types(R, P)
  BY NoneIsApart DEF IInv, JobInv, LeaseInv, Types, SendFails, Idle, Worker
<1>2. Types(R, P)'
  BY <1>1, NoneIsApart DEF Types, SendFails, Ends, RowOf, Steps, Files, Gone, Worker
<1>3. OnlyJob(j)
  BY <1>1, NoneIsApart DEF Types, OnlyJob, SendFails, Ends, JobInv, LeaseInv, RowOf
<1>4. JobInv(j)'
  BY <1>1, NoneIsApart DEF Types, SendFails, Ends, JobInv, LeaseInv, WireInv, AnswerInv, RowOf, Gone, Idle, Worker
<1> QED BY <1>1, <1>2, <1>3, <1>4, OneJob, NoneIsApart

\* A rejection is only believed when the provider refused.
LEMMA NoStreamStep ==
    ASSUME NEW R, NEW P, None \notin RowOf(R, P), IInv(R, P), NEW j \in Jobs, NoStream(j)
    PROVE  IInv(R, P)' /\ RowsKept
<1>1. jobs[j] \in RowOf(R, P) /\ JobInv(j) /\ Types(R, P)
  BY NoneIsApart DEF IInv, JobInv, LeaseInv, Types, NoStream, Idle, Worker
<1>2. Types(R, P)'
  <2>1. PICK outcome \in TERMINAL_STATES : Ends(j, outcome)
    BY DEF NoStream
  <2> QED BY <1>1, <2>1, NoneIsApart DEF Types, NoStream, Ends, Steps, Worker
<1>3. OnlyJob(j)
  BY <1>1, NoneIsApart DEF Types, OnlyJob, NoStream, Ends, JobInv, LeaseInv, RowOf
<1>4. JobInv(j)'
  BY <1>1, NoneIsApart DEF Types, NoStream, Ends, JobInv, LeaseInv, WireInv, AnswerInv, RowOf, Gone, Idle, Worker
<1> QED BY <1>1, <1>2, <1>3, <1>4, OneJob, NoneIsApart

\* The answer's file exists from the first byte on.
LEMMA RespondStep ==
    ASSUME NEW R, NEW P, None \notin RowOf(R, P), IInv(R, P), NEW j \in Jobs, Respond(j)
    PROVE  IInv(R, P)' /\ RowsKept
<1>1. jobs[j] \in RowOf(R, P) /\ JobInv(j) /\ Types(R, P)
  BY NoneIsApart DEF IInv, JobInv, LeaseInv, Types, Respond, Idle, Worker
<1>2. Types(R, P)'
  <2>1. jobs' \in [Jobs -> RowOf(R, P) \cup {None}]
    BY <1>1, NoneIsApart DEF Types, Respond, RowOf
  <2>2. /\ work' \in [Jobs -> [at : Steps, outcome : TERMINAL_STATES \cup {None}, path : BOOLEAN]]
        /\ \A k \in Jobs : work'[k].at = "finish" => work'[k].outcome # None
    BY <1>1 DEF Types, Respond, Steps
  <2>3. files' \in [Jobs -> SUBSET Files]
    BY <1>1 DEF Types, Respond, Files
  <2> QED BY <1>1, <2>1, <2>2, <2>3 DEF Types, Respond
<1>3. OnlyJob(j)
  BY <1>1, NoneIsApart DEF Types, OnlyJob, Respond, JobInv, LeaseInv, RowOf
<1>4. JobInv(j)'
  BY <1>1, NoneIsApart DEF Types, Respond, JobInv, LeaseInv, WireInv, AnswerInv, RowOf, Gone, Idle, Worker
<1> QED BY <1>1, <1>2, <1>3, <1>4, OneJob, NoneIsApart

\* Every way a stream ends has an outcome.
LEMMA ConsumeStep ==
    ASSUME NEW R, NEW P, None \notin RowOf(R, P), IInv(R, P), NEW j \in Jobs, Consume(j)
    PROVE  IInv(R, P)' /\ RowsKept
<1>1. jobs[j] \in RowOf(R, P) /\ JobInv(j) /\ Types(R, P)
  BY NoneIsApart DEF IInv, JobInv, LeaseInv, Types, Consume, Idle, Worker
<1>2. Types(R, P)'
  <2>1. PICK at \in {"finish", "publish"}, outcome \in TERMINAL_STATES :
           work' = [work EXCEPT ![j] = Worker(at, outcome, FALSE)]
    BY DEF Consume, Ends
  <2> QED BY <1>1, <2>1, NoneIsApart DEF Types, Consume, Steps, Worker
<1>3. OnlyJob(j)
  BY <1>1, NoneIsApart DEF Types, OnlyJob, Consume, Ends, JobInv, LeaseInv, RowOf
<1>4. JobInv(j)'
  BY <1>1, NoneIsApart DEF Types, Consume, Ends, JobInv, LeaseInv, WireInv, AnswerInv, RowOf, Gone, Idle, Worker
<1> QED BY <1>1, <1>2, <1>3, <1>4, OneJob, NoneIsApart

\* The answer has two names.
LEMMA LinkStep ==
    ASSUME NEW R, NEW P, None \notin RowOf(R, P), IInv(R, P), NEW j \in Jobs, Link(j)
    PROVE  IInv(R, P)' /\ RowsKept
<1>1. jobs[j] \in RowOf(R, P) /\ JobInv(j) /\ Types(R, P)
  BY NoneIsApart DEF IInv, JobInv, LeaseInv, Types, Link, Idle, Worker
<1>2. Types(R, P)'
  BY <1>1, NoneIsApart DEF Types, Link, RowOf, Steps, Files, Gone, Worker
<1>3. OnlyJob(j)
  BY <1>1, NoneIsApart DEF Types, OnlyJob, Link, JobInv, LeaseInv, RowOf
<1>4. JobInv(j)'
  BY <1>1, NoneIsApart DEF Types, Link, JobInv, LeaseInv, WireInv, AnswerInv, RowOf, Gone, Idle, Worker
<1> QED BY <1>1, <1>2, <1>3, <1>4, OneJob, NoneIsApart

\* The private name stays.
LEMMA NoExportStep ==
    ASSUME NEW R, NEW P, None \notin RowOf(R, P), IInv(R, P), NEW j \in Jobs, NoExport(j)
    PROVE  IInv(R, P)' /\ RowsKept
<1>1. jobs[j] \in RowOf(R, P) /\ JobInv(j) /\ Types(R, P)
  BY NoneIsApart DEF IInv, JobInv, LeaseInv, Types, NoExport, Idle, Worker
<1>2. Types(R, P)'
  BY <1>1, NoneIsApart DEF Types, NoExport, Ends, RowOf, Steps, Files, Worker, JobInv, AnswerInv
<1>3. OnlyJob(j)
  BY <1>1, NoneIsApart DEF Types, OnlyJob, NoExport, Ends, JobInv, LeaseInv, RowOf
<1>4. JobInv(j)'
  BY <1>1, NoneIsApart DEF Types, NoExport, Ends, JobInv, LeaseInv, WireInv, AnswerInv, RowOf, Gone, Idle, Worker
<1> QED BY <1>1, <1>2, <1>3, <1>4, OneJob, NoneIsApart

\* The export stays when the private name goes.
LEMMA DurableStep ==
    ASSUME NEW R, NEW P, None \notin RowOf(R, P), IInv(R, P), NEW j \in Jobs, Durable(j)
    PROVE  IInv(R, P)' /\ RowsKept
<1>1. jobs[j] \in RowOf(R, P) /\ JobInv(j) /\ Types(R, P)
  BY NoneIsApart DEF IInv, JobInv, LeaseInv, Types, Durable, Idle, Worker
<1>2. Types(R, P)'
  BY <1>1, NoneIsApart DEF Types, Durable, RowOf, Steps, Files, Worker, JobInv, AnswerInv
<1>3. OnlyJob(j)
  BY <1>1, NoneIsApart DEF Types, OnlyJob, Durable, JobInv, LeaseInv, RowOf
<1>4. JobInv(j)'
  BY <1>1, NoneIsApart DEF Types, Durable, JobInv, LeaseInv, WireInv, AnswerInv, RowOf, Gone, Idle, Worker
<1> QED BY <1>1, <1>2, <1>3, <1>4, OneJob, NoneIsApart

\* The private name stays when the export goes.
LEMMA _rollback_exportStep ==
    ASSUME NEW R, NEW P, None \notin RowOf(R, P), IInv(R, P), NEW j \in Jobs, _rollback_export(j)
    PROVE  IInv(R, P)' /\ RowsKept
<1>1. jobs[j] \in RowOf(R, P) /\ JobInv(j) /\ Types(R, P)
  BY NoneIsApart DEF IInv, JobInv, LeaseInv, Types, _rollback_export, Idle, Worker
<1>2. Types(R, P)'
  BY <1>1, NoneIsApart DEF Types, _rollback_export, Ends, RowOf, Steps, Files, Worker, JobInv, AnswerInv
<1>3. OnlyJob(j)
  BY <1>1, NoneIsApart DEF Types, OnlyJob, _rollback_export, Ends, JobInv, LeaseInv, RowOf
<1>4. JobInv(j)'
  BY <1>1, NoneIsApart DEF Types, _rollback_export, Ends, JobInv, LeaseInv, WireInv, AnswerInv, RowOf, Gone, Idle, Worker
<1> QED BY <1>1, <1>2, <1>3, <1>4, OneJob, NoneIsApart

\* cancel.json is not part of the invariant.
LEMMA CancelStep ==
    ASSUME NEW R, NEW P, None \notin RowOf(R, P), IInv(R, P), NEW j \in Jobs, Cancel(j)
    PROVE  IInv(R, P)' /\ RowsKept
<1>1. jobs[j] \in RowOf(R, P) /\ JobInv(j) /\ Types(R, P)
  BY NoneIsApart DEF IInv, JobInv, LeaseInv, Types, Cancel, active, Rows, Idle, Worker
<1>2. Types(R, P)'
  BY <1>1, NoneIsApart DEF Types, Cancel, active, Rows, RowOf, Steps, Files, Gone, Worker
<1>3. OnlyJob(j)
  BY <1>1, NoneIsApart DEF Types, OnlyJob, Cancel, active, Rows, JobInv, LeaseInv, RowOf
<1>4. JobInv(j)'
  BY <1>1, NoneIsApart DEF Types, Cancel, active, Rows, JobInv, LeaseInv, WireInv, AnswerInv, RowOf, Gone, Idle, Worker
<1> QED BY <1>1, <1>2, <1>3, <1>4, OneJob, NoneIsApart

\* A resolution changes no row.
LEMMA resolve_jobStep ==
    ASSUME NEW R, NEW P, None \notin RowOf(R, P), IInv(R, P), NEW j \in Jobs, resolve_job(j)
    PROVE  IInv(R, P)' /\ RowsKept
<1>1. jobs[j] \in RowOf(R, P) /\ JobInv(j) /\ Types(R, P)
  BY NoneIsApart DEF IInv, JobInv, LeaseInv, Types, resolve_job, Rows, Idle, Worker
<1>2. Types(R, P)'
  BY <1>1, NoneIsApart DEF Types, resolve_job, Rows, RowOf, Steps, Files, Gone, Worker
<1>3. OnlyJob(j)
  BY <1>1, NoneIsApart DEF Types, OnlyJob, resolve_job, Rows, JobInv, LeaseInv, RowOf
<1>4. JobInv(j)'
  BY <1>1, NoneIsApart DEF Types, resolve_job, Rows, JobInv, LeaseInv, WireInv, AnswerInv, RowOf, Gone, Idle, Worker
<1> QED BY <1>1, <1>2, <1>3, <1>4, OneJob, NoneIsApart

\* The provider moves only while a worker awaits it, after the boundary.
LEMMA ProvideStep ==
    ASSUME NEW R, NEW P, None \notin RowOf(R, P), IInv(R, P), NEW j \in Jobs, Provide(j)
    PROVE  IInv(R, P)' /\ RowsKept
<1>1. jobs[j] \in RowOf(R, P) /\ JobInv(j) /\ Types(R, P)
  BY NoneIsApart DEF IInv, JobInv, LeaseInv, Types, Provide, Idle, Worker
<1>2. Types(R, P)'
  BY <1>1, NoneIsApart DEF Types, Provide, RowOf, Steps, Files, Gone, Worker
<1>3. OnlyJob(j)
  BY <1>1, NoneIsApart DEF Types, OnlyJob, Provide, JobInv, LeaseInv, RowOf
<1>4. JobInv(j)'
  BY <1>1, NoneIsApart DEF Types, Provide, JobInv, LeaseInv, WireInv, AnswerInv, RowOf, Gone, Idle, Worker
<1> QED BY <1>1, <1>2, <1>3, <1>4, OneJob, NoneIsApart

\* A submission that dies leaves a queued row and no lease.
LEMMA SubmissionDiesStep ==
    ASSUME NEW R, NEW P, None \notin RowOf(R, P), IInv(R, P), NEW j \in Jobs, SubmissionDies(j)
    PROVE  IInv(R, P)' /\ RowsKept
<1>1. jobs[j] \in RowOf(R, P) /\ JobInv(j) /\ Types(R, P)
  BY NoneIsApart DEF IInv, JobInv, LeaseInv, Types, SubmissionDies, Idle, Worker
<1>2. Types(R, P)'
  BY <1>1, NoneIsApart, LimitsAssumption DEF Types, SubmissionDies, RowOf, Steps, Files, Gone, Worker
<1>3. OnlyJob(j)
  BY <1>1, NoneIsApart DEF Types, OnlyJob, SubmissionDies, JobInv, LeaseInv, RowOf
<1>4. JobInv(j)'
  BY <1>1, NoneIsApart DEF Types, SubmissionDies, JobInv, LeaseInv, WireInv, AnswerInv, RowOf, Gone, Idle, Worker
<1> QED BY <1>1, <1>2, <1>3, <1>4, OneJob, NoneIsApart

\* A worker that dies leaves an active row and no lease.
LEMMA WorkerDiesStep ==
    ASSUME NEW R, NEW P, None \notin RowOf(R, P), IInv(R, P), NEW j \in Jobs, WorkerDies(j)
    PROVE  IInv(R, P)' /\ RowsKept
<1>1. jobs[j] \in RowOf(R, P) /\ JobInv(j) /\ Types(R, P)
  BY NoneIsApart DEF IInv, JobInv, LeaseInv, Types, WorkerDies, Idle, Worker
<1>2. Types(R, P)'
  BY <1>1, NoneIsApart, LimitsAssumption DEF Types, WorkerDies, RowOf, Steps, Files, Gone, Worker
<1>3. OnlyJob(j)
  BY <1>1, NoneIsApart DEF Types, OnlyJob, WorkerDies, JobInv, LeaseInv, RowOf
<1>4. JobInv(j)'
  BY <1>1, NoneIsApart DEF Types, WorkerDies, JobInv, LeaseInv, WireInv, AnswerInv, RowOf, Gone, Idle, Worker
<1> QED BY <1>1, <1>2, <1>3, <1>4, OneJob, NoneIsApart

\* The submission fails: a queued row is closed with what is left on disk.
LEMMA SubmitFailsStep ==
    ASSUME NEW R, NEW P, None \notin RowOf(R, P), IInv(R, P), NEW j \in Jobs, SubmitFails(j)
    PROVE  IInv(R, P)' /\ RowsKept
<1>1. jobs[j] \in RowOf(R, P) /\ JobInv(j) /\ Types(R, P) /\ jobs[j].state = QUEUED
  BY NoneIsApart DEF IInv, JobInv, LeaseInv, Types, SubmitFails, Idle, Worker
<1>2. /\ files' \in [Jobs -> SUBSET Files]
      /\ \A k \in Jobs \ {j} : files'[k] = files[k]
  <2>1. PICK left \in SUBSET {"text"} : files' = [files EXCEPT ![j] = @ \cup left]
    BY DEF SubmitFails
  <2>2. files \in [Jobs -> SUBSET Files]
    BY <1>1 DEF Types
  <2>3. files[j] \cup left \in SUBSET Files
    BY <2>2 DEF Files
  <2> QED BY <2>1, <2>2, <2>3
<1> DEFINE r == Closed(jobs[j], NOT_STARTED, Cardinality(files'[j]), FALSE)
<1>3. jobs' = [jobs EXCEPT ![j] = r]
  BY <1>1 DEF SubmitFails
<1>4. /\ sub' = [sub EXCEPT ![j] = "over"]
      /\ UNCHANGED <<resolutions, work, cancel, remote, deaths>>
      /\ work[j] = Idle
  BY <1>1 DEF SubmitFails, JobInv, LeaseInv
<1>5. r \in RowOf(R, P) /\ r.state = NOT_STARTED /\ ~r.billed
      /\ r.room = jobs[j].room /\ r.payload = jobs[j].payload
  <2>1. Cardinality(files'[j]) \in Nat
    BY <1>2, FilesCounted
  <2> QED BY <1>1, <2>1 DEF Closed, RowOf
<1> HIDE DEF r
<1>6. Types(R, P)'
  BY <1>1, <1>2, <1>3, <1>5, <1>4 DEF Types
<1>7. OnlyJob(j)
  BY <1>1, <1>2, <1>3, <1>5, <1>4, NoneIsApart DEF Types, OnlyJob
<1>8. JobInv(j)'
  BY <1>1, <1>3, <1>5, <1>4, NoneIsApart
     DEF Types, JobInv, LeaseInv, WireInv, AnswerInv, Idle, Worker
<1> QED BY <1>1, <1>6, <1>7, <1>8, OneJob, NoneIsApart

\* The terminal commit: the row takes the outcome the worker brings.
LEMMA _finishStep ==
    ASSUME NEW R, NEW P, None \notin RowOf(R, P), IInv(R, P), NEW j \in Jobs, _finish(j)
    PROVE  IInv(R, P)' /\ RowsKept
<1>1. jobs[j] \in RowOf(R, P) /\ JobInv(j) /\ Types(R, P) /\ jobs[j].state \in ACTIVE_STATES
  BY NoneIsApart DEF IInv, JobInv, LeaseInv, Types, _finish, Idle, Worker
<1>2. work[j].at = "finish" /\ work[j].outcome \in TERMINAL_STATES /\ work[j].path \in BOOLEAN
  BY <1>1 DEF Types, _finish
<1> DEFINE bytes == _retained(j) + IF work[j].path THEN _export_bytes(j) ELSE 0
           r == Closed(jobs[j], work[j].outcome, bytes, work[j].path)
<1>3. jobs' = [jobs EXCEPT ![j] = r]
  BY <1>1 DEF _finish
<1>4. r \in RowOf(R, P) /\ r.state = work[j].outcome /\ r.path = work[j].path
      /\ (r.state \in UNBILLED => ~r.billed)
      /\ r.room = jobs[j].room /\ r.payload = jobs[j].payload
  <2>1. files[j] \in SUBSET Files
    BY <1>1 DEF Types
  <2>2. _retained(j) \in Nat /\ _export_bytes(j) \in Nat
    BY <2>1, FilesCounted DEF _retained, _export_bytes
  <2>3. bytes \in Nat
    BY <2>2
  <2> HIDE DEF bytes
  <2> QED BY <1>1, <1>2, <2>3 DEF Closed, RowOf
<1> HIDE DEF r
<1>5. Types(R, P)'
  BY <1>1, <1>3, <1>4 DEF Types, _finish, Gone, Worker, Steps
<1>6. OnlyJob(j)
  BY <1>1, <1>3, <1>4, NoneIsApart DEF Types, OnlyJob, _finish
<1>7. JobInv(j)'
  BY <1>1, <1>2, <1>3, <1>4, NoneIsApart
     DEF Types, _finish, JobInv, LeaseInv, WireInv, AnswerInv, Gone, Worker, Idle
<1> QED BY <1>1, <1>5, <1>6, <1>7, OneJob, NoneIsApart

\* Relabelling as a function of the ledger: it closes rows nobody works on.
LEMMA RelabelledLedger ==
    ASSUME NEW R, NEW P, None \notin RowOf(R, P), IInv(R, P), NEW S \in SUBSET Vanished
    PROVE  /\ Relabelled(S) \in [Jobs -> RowOf(R, P) \cup {None}]
           /\ \A k \in Jobs \ S : Relabelled(S)[k] = jobs[k]
           /\ \A k \in S : /\ k \in Rows /\ jobs[k].state \in ACTIVE_STATES /\ ~leased(k)
                           /\ Relabelled(S)[k] \in RowOf(R, P)
                           /\ Relabelled(S)[k].state = Label(k)
                           /\ Label(k) \in UNBILLED => ~Relabelled(S)[k].billed
                           /\ Relabelled(S)[k].room = jobs[k].room
                           /\ Relabelled(S)[k].payload = jobs[k].payload
<1>1. Types(R, P)
  BY DEF IInv
<1>2. ASSUME NEW k \in S
      PROVE  /\ k \in Rows /\ jobs[k].state \in ACTIVE_STATES /\ ~leased(k)
             /\ Closed(jobs[k], Label(k), Evidence(k), FALSE) \in RowOf(R, P)
             /\ Closed(jobs[k], Label(k), Evidence(k), FALSE).state = Label(k)
             /\ Label(k) \in UNBILLED => ~Closed(jobs[k], Label(k), Evidence(k), FALSE).billed
             /\ Closed(jobs[k], Label(k), Evidence(k), FALSE).room = jobs[k].room
             /\ Closed(jobs[k], Label(k), Evidence(k), FALSE).payload = jobs[k].payload
  <2>1. k \in Rows /\ jobs[k].state \in ACTIVE_STATES /\ ~leased(k)
    BY DEF Vanished, active
  <2>2. k \in Jobs /\ jobs[k] \in RowOf(R, P) /\ files[k] \in SUBSET Files
    BY <1>1, <2>1 DEF Types, Rows
  <2>3. Evidence(k) \in Nat
    <3>1. _retained(k) \in Nat /\ _export_bytes(k) \in Nat
      BY <2>2, FilesCounted DEF _retained, _export_bytes
    <3> QED BY <3>1 DEF Evidence
  <2>4. Label(k) \in TERMINAL_STATES
    BY DEF Label
  <2> QED BY <2>1, <2>2, <2>3, <2>4 DEF Closed, RowOf
<1>3. S \subseteq Jobs
  BY DEF Vanished, active, Rows
<1> QED BY <1>1, <1>2, <1>3 DEF Types, Relabelled

\* A relabelled ledger has the rows it had, and what is proven unbilled stays so.
LEMMA RelabelledRows ==
    ASSUME NEW R, NEW P, None \notin RowOf(R, P), IInv(R, P), NEW S \in SUBSET Vanished
    PROVE  /\ {k \in Jobs : Relabelled(S)[k] # None} = Rows
           /\ \A k \in Rows : /\ Relabelled(S)[k].room = jobs[k].room
                              /\ Relabelled(S)[k].payload = jobs[k].payload
                              /\ jobs[k].state \in TERMINAL_STATES => Relabelled(S)[k] = jobs[k]
<1>1. \A k \in S : k \in Rows /\ Relabelled(S)[k] # None
  BY RelabelledLedger, NoneIsApart
<1> QED BY <1>1, RelabelledLedger DEF Rows

\* The part of each job holds with the relabelled ledger in place of the old.
LEMMA RelabelledJob ==
    ASSUME NEW R, NEW P, None \notin RowOf(R, P), IInv(R, P), NEW S \in SUBSET Vanished, NEW k \in Jobs,
           jobs'[k] = Relabelled(S)[k], sub'[k] = sub[k], work'[k] = work[k],
           files'[k] = files[k], remote'[k] = remote[k]
    PROVE  JobInv(k)'
<1>1. JobInv(k) /\ Types(R, P)
  BY DEF IInv
<1>2. CASE k \notin S
  <2>1. jobs'[k] = jobs[k]
    BY <1>2, RelabelledLedger
  <2> QED BY <1>1, <2>1 DEF JobInv, LeaseInv, WireInv, AnswerInv
<1>3. CASE k \in S
  <2>1. /\ k \in Rows /\ jobs[k].state \in ACTIVE_STATES /\ ~leased(k)
        /\ jobs'[k] \in RowOf(R, P) /\ jobs'[k].state = Label(k)
        /\ Label(k) \in UNBILLED => ~jobs'[k].billed
    BY <1>3, RelabelledLedger
  <2>2. sub[k] = "over" /\ work[k].at \in {"none", "gone"}
    BY <1>1, <2>1 DEF leased, Types, JobInv, LeaseInv, Rows
  <2>3. Label(k) = NOT_STARTED => remote[k] = "unsent"
    BY <1>1, <2>1 DEF Label, JobInv, WireInv, Rows
  <2>4. Label(k) \in {NOT_STARTED, UNKNOWN}
    BY DEF Label
  <2>5. jobs'[k] # None
    BY <2>1, NoneIsApart
  <2> HIDE DEF Label
  <2> QED BY <1>1, <2>1, <2>2, <2>3, <2>4, <2>5 DEF JobInv, LeaseInv, WireInv, AnswerInv
<1> QED BY <1>2, <1>3

\* A status call relabels jobs whose lease is free.
LEMMA RefreshStep ==
    ASSUME NEW R, NEW P, None \notin RowOf(R, P), IInv(R, P), Refresh
    PROVE  IInv(R, P)' /\ RowsKept
<1>1. PICK S \in SUBSET Vanished : jobs' = Relabelled(S)
  BY DEF Refresh
<1>2. UNCHANGED <<resolutions, sub, work, files, cancel, remote, deaths>>
  BY DEF Refresh
<1>3. Types(R, P)'
  BY <1>1, <1>2, RelabelledLedger DEF IInv, Types
<1>4. \A k \in Jobs : JobInv(k)'
  BY <1>1, <1>2, RelabelledJob
<1>5. Rows' = Rows
  BY <1>1, RelabelledRows DEF Rows
<1>6. PrefixInv'
  BY <1>5 DEF IInv, PrefixInv
<1>7. PayInv'
  BY <1>1, <1>5, RelabelledRows DEF IInv, PayInv
<1>8. RowsKept
  BY <1>1, <1>5, RelabelledRows DEF RowsKept, Rows
<1> QED BY <1>3, <1>4, <1>6, <1>7, <1>8 DEF IInv

\* What the admissions of both delegates have in common: a free row, and nothing
\* with the same content in the room that may have been billed.
Admits(room, payload, S) ==
    LET led == Relabelled(S)
        j == Count(led) + 1
    IN  /\ Count(led) < max_jobs
        /\ \A k \in In(led, room) : led[k].payload = payload => led[k].state \in UNBILLED
        /\ jobs' = [led EXCEPT ![j] = Queued(room, payload)]
        /\ sub' = [sub EXCEPT ![j] = "store"]
        /\ UNCHANGED <<resolutions, work, files, cancel, remote, deaths>>

\* An admission takes the first free row.
LEMMA FreeRow ==
    ASSUME NEW R, NEW P, None \notin RowOf(R, P), IInv(R, P), NEW room \in R, NEW payload \in P,
           NEW S \in SUBSET Vanished, Admits(room, payload, S)
    PROVE  \E n \in 0..max_jobs : Rows = 1..n /\ Count(Relabelled(S)) = n /\ n < max_jobs
<1>1. PICK n \in 0..max_jobs : Rows = 1..n
  BY DEF IInv, PrefixInv
<1>2. Count(Relabelled(S)) = n
  <2>1. Count(Relabelled(S)) = Cardinality(1..n)
    BY <1>1, RelabelledRows DEF Count
  <2> QED BY <1>1, <2>1, LimitsAssumption, FS_Interval
<1> QED BY <1>1, <1>2 DEF Admits

\* It keeps the invariant.
LEMMA SubmitStep ==
    ASSUME NEW R, NEW P, None \notin RowOf(R, P), IInv(R, P), NEW room \in R, NEW payload \in P,
           NEW S \in SUBSET Vanished, Admits(room, payload, S)
    PROVE  IInv(R, P)' /\ RowsKept
<1>2. PICK n \in 0..max_jobs : Rows = 1..n /\ Count(Relabelled(S)) = n /\ n < max_jobs
  BY FreeRow
<1> DEFINE led == Relabelled(S)
           j == n + 1
<1>3. max_jobs \in Nat
  BY LimitsAssumption
<1>4. Count(led) = n
  BY <1>2
<1>5. n < max_jobs
  BY <1>2
<1>6. j = Count(led) + 1 /\ j \in Jobs /\ j \notin Rows /\ jobs[j] = None
  BY <1>2, <1>3, <1>4, <1>5 DEF Jobs, Rows
<1>7. /\ led \in [Jobs -> RowOf(R, P) \cup {None}]
      /\ {k \in Jobs : led[k] # None} = Rows
      /\ \A k \in Rows : /\ led[k].room = jobs[k].room /\ led[k].payload = jobs[k].payload
                         /\ jobs[k].state \in TERMINAL_STATES => led[k] = jobs[k]
  BY RelabelledLedger, RelabelledRows
<1>8. /\ jobs' = [led EXCEPT ![j] = Queued(room, payload)]
      /\ sub' = [sub EXCEPT ![j] = "store"]
      /\ UNCHANGED <<resolutions, work, files, cancel, remote, deaths>>
  BY <1>6 DEF Admits
<1>9. \A k \in Jobs : k # j => JobInv(k)'
  <2> SUFFICES ASSUME NEW k \in Jobs, k # j PROVE JobInv(k)'
    OBVIOUS
  <2>1. jobs'[k] = Relabelled(S)[k]
    BY <1>6, <1>7, <1>8
  <2>2. sub'[k] = sub[k]
    BY <1>8 DEF IInv, Types
  <2> QED BY <1>8, <2>1, <2>2, RelabelledJob
<1> HIDE DEF led, j
<1>10. LET q == Queued(room, payload)
       IN  q \in RowOf(R, P) /\ q.room = room /\ q.payload = payload /\ q.state = QUEUED
  BY DEF Queued, RowOf, reservation_bytes
<1>11. Types(R, P)'
  BY <1>6, <1>7, <1>8, <1>10 DEF IInv, Types
<1>12. JobInv(j)'
  <2>1. jobs'[j] = Queued(room, payload) /\ sub'[j] = "store"
    BY <1>6, <1>7, <1>8 DEF IInv, Types
  <2>2. work[j] = Idle /\ remote[j] = "unsent"
    BY <1>6 DEF IInv, JobInv, LeaseInv
  <2> QED BY <1>8, <1>10, <2>1, <2>2, NoneIsApart
          DEF JobInv, LeaseInv, WireInv, AnswerInv, Idle, Worker
<1>13. Rows' = Rows \cup {j}
  BY <1>6, <1>7, <1>8, <1>10, NoneIsApart DEF Rows
<1>14. PrefixInv'
  <2>1. Rows' = 1..(n + 1) /\ n + 1 \in 0..max_jobs
    BY <1>2, <1>3, <1>5, <1>6, <1>13 DEF j
  <2> QED BY <2>1 DEF PrefixInv
<1>15. \A k \in Rows : jobs'[k] = led[k]
  BY <1>6, <1>7, <1>8 DEF Rows
<1>16. \A k \in Rows : led[k].room = room /\ led[k].payload = payload => led[k].state \in UNBILLED
  BY <1>7 DEF Admits, In, Rows, led
<1>17. jobs'[j].room = room /\ jobs'[j].payload = payload
  BY <1>6, <1>7, <1>8, <1>10
<1>18. PayInv'
  <2> SUFFICES ASSUME NEW k \in Rows', NEW l \in Rows', k # l,
                      jobs'[k].room = jobs'[l].room, jobs'[k].payload = jobs'[l].payload
               PROVE  jobs'[k].state \in UNBILLED \/ jobs'[l].state \in UNBILLED
    BY DEF PayInv
  <2>1. CASE k = j
    BY <2>1, <1>13, <1>15, <1>16, <1>17
  <2>2. CASE l = j
    BY <2>2, <1>13, <1>15, <1>16, <1>17
  <2>3. CASE k \in Rows /\ l \in Rows
    BY <2>3, <1>7, <1>15 DEF IInv, PayInv
  <2> QED BY <2>1, <2>2, <2>3, <1>13
<1>19. RowsKept
  BY <1>7, <1>13, <1>15 DEF RowsKept, Rows
<1> QED BY <1>9, <1>11, <1>12, <1>14, <1>18, <1>19 DEF IInv

-----------------------------------------------------------------------------
\* The empty ledger.
LEMMA StartsRight ==
    ASSUME NEW R, NEW P, Init
    PROVE  IInv(R, P)
<1>1. Types(R, P)
  BY LimitsAssumption DEF Init, Types, Idle, Worker, Steps
<1>2. Rows = {}
  BY DEF Init, Rows
<1>3. PrefixInv
  <2>1. 1..0 = {} /\ 0 \in 0..max_jobs
    BY LimitsAssumption
  <2> QED BY <1>2, <2>1 DEF PrefixInv
<1>4. PayInv
  BY <1>2 DEF PayInv
<1>5. \A j \in Jobs : JobInv(j)
  BY DEF Init, JobInv, LeaseInv, WireInv, AnswerInv, Idle, Worker
<1> QED BY <1>1, <1>3, <1>4, <1>5 DEF IInv

\* The steps the delegates have in common, of every process, keep the invariant and the
\* terminal rows.
JobStep ==
    \/ Refresh \/ UNCHANGED vars
    \/ \E j \in Jobs :
         \/ Submission(j) \/ run_worker(j)
         \/ Cancel(j) \/ resolve_job(j) \/ Provide(j) \/ SubmissionDies(j) \/ WorkerDies(j)

\* None of them breaks the invariant.
LEMMA StepKeepsInvariant ==
    ASSUME NEW R, NEW P, None \notin RowOf(R, P), IInv(R, P), JobStep
    PROVE  IInv(R, P)' /\ RowsKept
<1>1. CASE UNCHANGED vars
  BY <1>1 DEF vars, RowsKept, IInv, Types, PrefixInv, PayInv, Rows, JobInv, LeaseInv, WireInv, AnswerInv
<1>2. CASE Refresh
  BY <1>2, RefreshStep
<1>3. ASSUME NEW j \in Jobs, Submission(j)
      PROVE  IInv(R, P)' /\ RowsKept
  BY <1>3, StoreRequestStep, _spawn_workerStep, SubmitFailsStep DEF Submission
<1>4. ASSUME NEW j \in Jobs, run_worker(j)
      PROVE  IInv(R, P)' /\ RowsKept
  BY <1>4, UnsentStep, CommitSubmittingStep, ConnectStep, ConnectFailsStep, SendStep,
     SendFailsStep, NoStreamStep, RespondStep, ConsumeStep, LinkStep, NoExportStep,
     DurableStep, _rollback_exportStep, _finishStep DEF run_worker
<1>5. ASSUME NEW j \in Jobs,
             Cancel(j) \/ resolve_job(j) \/ Provide(j) \/ SubmissionDies(j) \/ WorkerDies(j)
      PROVE  IInv(R, P)' /\ RowsKept
  BY <1>5, CancelStep, resolve_jobStep, ProvideStep, SubmissionDiesStep, WorkerDiesStep
<1> QED BY <1>1, <1>2, <1>3, <1>4, <1>5 DEF JobStep

\* A step of the DeepSeek delegate is one of them or an admission.
LEMMA DeepseekSteps ==
    ASSUME [Next]_vars
    PROVE  \/ JobStep
           \/ \E room \in Rooms, payload \in Payloads, S \in SUBSET Vanished :
                  /\ Admits(room, payload, S)
                  /\ Charged(Relabelled(S)) + reservation_bytes <= max_retained_bytes
<1>1. ASSUME NEW room \in Rooms, NEW payload \in Payloads, NEW diagnosis \in BOOLEAN,
             Submit(room, payload, diagnosis)
      PROVE  \E S \in SUBSET Vanished :
                 /\ Admits(room, payload, S)
                 /\ Charged(Relabelled(S)) + reservation_bytes <= max_retained_bytes
  <2>1. PICK S \in SUBSET Vanished :
           LET led == Relabelled(S)
               j == Count(led) + 1
           IN  /\ Admitted(led, room, payload, diagnosis)
               /\ jobs' = [led EXCEPT ![j] = Queued(room, payload)]
               /\ sub' = [sub EXCEPT ![j] = "store"]
               /\ UNCHANGED <<resolutions, work, files, cancel, remote, deaths>>
    BY <1>1 DEF Submit
  <2>2. \A k \in In(Relabelled(S), room) :
            Relabelled(S)[k].payload = payload => Relabelled(S)[k].state \in UNBILLED
    BY <2>1 DEF Admitted, Repeatable
  <2> QED BY <2>1, <2>2 DEF Admits, Admitted
<1> QED BY <1>1 DEF Next, JobStep

\* So it keeps the invariant.
LEMMA DeepseekKeeps == IInv(Rooms, Payloads) /\ [Next]_vars => IInv(Rooms, Payloads)' /\ RowsKept
<1> SUFFICES ASSUME IInv(Rooms, Payloads), [Next]_vars PROVE IInv(Rooms, Payloads)' /\ RowsKept
  OBVIOUS
<1>1. CASE JobStep
  BY <1>1, NoneIsApart, StepKeepsInvariant
<1> QED BY <1>1, NoneIsApart, DeepseekSteps, SubmitStep

\* What the invariant says of the bill, of identical content and of the answers.
LEMMA InvariantSays ==
    ASSUME NEW R, NEW P, IInv(R, P)
    PROVE  BillingTruthful /\ PaidOnce /\ AnswerServed
<1>1. BillingTruthful
  BY DEF IInv, JobInv, WireInv, BillingTruthful, Rows
<1>2. PaidOnce
  BY DEF IInv, JobInv, WireInv, PayInv, PaidOnce, Rows
<1>3. AnswerServed
  BY DEF IInv, JobInv, AnswerInv, AnswerServed, Rows
<1> QED BY <1>1, <1>2, <1>3

\* The inductive invariant of the paid jobs (submit, run_worker, _refresh).
THEOREM JobsInvariant == Spec => []IInv(Rooms, Payloads)
<1>1. Init => IInv(Rooms, Payloads)
  BY StartsRight
<1> QED BY <1>1, DeepseekKeeps, PTL DEF Spec

\* Every variable keeps its shape, and a worker that is about to record an
\* outcome has one (run_worker, _finish).
THEOREM TypeCorrect == Spec => []TypeOK
<1>1. IInv(Rooms, Payloads) => TypeOK
  BY DEF IInv, Types, TypeOK, RowOf, Row
<1> QED BY <1>1, JobsInvariant, PTL

\* A job that is recorded as unbilled was not sent, or was refused, and never
\* will be billed: the labels of _refresh, submit and _finish are truthful.
THEOREM UnbilledIsUnbilled == Spec => []BillingTruthful
<1>1. IInv(Rooms, Payloads) => BillingTruthful
  BY InvariantSays
<1> QED BY <1>1, JobsInvariant, PTL

\* Identical content of a room is with the provider at most once, over all
\* request ids, deaths and resolutions (submit).
THEOREM NeverPaidTwice == Spec => []PaidOnce
<1>1. IInv(Rooms, Payloads) => PaidOnce
  BY InvariantSays
<1> QED BY <1>1, JobsInvariant, PTL

\* A completed answer is at the place its row names (_publish, _finish).
THEOREM AnswersStay == Spec => []AnswerServed
<1>1. IInv(Rooms, Payloads) => AnswerServed
  BY InvariantSays
<1> QED BY <1>1, JobsInvariant, PTL

\* Nobody rewrites a terminal row: neither a status call nor a late worker, whose
\* commit does not look at the state (_refresh, _finish).
THEOREM TerminalKept == Spec => TerminalIsFinal
<1>1. IInv(Rooms, Payloads) /\ [Next]_vars => [\A j \in Rows : jobs[j].state \in TERMINAL_STATES => jobs'[j] = jobs[j]]_vars
  BY DeepseekKeeps DEF RowsKept
<1> QED BY <1>1, JobsInvariant, PTL DEF Spec, TerminalIsFinal
-----------------------------------------------------------------------------
(***************************************************************************)
(* The files of the jobs and what they are charged.                        *)
(***************************************************************************)
\* What a job may take of the quota: its reservation while it is active, its files afterwards.
Claim(j) ==
    IF jobs[j] = None THEN 0
    ELSE IF jobs[j].state \in ACTIVE_STATES THEN reservation_bytes ELSE Bytes(j)
\* There are charges inside the quota that cover what every job may take.
ClaimInv ==
    \E c \in [Jobs -> Nat] : (\A j \in Jobs : Claim(j) <= c[j]) /\ Total(c, Jobs) <= max_retained_bytes

\* A row says what its job may leave or has left; an export that no row names is
\* a second name of the content.
DiskInv(j) ==
    /\ jobs[j] = None => files[j] = {}
    /\ jobs[j] # None /\ jobs[j].state \in ACTIVE_STATES => jobs[j].reserved = reservation_bytes
    /\ jobs[j] # None /\ jobs[j].state \in TERMINAL_STATES => Bytes(j) <= jobs[j].reserved + jobs[j].retained
    /\ work[j].at # "gone" /\ ~work[j].path /\ "export" \in files[j] => "content" \in files[j]

DisksInv == \A j \in Jobs : DiskInv(j)

BytesOf(f) == Cardinality(f \cap {"text"}) + IF f \cap {"content", "export"} = {} THEN 0 ELSE 1

\* One more name.
LEMMA OneMore ==
    ASSUME NEW f \in SUBSET Files, NEW S \in SUBSET Files, NEW x \in Files, x \notin S
    PROVE  Cardinality(f \cap (S \cup {x})) = Cardinality(f \cap S) + (IF x \in f THEN 1 ELSE 0)
<1>1. IsFiniteSet(f \cap S) /\ Cardinality(f \cap S) \in Nat
  BY FilesCounted, FilesFinite, FS_Subset
<1>2. CASE x \in f
  <2>1. f \cap (S \cup {x}) = (f \cap S) \cup {x} /\ x \notin f \cap S
    BY <1>2
  <2>2. Cardinality((f \cap S) \cup {x}) = Cardinality(f \cap S) + 1
    BY <1>1, <2>1, FS_AddElement
  <2> QED BY <1>2, <2>1, <2>2
<1>3. CASE x \notin f
  <2>1. f \cap (S \cup {x}) = f \cap S
    BY <1>3
  <2> QED BY <1>1, <1>3, <2>1
<1> QED BY <1>2, <1>3

\* Content and export are one inode: each way of counting the names covers the bytes.
LEMMA NamesCover ==
    ASSUME NEW f \in SUBSET Files
    PROVE  /\ BytesOf(f) \in Nat /\ BytesOf(f) <= 2 /\ BytesOf(f) <= Cardinality(f)
           /\ BytesOf(f) <= Cardinality(f \cap {"text", "content"}) + Cardinality(f \cap {"export"})
           /\ ("export" \in f => "content" \in f) => BytesOf(f) <= Cardinality(f \cap {"text", "content"})
<1>1. Cardinality(f \cap {}) = 0
  <2>1. f \cap {} = {}
    OBVIOUS
  <2> QED BY <2>1, FS_EmptySet
<1>2. /\ Cardinality(f \cap ({} \cup {"text"})) = Cardinality(f \cap {}) + (IF "text" \in f THEN 1 ELSE 0)
      /\ Cardinality(f \cap ({} \cup {"export"})) = Cardinality(f \cap {}) + (IF "export" \in f THEN 1 ELSE 0)
      /\ Cardinality(f \cap ({"text"} \cup {"content"})) = Cardinality(f \cap {"text"}) + (IF "content" \in f THEN 1 ELSE 0)
      /\ Cardinality(f \cap ({"text", "content"} \cup {"export"})) = Cardinality(f \cap {"text", "content"}) + (IF "export" \in f THEN 1 ELSE 0)
  BY OneMore DEF Files
<1>3. /\ {} \cup {"text"} = {"text"} /\ {} \cup {"export"} = {"export"}
      /\ {"text"} \cup {"content"} = {"text", "content"} /\ f \cap ({"text", "content"} \cup {"export"}) = f
  BY DEF Files
<1>4. PICK t : t = Cardinality(f \cap {"text"})
  OBVIOUS
<1>5. PICK e : e = Cardinality(f \cap {"export"})
  OBVIOUS
<1>6. PICK p : p = Cardinality(f \cap {"text", "content"})
  OBVIOUS
<1>7. PICK n : n = Cardinality(f)
  OBVIOUS
<1>8. /\ t = (IF "text" \in f THEN 1 ELSE 0) /\ e = (IF "export" \in f THEN 1 ELSE 0)
      /\ p = t + (IF "content" \in f THEN 1 ELSE 0) /\ n = p + (IF "export" \in f THEN 1 ELSE 0)
  BY <1>1, <1>2, <1>3, <1>4, <1>5, <1>6, <1>7
<1>9. f \cap {"content", "export"} = {} <=> ("content" \notin f /\ "export" \notin f)
  OBVIOUS
<1>10. PICK b : b = BytesOf(f)
  OBVIOUS
<1>11. b = t + (IF "content" \notin f /\ "export" \notin f THEN 0 ELSE 1)
  BY <1>4, <1>9, <1>10 DEF BytesOf
<1> QED BY <1>4, <1>5, <1>6, <1>7, <1>8, <1>10, <1>11

\* So do they in the directory of a job.
LEMMA BytesCover ==
    ASSUME NEW R, NEW P, Types(R, P), NEW j \in Jobs
    PROVE  /\ Bytes(j) \in Nat /\ Bytes(j) <= 2 /\ Bytes(j) <= Cardinality(files[j]) /\ Bytes(j) <= Evidence(j)
           /\ ("export" \in files[j] => "content" \in files[j]) => Bytes(j) <= _retained(j)
<1>1. PICK f \in SUBSET Files : f = files[j]
  BY DEF Types
<1> QED BY <1>1, NamesCover DEF Bytes, BytesOf, Evidence, _retained, _export_bytes

-----------------------------------------------------------------------------
\* A step that leaves the rows and the files of a job alone.
Still(k) ==
    /\ jobs'[k] = jobs[k] /\ files'[k] = files[k]
    /\ work'[k].at # "gone" /\ ~work'[k].path => work[k].at # "gone" /\ ~work[k].path

\* Files come and go while the row is active.
Writes(k) ==
    /\ jobs[k] # None /\ jobs[k].state \in ACTIVE_STATES
    /\ jobs'[k] # None /\ jobs'[k].state \in ACTIVE_STATES /\ jobs'[k].reserved = jobs[k].reserved
    /\ work'[k].at # "gone" /\ ~work'[k].path /\ "export" \in files'[k] => "content" \in files'[k]

\* A row is closed and charged what is left.
Closes(k) ==
    /\ jobs[k] # None /\ jobs[k].state \in ACTIVE_STATES
    /\ jobs'[k] # None /\ jobs'[k].state \in TERMINAL_STATES
    /\ Bytes(k)' <= jobs'[k].reserved + jobs'[k].retained
    /\ work'[k].at # "gone" /\ ~work'[k].path /\ "export" \in files'[k] => "content" \in files'[k]

\* None of them raises a claim.
LEMMA DiskKept ==
    ASSUME NEW R, NEW P, None \notin RowOf(R, P), Types(R, P), Types(R, P)', NEW k \in Jobs, DiskInv(k),
           Still(k) \/ Writes(k) \/ Closes(k)
    PROVE  DiskInv(k)' /\ Claim(k)' <= Claim(k) /\ Claim(k)' \in Nat /\ Claim(k) \in Nat
<1>1. Claim(k) \in Nat /\ Bytes(k)' \in Nat /\ Bytes(k)' <= 2
  <2>1. Bytes(k) \in Nat
    BY BytesCover
  <2>2. PICK f \in SUBSET Files : f = files'[k]
    BY DEF Types
  <2>3. BytesOf(f) \in Nat /\ BytesOf(f) <= 2
    BY NamesCover
  <2>4. Bytes(k)' = BytesOf(f)
    BY <2>2 DEF Bytes, BytesOf
  <2> QED BY <2>1, <2>3, <2>4 DEF Claim, reservation_bytes
<1>2. CASE Still(k)
  <2>1. Bytes(k)' = Bytes(k)
    BY <1>2 DEF Still, Bytes
  <2>2. Claim(k)' = Claim(k)
    BY <1>2, <2>1 DEF Still, Claim
  <2> QED BY <1>1, <1>2, <2>1, <2>2 DEF Still, DiskInv
<1>3. CASE Writes(k)
  <2>1. DiskInv(k)'
    BY <1>3 DEF Writes, DiskInv
  <2>2. Claim(k)' = 2 /\ Claim(k) = 2
    BY <1>3 DEF Writes, Claim, reservation_bytes
  <2> QED BY <2>1, <2>2
<1>4. CASE Closes(k)
  <2>1. DiskInv(k)'
    BY <1>4 DEF Closes, DiskInv
  <2>2. Claim(k)' = Bytes(k)' /\ Claim(k) = 2
    BY <1>4 DEF Closes, Claim, reservation_bytes
  <2> QED BY <1>1, <2>1, <2>2
<1> QED BY <1>2, <1>3, <1>4

Covered == \A k \in Jobs : Still(k) \/ Writes(k) \/ Closes(k)

\* Most steps touch neither rows nor files.
LEMMA StillSteps ==
    ASSUME NEW R, NEW P, None \notin RowOf(R, P), IInv(R, P), NEW j \in Jobs,
           \/ _spawn_worker(j) \/ Unsent(j) \/ Connect(j) \/ ConnectFails(j) \/ Send(j) \/ SendFails(j)
           \/ NoStream(j) \/ Consume(j) \/ NoExport(j)
           \/ Cancel(j) \/ resolve_job(j) \/ Provide(j) \/ SubmissionDies(j) \/ WorkerDies(j)
    PROVE  Covered
<1>1. UNCHANGED <<jobs, files>>
  BY DEF _spawn_worker, Unsent, Connect, ConnectFails, Send, SendFails, NoStream, Consume, NoExport,
     Cancel, resolve_job, Provide, SubmissionDies, WorkerDies
<1>2. JobInv(j) /\ Types(R, P)
  BY DEF IInv
<1>3. ASSUME NEW k \in Jobs, work'[k].at # "gone", ~work'[k].path
      PROVE  work[k].at # "gone" /\ ~work[k].path
  <2>1. CASE k # j
    BY <1>2, <1>3, <2>1 DEF Types, _spawn_worker, Unsent, Connect, ConnectFails, Send, SendFails, NoStream, Consume,
       NoExport, Cancel, resolve_job, Provide, SubmissionDies, WorkerDies, Ends
  <2>2. CASE UNCHANGED work
    BY <1>3, <2>2
  <2>3. CASE k = j /\ ~UNCHANGED work
    <3>1. WorkerDies(j) => work'[j].at = "gone"
      BY <1>2 DEF Types, WorkerDies, Gone, Worker
    <3>2. work[j].at \in {"start", "connect", "send", "await", "stream", "publish"} \/ _spawn_worker(j)
      BY <1>3, <2>3, <3>1 DEF _spawn_worker, Unsent, Connect, ConnectFails, Send, SendFails, NoStream, Consume, NoExport,
         Cancel, resolve_job, Provide, SubmissionDies
    <3>3. _spawn_worker(j) => work[j].at = "none"
      BY <1>2 DEF _spawn_worker, JobInv, LeaseInv, Idle, Worker
    <3>4. work[j].at \notin {"gone", "finish"}
      BY <3>2, <3>3
    <3> QED BY <1>2, <2>3, <3>4 DEF JobInv, AnswerInv
  <2> QED BY <2>1, <2>2, <2>3
<1> QED BY <1>1, <1>3 DEF Covered, Still

\* Where files come and go the row is active, and the content keeps a private
\* name until the export is durable.
LEMMA WritingSteps ==
    ASSUME NEW R, NEW P, None \notin RowOf(R, P), IInv(R, P), DisksInv, NEW j \in Jobs,
           \/ StoreRequest(j) \/ CommitSubmitting(j) \/ Respond(j)
           \/ Link(j) \/ Durable(j) \/ _rollback_export(j)
    PROVE  Covered
<1>1. JobInv(j) /\ Types(R, P) /\ DiskInv(j) /\ work[j].at \in Steps
  BY DEF IInv, DisksInv, Types
<1>2. jobs[j] \in RowOf(R, P) /\ jobs[j].state \in ACTIVE_STATES
  BY <1>1 DEF Types, JobInv, LeaseInv, StoreRequest, CommitSubmitting, Respond, Link, Durable, _rollback_export, Idle, Worker
<1>3. ASSUME NEW k \in Jobs, k # j PROVE Still(k)
  <2>1. jobs'[k] = jobs[k]
    BY <1>1, <1>3 DEF Types, StoreRequest, CommitSubmitting, Respond, Link, Durable, _rollback_export
  <2>2. files'[k] = files[k]
    BY <1>1, <1>3 DEF Types, StoreRequest, CommitSubmitting, Respond, Link, Durable, _rollback_export
  <2>3. work'[k] = work[k]
    BY <1>1, <1>3 DEF Types, StoreRequest, CommitSubmitting, Respond, Link, Durable, _rollback_export, Ends
  <2> QED BY <2>1, <2>2, <2>3 DEF Still
<1>4. jobs'[j] # None /\ jobs'[j].state \in ACTIVE_STATES /\ jobs'[j].reserved = jobs[j].reserved
  <2>1. PICK row : row = jobs[j]
    OBVIOUS
  <2>2. [row EXCEPT !.state = SUBMITTING, !.billed = TRUE] \in RowOf(R, P) /\ [row EXCEPT !.state = STREAMING] \in RowOf(R, P)
    BY <1>2, <2>1 DEF RowOf
  <2>3. \/ jobs'[j] = row \/ jobs'[j] = [row EXCEPT !.state = SUBMITTING, !.billed = TRUE]
        \/ jobs'[j] = [row EXCEPT !.state = STREAMING]
    BY <1>1, <2>1 DEF Types, StoreRequest, CommitSubmitting, Respond, Link, Durable, _rollback_export
  <2>4. \E s \in {row.state, SUBMITTING, STREAMING} : jobs'[j] \in RowOf(R, P) /\ jobs'[j].state = s /\ jobs'[j].reserved = row.reserved
    <3>1. CASE jobs'[j] = row
      BY <1>2, <2>1, <3>1
    <3>2. CASE jobs'[j] = [row EXCEPT !.state = SUBMITTING, !.billed = TRUE]
      BY <1>2, <2>1, <2>2, <3>2 DEF RowOf
    <3>3. CASE jobs'[j] = [row EXCEPT !.state = STREAMING]
      BY <1>2, <2>1, <2>2, <3>3 DEF RowOf
    <3> QED BY <2>3, <3>1, <3>2, <3>3
  <2> QED BY <1>2, <2>1, <2>4
<1>5. ASSUME work'[j].at # "gone", ~work'[j].path, "export" \in files'[j] PROVE "content" \in files'[j]
  <2>1. CASE StoreRequest(j) \/ CommitSubmitting(j) \/ Respond(j)
    <3>1. /\ work[j].at # "gone" /\ ~work[j].path
          /\ "export" \in files[j] /\ ("content" \in files[j] => "content" \in files'[j])
      BY <1>1, <1>5, <2>1 DEF Types, StoreRequest, CommitSubmitting, Respond, JobInv, LeaseInv, AnswerInv, Idle, Worker
    <3> QED BY <1>1, <3>1 DEF DiskInv
  <2>2. CASE Link(j)
    BY <1>1, <2>2 DEF Types, Link, JobInv, AnswerInv
  <2>3. CASE Durable(j)
    BY <1>1, <1>5, <2>3 DEF Types, Durable, Worker
  <2>4. CASE _rollback_export(j)
    BY <1>1, <2>4 DEF Types, _rollback_export, JobInv, AnswerInv
  <2> QED BY <2>1, <2>2, <2>3, <2>4
<1> QED BY <1>2, <1>3, <1>4, <1>5 DEF Covered, Writes

\* A closed row is charged every name its job leaves, the content's and a durable
\* export's once.
LEMMA ClosingSteps ==
    ASSUME NEW R, NEW P, None \notin RowOf(R, P), IInv(R, P), DisksInv, NEW j \in Jobs, SubmitFails(j) \/ _finish(j)
    PROVE  Covered
<1>1. JobInv(j) /\ Types(R, P) /\ DiskInv(j)
  BY DEF IInv, DisksInv
<1>2. jobs[j] \in RowOf(R, P) /\ jobs[j].state \in ACTIVE_STATES
  <2>1. CASE SubmitFails(j)
    BY <1>1, <2>1 DEF Types, JobInv, LeaseInv, SubmitFails
  <2>2. CASE _finish(j)
    BY <1>1, <2>2 DEF Types, JobInv, LeaseInv, _finish, Idle, Worker
  <2> QED BY <2>1, <2>2
<1>3. ASSUME NEW k \in Jobs, k # j PROVE Still(k)
  BY <1>1, <1>3 DEF Types, SubmitFails, _finish, Still
<1>4. ASSUME SubmitFails(j) PROVE Closes(j)
  <2>1. /\ sub[j] \in {"store", "spawn"} /\ UNCHANGED work /\ work[j] = Idle /\ jobs[j].state = QUEUED
    BY <1>1, <1>4 DEF SubmitFails, JobInv, LeaseInv
  <2>2. PICK f \in SUBSET Files : f = files'[j] /\ ("export" \in f => "export" \in files[j]) /\ files[j] \subseteq f
    <3>1. PICK left \in SUBSET {"text"} : files' = [files EXCEPT ![j] = files[j] \cup left]
      BY <1>4 DEF SubmitFails
    <3>2. files'[j] = files[j] \cup left /\ files'[j] \in SUBSET Files
      BY <1>1, <3>1 DEF Types, Files
    <3> QED BY <3>1, <3>2
  <2>3. jobs'[j] = Closed(jobs[j], NOT_STARTED, Cardinality(f), FALSE)
    BY <1>1, <1>4, <2>1, <2>2 DEF SubmitFails, Types
  <2>4. BytesOf(f) <= Cardinality(f) /\ Cardinality(f) \in Nat
    BY NamesCover, FilesCounted
  <2>5. PICK n \in Nat : n = Cardinality(f)
    BY <2>4
  <2>10. jobs[j] \in RowOf(R, P) /\ NOT_STARTED \in TERMINAL_STATES /\ FALSE \in BOOLEAN
    BY <1>2
  <2>6. jobs'[j] \in RowOf(R, P) /\ jobs'[j].state = NOT_STARTED /\ jobs'[j].reserved = 0 /\ jobs'[j].retained = n
    <3>1. /\ Closed(jobs[j], NOT_STARTED, n, FALSE) \in RowOf(R, P) /\ Closed(jobs[j], NOT_STARTED, n, FALSE).state = NOT_STARTED
          /\ Closed(jobs[j], NOT_STARTED, n, FALSE).reserved = 0 /\ Closed(jobs[j], NOT_STARTED, n, FALSE).retained = n
      BY <2>10 DEF Closed, RowOf
    <3> QED BY <2>3, <2>5, <3>1
  <2>7. Bytes(j)' = BytesOf(f)
    BY <2>2 DEF Bytes, BytesOf
  <2>8. Bytes(j)' <= jobs'[j].reserved + jobs'[j].retained
    BY <2>4, <2>5, <2>6, <2>7
  <2>9. "export" \in files'[j] => "content" \in files'[j]
    BY <1>1, <2>1, <2>2 DEF DiskInv, Idle, Worker
  <2> QED BY <1>2, <2>6, <2>8, <2>9 DEF Closes
<1>5. ASSUME _finish(j) PROVE Closes(j)
  <2>1. /\ work[j].at = "finish" /\ work[j].outcome \in TERMINAL_STATES /\ work[j].path \in BOOLEAN
        /\ UNCHANGED files /\ work'[j].at = "gone"
    BY <1>1, <1>5 DEF Types, _finish, Gone, Worker
  <2>2. PICK n : n = _retained(j) + IF work[j].path THEN _export_bytes(j) ELSE 0
    OBVIOUS
  <2>3. jobs'[j] = Closed(jobs[j], work[j].outcome, n, work[j].path)
    BY <1>1, <1>5, <2>2 DEF Types, _finish
  <2>4. Bytes(j) <= n /\ n \in Nat
    <3>1. _retained(j) \in Nat /\ _export_bytes(j) \in Nat
      BY <1>1, FilesCounted DEF Types, _retained, _export_bytes
    <3>2. CASE work[j].path = TRUE
      BY <1>1, <2>2, <3>1, <3>2, BytesCover DEF Evidence
    <3>3. CASE work[j].path = FALSE
      <4>1. "export" \in files[j] => "content" \in files[j]
        BY <1>1, <2>1, <3>3 DEF DiskInv
      <4>2. Bytes(j) <= _retained(j) /\ Bytes(j) \in Nat
        BY <1>1, <4>1, BytesCover
      <4> QED BY <2>2, <3>1, <3>3, <4>2
    <3> QED BY <2>1, <3>2, <3>3
  <2>5. jobs'[j] \in RowOf(R, P) /\ jobs'[j].state = work[j].outcome /\ jobs'[j].reserved = 0 /\ jobs'[j].retained = n
    <3>1. /\ Closed(jobs[j], work[j].outcome, n, work[j].path) \in RowOf(R, P)
          /\ Closed(jobs[j], work[j].outcome, n, work[j].path).state = work[j].outcome
          /\ Closed(jobs[j], work[j].outcome, n, work[j].path).reserved = 0
          /\ Closed(jobs[j], work[j].outcome, n, work[j].path).retained = n
      BY <1>2, <2>1, <2>4 DEF Closed, RowOf
    <3> QED BY <2>3, <3>1
  <2>6. Bytes(j)' = Bytes(j) /\ Bytes(j) \in Nat
    BY <1>1, <2>1, BytesCover DEF Bytes
  <2> QED BY <1>2, <2>1, <2>4, <2>5, <2>6 DEF Closes
<1> QED BY <1>3, <1>4, <1>5 DEF Covered

\* A relabelled row is charged its evidence.
LEMMA RelabelCovers ==
    ASSUME NEW R, NEW P, None \notin RowOf(R, P), IInv(R, P), NEW S \in SUBSET Vanished, NEW k \in Jobs,
           jobs'[k] = Relabelled(S)[k], UNCHANGED <<files, work>>, DiskInv(k)
    PROVE  Still(k) \/ Closes(k)
<1>1. CASE k \notin S
  BY <1>1 DEF Relabelled, Still
<1>2. CASE k \in S
  <2>1. /\ jobs[k] \in RowOf(R, P) /\ jobs[k].state \in ACTIVE_STATES /\ ~leased(k) /\ Types(R, P)
    BY <1>2 DEF IInv, Types, Vanished, active, Rows
  <2>2. PICK n : n = Evidence(k)
    OBVIOUS
  <2>3. n \in Nat /\ Bytes(k) <= n /\ Bytes(k) \in Nat
    <3>1. _retained(k) \in Nat /\ _export_bytes(k) \in Nat
      BY <2>1, FilesCounted DEF Types, _retained, _export_bytes
    <3>2. Evidence(k) \in Nat
      BY <3>1 DEF Evidence
    <3> QED BY <2>1, <2>2, <3>2, BytesCover
  <2>4. jobs'[k] = Closed(jobs[k], Label(k), n, FALSE) /\ Label(k) \in TERMINAL_STATES
    BY <1>2, <2>2 DEF Relabelled, Label
  <2>5. jobs'[k] \in RowOf(R, P) /\ jobs'[k].state \in TERMINAL_STATES /\ jobs'[k].reserved = 0 /\ jobs'[k].retained = n
    <3>1. PICK s \in TERMINAL_STATES : s = Label(k)
      BY <2>4
    <3>2. /\ Closed(jobs[k], s, n, FALSE) \in RowOf(R, P) /\ Closed(jobs[k], s, n, FALSE).state = s
          /\ Closed(jobs[k], s, n, FALSE).reserved = 0 /\ Closed(jobs[k], s, n, FALSE).retained = n
      BY <2>1, <2>3 DEF Closed, RowOf
    <3> QED BY <2>4, <3>1, <3>2
  <2>6. Bytes(k)' = Bytes(k)
    BY DEF Bytes
  <2> QED BY <2>1, <2>3, <2>5, <2>6 DEF Closes, DiskInv
<1> QED BY <1>1, <1>2

\* Between admissions no claim grows.
LEMMA JobsCovered ==
    ASSUME NEW R, NEW P, None \notin RowOf(R, P), IInv(R, P), DisksInv, JobStep
    PROVE  DisksInv' /\ \A k \in Jobs : Claim(k)' <= Claim(k) /\ Claim(k)' \in Nat /\ Claim(k) \in Nat
<1>1. IInv(R, P)'
  BY StepKeepsInvariant
<1>2. Covered
  <2>1. CASE UNCHANGED vars
    BY <2>1 DEF vars, Covered, Still
  <2>2. CASE Refresh
    <3>1. PICK S \in SUBSET Vanished : jobs' = Relabelled(S) /\ UNCHANGED <<files, work>>
      BY <2>2 DEF Refresh
    <3> QED BY <3>1, RelabelCovers DEF Covered, DisksInv
  <2>3. ASSUME NEW j \in Jobs,
               \/ Submission(j) \/ run_worker(j)
               \/ Cancel(j) \/ resolve_job(j) \/ Provide(j) \/ SubmissionDies(j) \/ WorkerDies(j)
        PROVE  Covered
    <3>1. CASE \/ _spawn_worker(j) \/ Unsent(j) \/ Connect(j) \/ ConnectFails(j) \/ Send(j) \/ SendFails(j)
               \/ NoStream(j) \/ Consume(j) \/ NoExport(j)
               \/ Cancel(j) \/ resolve_job(j) \/ Provide(j) \/ SubmissionDies(j) \/ WorkerDies(j)
      BY <3>1, StillSteps
    <3>2. CASE \/ StoreRequest(j) \/ CommitSubmitting(j) \/ Respond(j)
               \/ Link(j) \/ Durable(j) \/ _rollback_export(j)
      BY <3>2, WritingSteps
    <3>3. CASE SubmitFails(j) \/ _finish(j)
      BY <3>3, ClosingSteps
    <3> QED BY <2>3, <3>1, <3>2, <3>3 DEF Submission, run_worker
  <2> QED BY <2>1, <2>2, <2>3 DEF JobStep
<1> QED BY <1>1, <1>2, DiskKept DEF Covered, DisksInv, IInv

-----------------------------------------------------------------------------
\* What the ledger charges, and what is on disk, are sums.
Charge(led, S) == [j \in S |-> led[j].reserved + led[j].retained]

\* The quota check adds up the rows.
LEMMA ChargedTotal ==
    ASSUME NEW led, NEW S, IsFiniteSet(S)
    PROVE  MapThenSumSet(LAMBDA j : led[j].reserved + led[j].retained, S) = Total(Charge(led, S), S)
<1> DEFINE f == [j \in S |-> led[j].reserved + led[j].retained]
           Sums(g) == [s \in SUBSET S |-> IF s = {} THEN 0
                         ELSE (led[CHOOSE x \in s : TRUE].reserved + led[CHOOSE x \in s : TRUE].retained)
                                  + g[s \ {CHOOSE x \in s : TRUE}]]
<1>1. PICK g : Partial(f, SUBSET S, g) /\ Total(f, S) = g[S]
  BY TotalPartial
<1>2. ASSUME NEW g0 PROVE Partial(f, SUBSET S, g0) <=> g0 = Sums(g0)
  <2>1. ASSUME NEW s \in SUBSET S, s # {}
        PROVE  f[First(s)] = led[CHOOSE x \in s : TRUE].reserved + led[CHOOSE x \in s : TRUE].retained
    BY <2>1 DEF First
  <2>2. [s \in SUBSET S |-> IF s = {} THEN 0 ELSE f[First(s)] + g0[s \ {First(s)}]] = Sums(g0)
    BY <2>1 DEF First
  <2> QED BY <2>2 DEF Partial
<1>3. g = Sums(g)
  BY <1>1, <1>2
<1>4. \E h : h = Sums(h) /\ MapThenSumSet(LAMBDA j : led[j].reserved + led[j].retained, S) = h[S]
  <2> HIDE DEF f
  <2> QED BY <1>3 DEF MapThenSumSet, MapThenFoldSet
<1>5. PICK h : h = Sums(h) /\ MapThenSumSet(LAMBDA j : led[j].reserved + led[j].retained, S) = h[S]
  BY <1>4
<1>6. g[S] = h[S]
  <2>1. Partial(f, SUBSET S, h)
    BY <1>2, <1>5
  <2> HIDE DEF f
  <2> QED BY <1>1, <2>1, PartialUnique
<1> QED BY <1>1, <1>5, <1>6 DEF Charge

\* The quota is about the files of all jobs.
LEMMA DiskTotal ==
    ASSUME NEW S, IsFiniteSet(S)
    PROVE  MapThenSumSet(Bytes, S) = Total([j \in S |-> Bytes(j)], S)
<1> DEFINE f == [j \in S |-> Bytes(j)]
           Sums(g) == [s \in SUBSET S |-> IF s = {} THEN 0
                         ELSE Bytes(CHOOSE x \in s : TRUE) + g[s \ {CHOOSE x \in s : TRUE}]]
<1>1. PICK g : Partial(f, SUBSET S, g) /\ Total(f, S) = g[S]
  BY TotalPartial
<1>2. ASSUME NEW g0 PROVE Partial(f, SUBSET S, g0) <=> g0 = Sums(g0)
  <2>1. ASSUME NEW s \in SUBSET S, s # {} PROVE f[First(s)] = Bytes(CHOOSE x \in s : TRUE)
    BY <2>1 DEF First
  <2>2. [s \in SUBSET S |-> IF s = {} THEN 0 ELSE f[First(s)] + g0[s \ {First(s)}]] = Sums(g0)
    BY <2>1 DEF First
  <2> QED BY <2>2 DEF Partial
<1>3. g = Sums(g)
  BY <1>1, <1>2
<1>4. \E h : h = Sums(h) /\ MapThenSumSet(Bytes, S) = h[S]
  <2> HIDE DEF f
  <2> QED BY <1>3 DEF MapThenSumSet, MapThenFoldSet
<1>5. PICK h : h = Sums(h) /\ MapThenSumSet(Bytes, S) = h[S]
  BY <1>4
<1>6. g[S] = h[S]
  <2>1. Partial(f, SUBSET S, h)
    BY <1>2, <1>5
  <2> HIDE DEF f
  <2> QED BY <1>1, <2>1, PartialUnique
<1> QED BY <1>1, <1>5, <1>6

\* There are finitely many job ids.
LEMMA JobsFinite == IsFiniteSet(Jobs)
<1>1. 1 \in Int /\ max_jobs \in Int
  BY LimitsAssumption
<1>2. IsFiniteSet(1..max_jobs)
  BY <1>1, FS_Interval
<1> QED BY <1>2 DEF Jobs

\* What the claims are inside of covers the disk.
LEMMA ClaimsCoverDisk ==
    ASSUME NEW R, NEW P, IInv(R, P), DisksInv, ClaimInv
    PROVE  WithinQuota
<1>1. PICK c \in [Jobs -> Nat] : (\A j \in Jobs : Claim(j) <= c[j]) /\ Total(c, Jobs) <= max_retained_bytes
  BY DEF ClaimInv
<1>2. PICK f : f = [j \in Jobs |-> Bytes(j)]
  OBVIOUS
<1>3. PICK S : S = Jobs
  OBVIOUS
<1>4. PICK h : h = [j \in S |-> j]
  OBVIOUS
<1>5. ASSUME NEW j \in Jobs PROVE f[j] \in Nat /\ f[j] <= c[j]
  <2>1. Bytes(j) \in Nat /\ Bytes(j) <= 2
    BY BytesCover DEF IInv
  <2>2. DiskInv(j) /\ c[j] \in Nat /\ Claim(j) <= c[j]
    BY <1>1 DEF DisksInv
  <2>3. CASE jobs[j] = None
    <3>1. Bytes(j) <= Cardinality(files[j]) /\ files[j] = {}
      BY <2>2, <2>3, BytesCover DEF IInv, DiskInv
    <3>2. Bytes(j) = 0
      BY <2>1, <3>1, FS_EmptySet
    <3> QED BY <1>2, <2>2, <3>2
  <2>4. CASE jobs[j] # None
    <3>1. Bytes(j) <= Claim(j) /\ Claim(j) \in Nat
      BY <2>1, <2>4 DEF Claim, reservation_bytes
    <3>2. f[j] = Bytes(j)
      BY <1>2
    <3>3. PICK n \in Nat : n = Claim(j)
      BY <3>1
    <3> QED BY <2>1, <2>2, <3>1, <3>2, <3>3
  <2> QED BY <2>3, <2>4
<1>6. IsFiniteSet(S) /\ MapThenSumSet(Bytes, Jobs) = Total(f, S) /\ Total(c, S) <= max_retained_bytes
  BY <1>1, <1>2, <1>3, JobsFinite, DiskTotal
<1>7. /\ \A x \in S : f[x] \in Nat /\ (f[x] = 0 \/ (h[x] \in S /\ f[x] <= c[h[x]]))
      /\ \A x \in S : c[x] \in Nat
      /\ \A x, y \in S : h[x] = h[y] => x = y
  BY <1>3, <1>4, <1>5
<1>8. Total(f, S) <= Total(c, S)
  BY <1>6, <1>7, TotalBelow
<1>9. Total(f, S) \in Nat /\ Total(c, S) \in Nat /\ max_retained_bytes \in Nat
  BY <1>6, <1>7, TotalRemove, LimitsAssumption
<1> QED BY <1>6, <1>8, <1>9 DEF WithinQuota

\* What the ledger charges a row covers what its job may take.
LEMMA RowCovers ==
    ASSUME NEW R, NEW P, None \notin RowOf(R, P), Types(R, P)', NEW k \in Jobs, jobs'[k] # None, DiskInv(k)'
    PROVE  /\ jobs'[k].reserved \in Nat /\ jobs'[k].retained \in Nat
           /\ Claim(k)' \in Nat /\ Claim(k)' <= jobs'[k].reserved + jobs'[k].retained
<1>1. PICK f \in SUBSET Files : f = files'[k]
  BY DEF Types
<1>2. PICK b \in Nat : b = Bytes(k)'
  BY <1>1, NamesCover DEF Bytes, BytesOf
<1>3. PICK row \in RowOf(R, P) : row = jobs'[k]
  BY DEF Types
<1>4. row.reserved \in Nat /\ row.retained \in Nat /\ row.state \in ACTIVE_STATES \cup TERMINAL_STATES
  BY DEF RowOf
<1>5. CASE row.state \in ACTIVE_STATES
  BY <1>3, <1>4, <1>5 DEF Claim, DiskInv, reservation_bytes
<1>6. CASE row.state \notin ACTIVE_STATES
  BY <1>2, <1>3, <1>4, <1>6 DEF Claim, DiskInv
<1> QED BY <1>5, <1>6

\* An admission reserves what its job may take, on top of what the ledger it has
\* read charges the others.
LEMMA AdmissionCovers ==
    ASSUME NEW R, NEW P, None \notin RowOf(R, P), IInv(R, P), DisksInv, NEW room \in R, NEW payload \in P,
           NEW S \in SUBSET Vanished, Admits(room, payload, S),
           Charged(Relabelled(S)) + reservation_bytes <= max_retained_bytes
    PROVE  DisksInv' /\ ClaimInv'
<1>1. IInv(R, P)'
  BY SubmitStep
<1>2. PICK j \in Jobs :
         /\ jobs[j] = None /\ jobs' = [Relabelled(S) EXCEPT ![j] = Queued(room, payload)]
         /\ UNCHANGED <<work, files, remote>>
  <2>1. PICK n \in 0..max_jobs : Rows = 1..n /\ Count(Relabelled(S)) = n /\ n < max_jobs
    BY FreeRow
  <2>2. n + 1 \in Jobs /\ jobs[n + 1] = None
    BY <2>1, LimitsAssumption DEF Jobs, Rows
  <2> QED BY <2>1, <2>2 DEF Admits
<1>3. PICK led : led = Relabelled(S)
  OBVIOUS
<1>4. /\ led \in [Jobs -> RowOf(R, P) \cup {None}] /\ {k \in Jobs : led[k] # None} = Rows
      /\ j \notin Rows /\ led[j] = None
  <2>1. /\ led \in [Jobs -> RowOf(R, P) \cup {None}] /\ {k \in Jobs : led[k] # None} = Rows
    BY <1>3, RelabelledLedger, RelabelledRows
  <2>2. j \notin Rows
    BY <1>2 DEF Rows
  <2> QED BY <2>1, <2>2
<1>5. ASSUME NEW k \in Jobs, k # j PROVE jobs'[k] = led[k]
  BY <1>2, <1>3, <1>4, <1>5
<1>6. jobs'[j] = Queued(room, payload) /\ jobs'[j] # None /\ jobs'[j].state = QUEUED
      /\ jobs'[j].reserved = reservation_bytes /\ jobs'[j].retained = 0
  <2>1. jobs'[j] = Queued(room, payload) /\ Queued(room, payload) \in RowOf(R, P)
    BY <1>2, <1>3, <1>4 DEF Queued, RowOf, reservation_bytes
  <2>2. jobs'[j] # None
    BY <2>1
  <2>3. jobs'[j].state = QUEUED /\ jobs'[j].reserved = reservation_bytes /\ jobs'[j].retained = 0
    <3>1. jobs'[j] = Queued(room, payload)
      BY <2>1
    <3> QED BY <3>1 DEF Queued
  <2> QED BY <2>1, <2>2, <2>3
<1>7. ASSUME NEW k \in Jobs PROVE DiskInv(k)'
  <2>1. CASE k = j
    <3>1. files'[j] = {}
      BY <1>2 DEF DisksInv, DiskInv
    <3> QED BY <1>6, <2>1, <3>1 DEF DiskInv
  <2>2. CASE k # j
    <3>1. jobs'[k] = Relabelled(S)[k] /\ UNCHANGED <<files, work>> /\ DiskInv(k)
      BY <1>2, <1>3, <1>5, <2>2 DEF DisksInv
    <3>2. Still(k) \/ Closes(k)
      BY <3>1, RelabelCovers
    <3> QED BY <1>1, <3>1, <3>2, DiskKept DEF IInv
  <2> QED BY <2>1, <2>2
<1>8. PICK T : T = Rows /\ IsFiniteSet(T) /\ T \subseteq Jobs
  BY JobsFinite, FS_Subset DEF Rows
<1>9. PICK g : g = Charge(led, T)
  OBVIOUS
<1>10. PICK h : h = [k \in Jobs |-> k]
  OBVIOUS
<1>11. PICK c : c = [k \in Jobs |-> IF k = j THEN reservation_bytes ELSE IF k \in T THEN g[k] ELSE 0]
  OBVIOUS
<1>12. ASSUME NEW k \in T
       PROVE  g[k] \in Nat /\ Claim(k)' \in Nat /\ Claim(k)' <= g[k]
  <2>1. k \in Jobs /\ jobs'[k] = led[k] /\ jobs'[k] # None
    BY <1>4, <1>5, <1>8
  <2>2. /\ jobs'[k].reserved \in Nat /\ jobs'[k].retained \in Nat
        /\ Claim(k)' \in Nat /\ Claim(k)' <= jobs'[k].reserved + jobs'[k].retained
    BY <1>1, <1>7, <2>1, RowCovers DEF IInv
  <2>3. g[k] = jobs'[k].reserved + jobs'[k].retained
    BY <1>9, <2>1 DEF Charge
  <2> QED BY <2>2, <2>3
<1>13. ASSUME NEW k \in Jobs PROVE c[k] \in Nat /\ Claim(k)' <= c[k]
  <2>1. CASE k = j
    BY <1>6, <1>11, <2>1 DEF Claim, reservation_bytes
  <2>2. CASE k # j /\ k \in T
    BY <1>11, <1>12, <2>2
  <2>3. CASE k # j /\ k \notin T
    <3>1. jobs'[k] = None
      BY <1>4, <1>5, <1>8, <2>3
    <3> QED BY <1>11, <2>3, <3>1 DEF Claim
  <2> QED BY <2>1, <2>2, <2>3
<1>14. Total(g, T) + reservation_bytes <= max_retained_bytes
  <2>1. Charged(led) = MapThenSumSet(LAMBDA k : led[k].reserved + led[k].retained, T)
    BY <1>4, <1>8 DEF Charged
  <2>2. MapThenSumSet(LAMBDA k : led[k].reserved + led[k].retained, T) = Total(g, T)
    BY <1>8, <1>9, ChargedTotal
  <2>3. Charged(led) + reservation_bytes <= max_retained_bytes
    BY <1>3
  <2> QED BY <2>1, <2>2, <2>3
<1>15. Total(c, Jobs \ {j}) <= Total(g, T) /\ Total(c, Jobs \ {j}) \in Nat /\ Total(g, T) \in Nat
  <2>1. PICK U : U = Jobs \ {j} /\ IsFiniteSet(U)
    BY JobsFinite, FS_Subset
  <2>2. /\ \A x \in U : c[x] \in Nat /\ (c[x] = 0 \/ (h[x] \in T /\ c[x] <= g[h[x]]))
        /\ \A x \in T : g[x] \in Nat
        /\ \A x, y \in U : h[x] = h[y] => x = y
    BY <1>8, <1>10, <1>11, <1>12, <1>13, <2>1
  <2>3. Total(c, U) <= Total(g, T)
    BY <1>8, <2>1, <2>2, TotalBelow
  <2>4. Total(c, U) \in Nat /\ Total(g, T) \in Nat
    BY <1>8, <2>1, <2>2, TotalRemove
  <2> QED BY <2>1, <2>3, <2>4
<1>16. Total(c, Jobs) = reservation_bytes + Total(c, Jobs \ {j})
  <2>1. c[j] = reservation_bytes
    BY <1>11
  <2> QED BY <1>13, <2>1, JobsFinite, TotalRemove
<1>17. Total(c, Jobs) <= max_retained_bytes
  <2>1. reservation_bytes \in Nat /\ max_retained_bytes \in Nat
    BY LimitsAssumption DEF reservation_bytes
  <2> QED BY <1>14, <1>15, <1>16, <2>1
<1>18. c \in [Jobs -> Nat]
  BY <1>11, <1>13
<1> QED BY <1>7, <1>13, <1>17, <1>18 DEF DisksInv, ClaimInv

\* Nothing is claimed before the first admission.
LEMMA NothingClaimed == Init => DisksInv /\ ClaimInv
<1> SUFFICES ASSUME Init PROVE DisksInv /\ ClaimInv
  OBVIOUS
<1>1. DisksInv
  BY DEF Init, DisksInv, DiskInv
<1>2. PICK S : S = Jobs /\ IsFiniteSet(S)
  BY JobsFinite
<1>3. PICK c : c = [j \in S |-> 0]
  OBVIOUS
<1>4. Total(c, S) <= Total(c, {})
  <2>2. IsFiniteSet({}) /\ \A x \in {} : c[x] \in Nat
    BY FS_EmptySet
  <2>3. PICK h : h = [x \in S |-> x]
    OBVIOUS
  <2>4. \A x, y \in S : h[x] = h[y] => x = y
    BY <2>3
  <2>5. \A x \in S : c[x] \in Nat /\ (c[x] = 0 \/ (h[x] \in {} /\ c[x] <= c[h[x]]))
    BY <1>3
  <2> QED BY <1>2, <2>2, <2>4, <2>5, TotalBelow
<1>5. Total(c, {}) = 0
  BY FS_EmptySet, TotalFirst
<1>6. Total(c, S) <= max_retained_bytes
  <2>1. Total(c, S) \in Nat
    BY <1>2, <1>3, TotalRemove
  <2> QED BY <1>4, <1>5, <2>1, LimitsAssumption
<1>7. c \in [Jobs -> Nat] /\ \A j \in Jobs : Claim(j) <= c[j]
  BY <1>2, <1>3 DEF Init, Claim
<1> QED BY <1>1, <1>2, <1>6, <1>7 DEF ClaimInv

\* The invariant of the quota: every step of the delegate keeps it.
QuotaInv(R, P) == IInv(R, P) /\ DisksInv /\ ClaimInv

\* Each step takes no more than it frees, or was let in by the quota check.
LEMMA QuotaKept ==
    ASSUME NEW R, NEW P, None \notin RowOf(R, P), QuotaInv(R, P),
           \/ JobStep
           \/ \E room \in R, payload \in P, S \in SUBSET Vanished :
                  /\ Admits(room, payload, S)
                  /\ Charged(Relabelled(S)) + reservation_bytes <= max_retained_bytes
    PROVE  QuotaInv(R, P)'
<1>1. CASE JobStep
  <2>1. IInv(R, P)' /\ DisksInv' /\ \A k \in Jobs : Claim(k)' <= Claim(k) /\ Claim(k)' \in Nat /\ Claim(k) \in Nat
    BY <1>1, StepKeepsInvariant, JobsCovered DEF QuotaInv
  <2>2. PICK c \in [Jobs -> Nat] : (\A j \in Jobs : Claim(j) <= c[j]) /\ Total(c, Jobs) <= max_retained_bytes
    BY DEF QuotaInv, ClaimInv
  <2>3. \A j \in Jobs : Claim(j)' <= c[j]
    BY <2>1, <2>2
  <2> QED BY <2>1, <2>2, <2>3 DEF QuotaInv, ClaimInv
<1> QED BY <1>1, SubmitStep, AdmissionCovers DEF QuotaInv

\* Whatever dies, what the jobs keep on disk stays inside the quota that admission checked
\* (admission, _finish, _refresh).
THEOREM QuotaHolds == Spec => []WithinQuota
<1>1. Init => QuotaInv(Rooms, Payloads)
  BY StartsRight, NothingClaimed DEF QuotaInv
<1>2. QuotaInv(Rooms, Payloads) /\ [Next]_vars => QuotaInv(Rooms, Payloads)'
  BY NoneIsApart, DeepseekSteps, QuotaKept
<1>3. QuotaInv(Rooms, Payloads) => WithinQuota
  BY ClaimsCoverDisk DEF QuotaInv
<1> QED BY <1>1, <1>2, <1>3, PTL DEF Spec

-----------------------------------------------------------------------------
(***************************************************************************)
(* The text delegate: one room, and the profile as a part of the payload.  *)
(***************************************************************************)
USE DEF Text!Job!NOT_STARTED, Text!Job!QUEUED, Text!Job!SUBMITTING, Text!Job!STREAMING, Text!Job!COMPLETED,
        Text!Job!TRUNCATED, Text!Job!REJECTED, Text!Job!FAILED_AFTER_SEND, Text!Job!ABANDONED_DEADLINE,
        Text!Job!ABANDONED_CANCELLED, Text!Job!UNKNOWN, Text!Job!ACTIVE_STATES, Text!Job!STOP_STATES,
        Text!Job!TERMINAL_STATES, Text!Job!UNBILLED

TextRooms == {FirstRoom}
TextPayloads == Payloads \X Profiles

\* It uses the code of the jobs under other names.
LEMMA SameCount == ASSUME NEW s PROVE Text!Job!Cardinality(s) = Cardinality(s)
  BY DEF Text!Job!Cardinality, Cardinality

\* The same rows are active, abandoned by their workers, and leased.
LEMMA SameLedger ==
    /\ Text!Job!Jobs = Jobs /\ Text!Job!Rows = Rows /\ Text!Job!active = active /\ Text!Job!Vanished = Vanished
    /\ Text!Job!Row = RowOf(TextRooms, TextPayloads)
<1>1. Text!Job!Jobs = Jobs
  BY DEF Text!Job!Jobs, Jobs
<1>2. Text!Job!Rows = Rows
  BY <1>1 DEF Text!Job!Rows, Rows
<1>3. Text!Job!active = active
  BY <1>2 DEF Text!Job!active, active
<1>4. \A j : Text!Job!leased(j) <=> leased(j)
  BY DEF Text!Job!leased, leased
<1>5. Text!Job!Vanished = Vanished
  BY <1>3, <1>4 DEF Text!Job!Vanished, Vanished
<1>6. Text!Job!Row = RowOf(TextRooms, TextPayloads)
  BY DEF Text!Job!Row, RowOf, TextRooms, TextPayloads
<1> QED BY <1>1, <1>2, <1>3, <1>5, <1>6

\* The same charges and labels.
LEMMA SameCharges ==
    ASSUME NEW j
    PROVE  /\ Text!Job!_retained(j) = _retained(j) /\ Text!Job!_export_bytes(j) = _export_bytes(j)
           /\ Text!Job!Evidence(j) = Evidence(j) /\ Text!Job!Label(j) = Label(j)
<1>1. Text!Job!_retained(j) = _retained(j) /\ Text!Job!_export_bytes(j) = _export_bytes(j)
  BY SameCount DEF Text!Job!_retained, _retained, Text!Job!_export_bytes, _export_bytes
<1>2. Text!Job!Label(j) = Label(j)
  BY DEF Text!Job!Label, Label
<1> QED BY <1>1, <1>2 DEF Text!Job!Evidence, Evidence

LEMMA SameClosed ==
    ASSUME NEW row, NEW state, NEW bytes, NEW path
    PROVE  Text!Job!Closed(row, state, bytes, path) = Closed(row, state, bytes, path)
  BY DEF Text!Job!Closed, Closed

LEMMA SameRelabelled ==
    ASSUME NEW S
    PROVE  Text!Job!Relabelled(S) = Relabelled(S)
  BY SameLedger, SameCharges, SameClosed DEF Text!Job!Relabelled, Relabelled

\* Its steps that are not its own are steps of the jobs.
LEMMA SameSteps ==
    ASSUME NEW j \in Jobs
    PROVE  /\ Text!Job!StoreRequest(j) => StoreRequest(j)
           /\ Text!Job!_spawn_worker(j) => _spawn_worker(j)
           /\ Text!Job!CommitSubmitting(j) => CommitSubmitting(j)
           /\ Text!Job!Connect(j) => Connect(j)
           /\ Text!Job!ConnectFails(j) => ConnectFails(j)
           /\ Text!Job!Send(j) => Send(j)
           /\ Text!Job!SendFails(j) => SendFails(j)
           /\ Text!Job!NoStream(j) => NoStream(j)
           /\ Text!Job!Respond(j) => Respond(j)
           /\ Text!Job!Link(j) => Link(j)
           /\ Text!Job!NoExport(j) => NoExport(j)
           /\ Text!Job!Durable(j) => Durable(j)
           /\ Text!Job!_rollback_export(j) => _rollback_export(j)
           /\ Text!Job!Cancel(j) => Cancel(j)
           /\ Text!Job!resolve_job(j) => resolve_job(j)
           /\ Text!Job!Provide(j) => Provide(j)
           /\ Text!Job!SubmissionDies(j) => SubmissionDies(j)
           /\ Text!Job!WorkerDies(j) => WorkerDies(j)
<1> USE DEF Text!Job!Worker, Worker, Text!Job!Gone, Gone, Text!Job!Ends, Ends
<1>1. Text!Job!StoreRequest(j) => StoreRequest(j)
  BY DEF Text!Job!StoreRequest, StoreRequest
<1>2. Text!Job!_spawn_worker(j) => _spawn_worker(j)
  BY DEF Text!Job!_spawn_worker, _spawn_worker
<1>3. Text!Job!CommitSubmitting(j) => CommitSubmitting(j)
  BY DEF Text!Job!CommitSubmitting, CommitSubmitting
<1>4. Text!Job!Connect(j) => Connect(j)
  BY DEF Text!Job!Connect, Connect
<1>5. Text!Job!ConnectFails(j) => ConnectFails(j)
  BY DEF Text!Job!ConnectFails, ConnectFails
<1>6. Text!Job!Send(j) => Send(j)
  BY DEF Text!Job!Send, Send
<1>7. Text!Job!SendFails(j) => SendFails(j)
  BY DEF Text!Job!SendFails, SendFails
<1>8. Text!Job!NoStream(j) => NoStream(j)
  BY DEF Text!Job!NoStream, NoStream
<1>9. Text!Job!Respond(j) => Respond(j)
  BY DEF Text!Job!Respond, Respond
<1>10. Text!Job!Link(j) => Link(j)
  BY DEF Text!Job!Link, Link
<1>11. Text!Job!NoExport(j) => NoExport(j)
  BY DEF Text!Job!NoExport, NoExport
<1>12. Text!Job!Durable(j) => Durable(j)
  BY DEF Text!Job!Durable, Durable
<1>13. Text!Job!_rollback_export(j) => _rollback_export(j)
  BY DEF Text!Job!_rollback_export, _rollback_export
<1>14. Text!Job!Cancel(j) => Cancel(j)
  BY SameLedger DEF Text!Job!Cancel, Cancel
<1>15. Text!Job!resolve_job(j) => resolve_job(j)
  BY SameLedger DEF Text!Job!resolve_job, resolve_job
<1>16. Text!Job!Provide(j) => Provide(j)
  BY DEF Text!Job!Provide, Provide
<1>17. Text!Job!SubmissionDies(j) => SubmissionDies(j)
  BY DEF Text!Job!SubmissionDies, SubmissionDies
<1>18. Text!Job!WorkerDies(j) => WorkerDies(j)
  BY DEF Text!Job!WorkerDies, WorkerDies
<1> QED BY <1>1, <1>2, <1>3, <1>4, <1>5, <1>6, <1>7, <1>8, <1>9, <1>10, <1>11, <1>12, <1>13, <1>14, <1>15,
           <1>16, <1>17, <1>18

LEMMA SameRefresh == Text!Job!Refresh => Refresh
  BY SameLedger, SameRelabelled DEF Text!Job!Refresh, Refresh

LEMMA SameFinish ==
    ASSUME NEW j \in Jobs, Text!Job!_finish(j)
    PROVE  _finish(j)
  BY SameCharges, SameClosed DEF Text!Job!_finish, _finish, Text!Job!Worker, Worker, Text!Job!Gone, Gone

LEMMA SameSubmitFails ==
    ASSUME NEW j \in Jobs, Text!Job!SubmitFails(j)
    PROVE  SubmitFails(j)
  BY SameCount, SameClosed DEF Text!Job!SubmitFails, SubmitFails

\* Its submissions are admissions under the profile the server has read.
LEMMA SameSubmit ==
    ASSUME NEW room, NEW payload, NEW diagnosis, Text!Job!Submit(room, payload, diagnosis)
    PROVE  \E S \in SUBSET Vanished : Admits(room, payload, S)
<1>1. PICK S \in SUBSET Text!Job!Vanished :
         LET led == Text!Job!Relabelled(S)
             j == Text!Job!Count(led) + 1
         IN  /\ Text!Job!Admitted(led, room, payload, diagnosis)
             /\ jobs' = [led EXCEPT ![j] = Text!Job!Queued(room, payload)]
             /\ sub' = [sub EXCEPT ![j] = "store"]
             /\ UNCHANGED <<resolutions, work, files, cancel, remote, deaths>>
  BY DEF Text!Job!Submit
<1>2. PICK led : led = Relabelled(S)
  OBVIOUS
<1>3. Text!Job!Relabelled(S) = led /\ S \in SUBSET Vanished
  BY <1>1, <1>2, SameRelabelled, SameLedger
<1>4. Text!Job!Count(led) = Count(led)
  BY SameCount, SameLedger DEF Text!Job!Count, Count
<1>5. Text!Job!Queued(room, payload) = Queued(room, payload)
  BY DEF Text!Job!Queued, Queued, Text!Job!reservation_bytes, reservation_bytes
<1>6. Text!Job!Admitted(led, room, payload, diagnosis)
  BY <1>1, <1>3
<1>7. Count(led) < max_jobs
  BY <1>4, <1>6 DEF Text!Job!Admitted
<1>8. ASSUME NEW k \in In(led, room), led[k].payload = payload PROVE led[k].state \in UNBILLED
  <2>1. k \in Text!Job!In(led, room)
    BY SameLedger DEF Text!Job!In, In
  <2> QED BY <1>6, <1>8, <2>1 DEF Text!Job!Admitted, Text!Job!Repeatable
<1>9. /\ jobs' = [led EXCEPT ![Count(led) + 1] = Queued(room, payload)]
      /\ sub' = [sub EXCEPT ![Count(led) + 1] = "store"]
      /\ UNCHANGED <<resolutions, work, files, cancel, remote, deaths>>
  BY <1>1, <1>3, <1>4, <1>5
<1> QED BY <1>2, <1>3, <1>7, <1>8, <1>9 DEF Admits

-----------------------------------------------------------------------------
\* A request that is about to leave, or has left, does so under the profile of its row.
Sending(k) == work[k].at \in {"connect", "send"} \/ remote[k] # "unsent"
RanInv ==
    /\ profile \in Profiles /\ serves \in [TextRooms -> Profiles] /\ ran \in [Jobs -> Profiles \cup {None}]
    /\ \A k \in Jobs : Sending(k) => ran[k] = jobs[k].payload[2]
TextInv == IInv(TextRooms, TextPayloads) /\ RanInv

\* No other job begins to send.
NoneSends == \A k \in Jobs : Sending(k)' => Sending(k)

\* Only the commit of submitting lets a worker send.
LEMMA OnlySubmittingSends ==
    ASSUME NEW R, NEW P, None \notin RowOf(R, P), IInv(R, P), NEW j \in Jobs,
           \/ StoreRequest(j) \/ _spawn_worker(j) \/ SubmitFails(j)
           \/ Unsent(j) \/ Connect(j) \/ ConnectFails(j) \/ Send(j) \/ SendFails(j)
           \/ NoStream(j) \/ Respond(j) \/ Consume(j)
           \/ Link(j) \/ NoExport(j) \/ Durable(j) \/ _rollback_export(j) \/ _finish(j)
           \/ Cancel(j) \/ resolve_job(j) \/ Provide(j) \/ SubmissionDies(j) \/ WorkerDies(j)
    PROVE  NoneSends
<1>1. Types(R, P)
  BY DEF IInv
<1>2. ASSUME NEW k \in Jobs, k # j PROVE work'[k] = work[k] /\ remote'[k] = remote[k]
  <2>1. work'[k] = work[k]
    BY <1>1, <1>2 DEF Types, StoreRequest, _spawn_worker, SubmitFails, Unsent, Connect, ConnectFails, Send, SendFails,
       NoStream, Respond, Consume, Link, NoExport, Durable, _rollback_export, _finish, Cancel, resolve_job, Provide,
       SubmissionDies, WorkerDies, Ends
  <2>2. remote'[k] = remote[k]
    BY <1>1, <1>2 DEF Types, StoreRequest, _spawn_worker, SubmitFails, Unsent, Connect, ConnectFails, Send, SendFails,
       NoStream, Respond, Consume, Link, NoExport, Durable, _rollback_export, _finish, Cancel, resolve_job, Provide,
       SubmissionDies, WorkerDies, Ends
  <2> QED BY <2>1, <2>2
<1>3. Sending(j)' => Sending(j)
  <2>1. CASE UNCHANGED <<work, remote>>
    BY <2>1 DEF Sending
  <2>2. CASE \/ _spawn_worker(j) \/ Unsent(j) \/ ConnectFails(j) \/ NoStream(j) \/ Respond(j) \/ Consume(j)
             \/ Link(j) \/ NoExport(j) \/ Durable(j) \/ _rollback_export(j) \/ _finish(j) \/ WorkerDies(j)
    <3>1. work'[j].at \notin {"connect", "send"}
      BY <1>1, <2>2 DEF Types, _spawn_worker, Unsent, ConnectFails, NoStream, Respond, Consume, Link, NoExport,
         Durable, _rollback_export, _finish, WorkerDies, Ends, Gone, Worker
    <3>2. UNCHANGED remote
      BY <2>2 DEF _spawn_worker, Unsent, ConnectFails, NoStream, Respond, Consume, Link, NoExport,
         Durable, _rollback_export, _finish, WorkerDies
    <3> QED BY <3>1, <3>2 DEF Sending
  <2>3. CASE Connect(j) \/ Send(j) \/ SendFails(j)
    BY <2>3 DEF Connect, Send, SendFails, Sending
  <2>4. CASE Provide(j)
    BY <2>4 DEF Provide, Sending
  <2>5. CASE StoreRequest(j) \/ SubmitFails(j) \/ Cancel(j) \/ resolve_job(j) \/ SubmissionDies(j)
    BY <2>1, <2>5 DEF StoreRequest, SubmitFails, Cancel, resolve_job, SubmissionDies
  <2> QED BY <2>2, <2>3, <2>4, <2>5
<1> QED BY <1>2, <1>3 DEF NoneSends, Sending

\* The commit of submitting concerns one worker, which has read the profile of the row.
LEMMA SubmittingSends ==
    ASSUME NEW R, NEW P, None \notin RowOf(R, P), IInv(R, P), NEW j \in Jobs, CommitSubmitting(j),
           jobs[j].state = QUEUED => ran[j] = jobs[j].payload[2]
    PROVE  \A k \in Jobs : Sending(k)' => Sending(k) \/ (k \in Rows /\ ran[k] = jobs[k].payload[2])
<1>1. Types(R, P) /\ JobInv(j)
  BY DEF IInv
<1>2. jobs[j].state = QUEUED /\ j \in Rows
  BY <1>1 DEF CommitSubmitting, JobInv, LeaseInv, Idle, Worker, Rows
<1>3. ASSUME NEW k \in Jobs, k # j PROVE work'[k] = work[k] /\ remote'[k] = remote[k]
  BY <1>1, <1>2, <1>3 DEF Types, CommitSubmitting
<1> QED BY <1>2, <1>3 DEF Sending

\* Such a step keeps the profile of what is sent.
LEMMA RanKept ==
    ASSUME RanInv, None \notin RowOf(TextRooms, TextPayloads), IInv(TextRooms, TextPayloads),
           RowsKept, UNCHANGED <<profile, serves, ran>>,
           \A k \in Jobs : Sending(k)' => Sending(k) \/ (k \in Rows /\ ran[k] = jobs[k].payload[2])
    PROVE  RanInv'
<1>1. ASSUME NEW k \in Jobs, Sending(k)' PROVE ran'[k] = jobs'[k].payload[2]
  <2>1. k \in Rows /\ ran[k] = jobs[k].payload[2]
    <3>1. Sending(k) => k \in Rows
      BY DEF IInv, JobInv, LeaseInv, Idle, Worker, Rows, Sending
    <3> QED BY <1>1, <3>1 DEF RanInv
  <2>2. jobs'[k].payload = jobs[k].payload
    BY <2>1 DEF RowsKept
  <2> QED BY <2>1, <2>2
<1> QED BY <1>1 DEF RanInv

\* Every step of the text delegate keeps the profile of what is sent.
LEMMA TextKeeps == TextInv /\ [Text!Next]_(Text!vars) => TextInv'
<1> SUFFICES ASSUME TextInv, [Text!Next]_(Text!vars) PROVE TextInv'
  OBVIOUS
<1>1. /\ None \notin RowOf(TextRooms, TextPayloads) /\ IInv(TextRooms, TextPayloads) /\ RanInv
  BY TextNone, SameLedger DEF TextInv
<1>2. CASE UNCHANGED Text!vars
  <2>1. UNCHANGED vars /\ UNCHANGED <<profile, serves, ran>>
    BY <1>2 DEF Text!vars, Text!job, vars
  <2>2. IInv(TextRooms, TextPayloads)'
    BY <1>1, <2>1, StepKeepsInvariant DEF JobStep
  <2>3. RanInv'
    BY <1>1, <2>1 DEF RanInv, Sending, vars
  <2> QED BY <2>2, <2>3 DEF TextInv
<1>3. ASSUME JobStep, UNCHANGED <<profile, serves, ran>>, NoneSends
      PROVE  TextInv'
  <2>1. IInv(TextRooms, TextPayloads)' /\ RowsKept
    BY <1>1, <1>3, StepKeepsInvariant
  <2>2. RanInv'
    BY <1>1, <1>3, <2>1, RanKept DEF NoneSends
  <2> QED BY <2>1, <2>2 DEF TextInv
<1>4. ASSUME UNCHANGED vars, RanInv' PROVE TextInv'
  <2>1. IInv(TextRooms, TextPayloads)'
    BY <1>1, <1>4, StepKeepsInvariant DEF JobStep
  <2> QED BY <1>4, <2>1 DEF TextInv
<1>5. ASSUME NEW room \in TextRooms, NEW content \in Payloads, NEW diagnosis \in BOOLEAN,
             Text!submit(room, content, diagnosis)
      PROVE  TextInv'
  <2>1. PICK payload \in TextPayloads : payload = <<content, serves[room]>>
    BY <1>1 DEF RanInv, TextPayloads
  <2>2. Text!Job!Submit(room, payload, diagnosis) /\ UNCHANGED <<profile, serves, ran>>
    BY <1>5, <2>1 DEF Text!submit, Text!Keeps
  <2>3. PICK S \in SUBSET Vanished : Admits(room, payload, S)
    BY <2>2, SameSubmit
  <2>4. IInv(TextRooms, TextPayloads)' /\ RowsKept
    BY <1>1, <2>3, SubmitStep
  <2>5. UNCHANGED <<work, remote>>
    BY <2>3 DEF Admits
  <2>6. \A k \in Jobs : Sending(k)' => Sending(k)
    BY <2>5 DEF Sending
  <2>7. RanInv'
    BY <1>1, <2>2, <2>4, <2>6, RanKept
  <2> QED BY <2>4, <2>7 DEF TextInv
<1>6. ASSUME Text!_refresh PROVE TextInv'
  <2>1. Refresh /\ UNCHANGED <<profile, serves, ran>>
    BY <1>6, SameRefresh DEF Text!_refresh, Text!Keeps
  <2>2. NoneSends
    BY <2>1 DEF Refresh, NoneSends, Sending
  <2> QED BY <1>3, <2>1, <2>2 DEF JobStep
<1>7. ASSUME NEW j \in Jobs,
             \/ StoreRequest(j) \/ _spawn_worker(j) \/ SubmitFails(j)
             \/ Unsent(j) \/ Connect(j) \/ ConnectFails(j) \/ Send(j) \/ SendFails(j)
             \/ NoStream(j) \/ Respond(j) \/ Consume(j)
             \/ Link(j) \/ NoExport(j) \/ Durable(j) \/ _rollback_export(j) \/ _finish(j)
             \/ Cancel(j) \/ resolve_job(j) \/ Provide(j) \/ SubmissionDies(j) \/ WorkerDies(j),
             Text!Keeps
      PROVE  TextInv'
  <2>1. NoneSends
    BY <1>1, <1>7, OnlySubmittingSends
  <2>2. JobStep
    BY <1>7 DEF JobStep, Submission, run_worker
  <2>3. UNCHANGED <<profile, serves, ran>>
    BY <1>7 DEF Text!Keeps
  <2> QED BY <1>3, <2>1, <2>2, <2>3
<1>8. ASSUME NEW j \in Jobs, Text!Submission(j) PROVE TextInv'
  <2>1. (StoreRequest(j) \/ _spawn_worker(j) \/ SubmitFails(j)) /\ Text!Keeps
    BY <1>8, SameSteps, SameSubmitFails DEF Text!Submission, Text!StoreRequest, Text!_spawn_worker, Text!SubmitFails
  <2> QED BY <1>7, <2>1
<1>9. ASSUME NEW j \in Jobs, Text!Adapter(j) PROVE TextInv'
  <2>1. /\ work[j].at = "start" /\ ran' = [ran EXCEPT ![j] = profile]
        /\ UNCHANGED vars /\ UNCHANGED <<profile, serves>>
    BY <1>9 DEF Text!Adapter, Text!job, vars
  <2>2. ~Sending(j)
    BY <1>1, <2>1 DEF IInv, JobInv, LeaseInv, WireInv, Sending, Idle, Worker
  <2>3. ASSUME NEW k \in Jobs, Sending(k)' PROVE ran'[k] = jobs'[k].payload[2]
    <3>1. Sending(k) /\ jobs' = jobs
      BY <2>1, <2>3 DEF vars, Sending
    <3>2. ran'[k] = ran[k]
      BY <1>1, <2>1, <2>2, <3>1 DEF RanInv
    <3> QED BY <1>1, <3>1, <3>2 DEF RanInv
  <2>4. RanInv'
    BY <1>1, <2>1, <2>3 DEF RanInv
  <2> QED BY <1>4, <2>1, <2>4
<1>10. ASSUME NEW j \in Jobs, Text!CommitSubmitting(j) PROVE TextInv'
  <2>1. /\ CommitSubmitting(j)
        /\ jobs[j].state = QUEUED => ran[j] = jobs[j].payload[2]
        /\ UNCHANGED <<profile, serves, ran>>
    BY <1>10, SameSteps DEF Text!CommitSubmitting, Text!admitted_under, Text!Keeps
  <2>2. IInv(TextRooms, TextPayloads)' /\ RowsKept
    BY <1>1, <2>1, StepKeepsInvariant DEF JobStep, run_worker
  <2>3. \A k \in Jobs : Sending(k)' => Sending(k) \/ (k \in Rows /\ ran[k] = jobs[k].payload[2])
    BY <1>1, <2>1, SubmittingSends
  <2>4. RanInv'
    BY <1>1, <2>1, <2>2, <2>3, RanKept
  <2> QED BY <2>2, <2>4 DEF TextInv
<1>11. ASSUME NEW j \in Jobs, Text!_unsent(j) PROVE TextInv'
  <2>1. Unsent(j) /\ Text!Keeps
    BY <1>11 DEF Text!_unsent, Text!started, Text!Ends, Text!Move, Text!Job!Worker, Unsent, Ends, Worker
  <2> QED BY <1>7, <2>1
<1>12. ASSUME NEW j \in Jobs, Text!_consume(j) PROVE TextInv'
  <2>1. Consume(j) /\ Text!Keeps
    BY <1>12 DEF Text!_consume, Text!StreamError, Text!Ends, Text!Move, Text!Job!Worker, Consume, Ends, Worker
  <2> QED BY <1>7, <2>1
<1>13. ASSUME NEW j \in Jobs,
              \/ Text!_execute(j) \/ Text!on_response(j) \/ Text!_publish(j) \/ Text!_rollback_export(j) \/ Text!_finish(j)
       PROVE  TextInv'
  <2>1. /\ \/ Connect(j) \/ ConnectFails(j) \/ Send(j) \/ SendFails(j) \/ NoStream(j) \/ Respond(j)
           \/ Link(j) \/ NoExport(j) \/ Durable(j) \/ _rollback_export(j) \/ _finish(j)
        /\ Text!Keeps
    BY <1>13, SameSteps, SameFinish DEF Text!_execute, Text!on_response, Text!_publish, Text!_rollback_export, Text!_finish
  <2> QED BY <1>7, <2>1
<1>14. ASSUME NEW j \in Jobs, Text!Cancel(j) \/ Text!resolve_job(j) \/ Text!Beyond(j) PROVE TextInv'
  <2>1. (Cancel(j) \/ resolve_job(j) \/ Provide(j) \/ SubmissionDies(j) \/ WorkerDies(j)) /\ Text!Keeps
    BY <1>14, SameSteps DEF Text!Cancel, Text!resolve_job, Text!Beyond
  <2> QED BY <1>7, <2>1
<1>15. ASSUME NEW room \in TextRooms, Text!serve(room) PROVE TextInv'
  <2>1. /\ serves' = [serves EXCEPT ![room] = profile] /\ UNCHANGED vars /\ UNCHANGED <<profile, ran>>
    BY <1>15 DEF Text!serve, Text!job, vars
  <2>2. RanInv'
    BY <1>1, <2>1 DEF RanInv, Sending, vars
  <2> QED BY <1>4, <2>1, <2>2
<1>16. ASSUME Text!Edit PROVE TextInv'
  <2>1. /\ profile' \in Profiles /\ UNCHANGED vars /\ UNCHANGED <<serves, ran>>
    BY <1>16 DEF Text!Edit, Text!job, vars
  <2>2. RanInv'
    BY <1>1, <2>1 DEF RanInv, Sending, vars
  <2> QED BY <1>4, <2>1, <2>2
<1>17. ASSUME NEW j \in Jobs, Text!run_worker(j) PROVE TextInv'
  BY <1>9, <1>10, <1>11, <1>12, <1>13, <1>17 DEF Text!run_worker
<1> QED BY <1>2, <1>5, <1>6, <1>8, <1>14, <1>15, <1>16, <1>17, SameLedger DEF Text!Next, TextRooms

\* The text delegate at rest.
LEMMA TextStarts == Text!Init => TextInv
<1> SUFFICES ASSUME Text!Init PROVE TextInv
  OBVIOUS
<1>1. Init
  BY SameLedger DEF Text!Init, Text!Job!Init, Init, Text!Job!Idle, Text!Job!Worker, Idle, Worker
<1>2. IInv(TextRooms, TextPayloads)
  BY <1>1, StartsRight
<1>3. profile \in Profiles /\ serves = [room \in TextRooms |-> profile] /\ ran = [j \in Jobs |-> None]
  BY SameLedger DEF Text!Init, TextRooms
<1>4. \A k \in Jobs : ~Sending(k)
  BY <1>1 DEF Init, Sending, Idle, Worker
<1> QED BY <1>2, <1>3, <1>4 DEF TextInv, RanInv

\* What is kept is what was promised.
LEMMA TextSays == TextInv => Text!SentUnderOwnProfile
  BY SameLedger DEF TextInv, RanInv, Sending, Text!SentUnderOwnProfile, Text!admitted_under, Rows

\* A request leaves only under the profile its room asked for, however the file is edited,
\* the server restarted and the worker delayed in between (run_worker).
THEOREM SentAsAdmitted == Text!Spec => []Text!SentUnderOwnProfile
BY TextStarts, TextKeeps, TextSays, PTL DEF Text!Spec

-----------------------------------------------------------------------------
\* The delegate that a behaviour explores keeps its invariant.
DelegatesInv ==
    /\ of \in {"deepseek", "text"}
    /\ of = "deepseek" => QuotaInv(Rooms, Payloads)
    /\ of = "text" => TextInv

LEMMA DelegatesStart == MCInit => DelegatesInv
  BY StartsRight, NothingClaimed, TextStarts DEF MCInit, QuotaInv, DelegatesInv

\* Each delegate makes its own steps.
LEMMA DelegatesKept == DelegatesInv /\ [MCNext]_MCvars => DelegatesInv'
<1> SUFFICES ASSUME DelegatesInv, [MCNext]_MCvars PROVE DelegatesInv'
  OBVIOUS
<1>1. of' = of
  BY DEF MCNext, MCvars, Deepseek, TextOnly
<1>2. CASE of = "deepseek"
  <2>1. [Next]_vars
    BY <1>2 DEF MCNext, MCvars, Deepseek, TextOnly
  <2>2. QuotaInv(Rooms, Payloads)
    BY <1>2 DEF DelegatesInv
  <2>3. QuotaInv(Rooms, Payloads)'
    BY <2>1, <2>2, NoneIsApart, DeepseekSteps, QuotaKept
  <2> QED BY <1>1, <1>2, <2>3 DEF DelegatesInv
<1>3. CASE of = "text"
  <2>1. [Text!Next]_(Text!vars)
    BY <1>3 DEF MCNext, MCvars, Deepseek, TextOnly, Text!vars, Text!job, vars, extra
  <2>2. TextInv
    BY <1>3 DEF DelegatesInv
  <2>3. TextInv'
    BY <2>1, <2>2, TextKeeps
  <2> QED BY <1>1, <1>3, <2>3 DEF DelegatesInv
<1> QED BY <1>1, <1>2, <1>3 DEF DelegatesInv

\* Whatever dies, the files of the DeepSeek delegate's jobs stay in the quota, and the text
\* delegate sends under the profile that its row was admitted with (submit, run_worker).
THEOREM GrantsKept == MCSpec => []WithinGrant
<1>1. DelegatesInv => WithinGrant
  <2> SUFFICES ASSUME DelegatesInv PROVE WithinGrant
    OBVIOUS
  <2>1. of = "deepseek" => WithinQuota
    BY ClaimsCoverDisk DEF DelegatesInv, QuotaInv
  <2>2. of = "text" => Text!SentUnderOwnProfile
    BY TextSays DEF DelegatesInv
  <2> QED BY <2>1, <2>2 DEF WithinGrant
<1> QED BY <1>1, DelegatesStart, DelegatesKept, PTL DEF MCSpec

\* Both delegates, whichever it is: nothing billed is recorded as unbilled, nothing is paid
\* twice, and completed answers can be read.
THEOREM BothDelegates == MCSpec => [](BillingTruthful /\ PaidOnce /\ AnswerServed)
<1>1. DelegatesInv => BillingTruthful /\ PaidOnce /\ AnswerServed
  BY InvariantSays DEF DelegatesInv, QuotaInv, TextInv
<1> QED BY <1>1, DelegatesStart, DelegatesKept, PTL DEF MCSpec
=============================================================================
