--------------------------- MODULE AoLocks_proof ---------------------------
(***************************************************************************)
(* For any set of processes, rooms and record names: no operation works    *)
(* from a state.json another process rewrote, and every live holder can be *)
(* named by a diagnosis.                                                   *)
(***************************************************************************)
EXTENDS AoLocks, TLAPS

\* Steps between the grant of the adapter lock and the cleanup.
Holding == {"create", "publish", "room", "body"}

\* Each process makes a legal call and holds what its step requires.
HoldsInv ==
    \A p \in Procs :
        /\ op[p] \in Calls
        /\ pc[p] \in Holding => adapter[p] = op[p].mode
        /\ pc[p] = "body" /\ op[p].room # None => roomLock[op[p].room] = p

\* An exclusive holder of the adapter lock is its only holder.
AdapterInv ==
    \A p, q \in Procs : p # q /\ adapter[p] = "EX" => adapter[q] = "none"

\* A record belongs to one process, is flocked by it while it is live, and
\* whoever is removing it found its owner past its close.
RecordInv ==
    \A p \in Procs :
        /\ pc[p] \in {"publish", "room", "body"} =>
              name[p] \in Names /\ fileLock[name[p]] = p
        /\ pc[p] \in {"room", "body"} => name[p] \in published
        /\ name[p] # None => pc[p] \in {"publish", "room", "body", "closed"}
        /\ \A q \in Procs : name[p] # None =>
              /\ name[p] = name[q] => p = q
              /\ name[p] = probe[q] => pc[p] = "closed"

LocksInv == TypeOK /\ HoldsInv /\ AdapterInv /\ RecordInv /\ SnapshotFresh

\* The initial state satisfies the invariant.
LEMMA InitInv == Init => LocksInv
BY NoneAssumption, CrashAssumption
   DEF Init, LocksInv, TypeOK, HoldsInv, AdapterInv, RecordInv, SnapshotFresh,
       Idle, Call, Calls, Steps, Holding

\* No step gives a variable a value outside its type.
LEMMA TypeStep ==
    ASSUME TypeOK, RecordInv, [Next]_vars
    PROVE  TypeOK'
<1> USE DEF TypeOK, Call, Calls, Steps, lockVars, fileVars, diagVars, Idle
<1>1. ASSUME NEW p \in Procs, NEW o \in Calls, Begin(p, o) PROVE TypeOK'
  BY <1>1 DEF Begin, Goto
<1>2. ASSUME NEW p \in Procs, TakeTurnstile(p) PROVE TypeOK'
  BY <1>2 DEF TakeTurnstile, Goto
<1>3. ASSUME NEW p \in Procs, TakeAdapter(p) PROVE TypeOK'
  BY <1>3 DEF TakeAdapter, AdapterFree, Goto
<1>4. ASSUME NEW p \in Procs, NEW n \in Names, CreateRecord(p, n) PROVE TypeOK'
  BY <1>4 DEF CreateRecord, FreshName, Goto
<1>5. ASSUME NEW p \in Procs, PublishRecord(p) PROVE TypeOK'
  <2>1. name[p] \in Names
    BY <1>5 DEF PublishRecord, RecordInv
  <2>2. QED
    BY <1>5, <2>1 DEF PublishRecord, Goto
<1>6. ASSUME NEW p \in Procs, UnknownRoom(p) PROVE TypeOK'
  BY <1>6 DEF UnknownRoom, Goto
<1>7. ASSUME NEW p \in Procs, TakeRoom(p) PROVE TypeOK'
  BY <1>7 DEF TakeRoom, RoomFree, Goto
<1>8. ASSUME NEW p \in Procs, Save(p) PROVE TypeOK'
  BY <1>8 DEF Save, Readers, Goto
<1>9. ASSUME NEW p \in Procs, NEW r \in Rooms, OpenRoom(p, r) PROVE TypeOK'
  BY <1>9 DEF OpenRoom, Readers, Goto
<1>10. ASSUME NEW p \in Procs, Leave(p) PROVE TypeOK'
  BY <1>10 DEF Leave, Goto
<1>11. ASSUME NEW p \in Procs, Unlink(p) PROVE TypeOK'
  BY <1>11 DEF Unlink, Goto
<1>12. ASSUME NEW p \in Procs, ReleaseRoom(p) PROVE TypeOK'
  BY <1>12 DEF ReleaseRoom, Goto
<1>13. ASSUME NEW p \in Procs, ReleaseAdapter(p) PROVE TypeOK'
  BY <1>13 DEF ReleaseAdapter, Goto
<1>14. ASSUME NEW p \in Procs, Timeout(p) PROVE TypeOK'
  BY <1>14 DEF Timeout, LockUnavailable, Goto
<1>15. ASSUME NEW p \in Procs, NEW n \in Names, DiagnoseGone(p, n) PROVE TypeOK'
  BY <1>15 DEF DiagnoseGone, Inspect, Goto
<1>16. ASSUME NEW p \in Procs, NEW n \in Names, DiagnoseHeld(p, n) PROVE TypeOK'
  <2>1. PICK b \in BOOLEAN : b = (name[fileLock[n]] = n)
    BY Zenon
  <2>2. verdicts' \in [Procs -> SUBSET [file : Names, current : BOOLEAN]]
    <3>1. verdicts' = [verdicts EXCEPT ![p] = @ \cup {[file |-> n, current |-> b]}]
      BY <1>16, <2>1, Zenon DEF DiagnoseHeld
    <3>2. QED
      BY <3>1
  <2>3. QED
    BY <1>16, <2>2 DEF DiagnoseHeld, Inspect
<1>17. ASSUME NEW p \in Procs, NEW n \in Names, DiagnoseClaim(p, n) PROVE TypeOK'
  BY <1>17 DEF DiagnoseClaim, Inspect, Goto
<1>18. ASSUME NEW p \in Procs, DiagnoseUnlock(p) PROVE TypeOK'
  BY <1>18 DEF DiagnoseUnlock, Goto
<1>19. ASSUME NEW p \in Procs, DiagnoseUnlink(p) PROVE TypeOK'
  BY <1>19 DEF DiagnoseUnlink, Goto
<1>20. ASSUME NEW p \in Procs, DiagnoseDone(p) PROVE TypeOK'
  BY <1>20 DEF DiagnoseDone, Goto
<1>21. ASSUME NEW p \in Procs, Crash(p) PROVE TypeOK'
  BY <1>21 DEF Crash, Goto
<1>22. CASE UNCHANGED vars
  BY <1>22 DEF vars
<1>23. QED
  BY <1>1, <1>2, <1>3, <1>4, <1>5, <1>6, <1>7, <1>8, <1>9, <1>10, <1>11, <1>12, <1>13, <1>14, <1>15, <1>16, <1>17, <1>18, <1>19, <1>20, <1>21, <1>22
     DEF Next, Acquire, Finish, Diagnose

\* A process holds the locks its step requires.
LEMMA HoldsStep ==
    ASSUME TypeOK, HoldsInv, RecordInv, [Next]_vars
    PROVE  HoldsInv'
<1> USE NoneAssumption DEF TypeOK, HoldsInv, RecordInv, Call, Calls, Holding, lockVars, fileVars, diagVars, Idle
<1>1. ASSUME NEW p \in Procs, NEW o \in Calls, Begin(p, o) PROVE HoldsInv'
  BY <1>1 DEF Begin, Goto
<1>2. ASSUME NEW p \in Procs, TakeTurnstile(p) PROVE HoldsInv'
  BY <1>2 DEF TakeTurnstile, Goto
<1>3. ASSUME NEW p \in Procs, TakeAdapter(p) PROVE HoldsInv'
  BY <1>3 DEF TakeAdapter, AdapterFree, Goto
<1>4. ASSUME NEW p \in Procs, NEW n \in Names, CreateRecord(p, n) PROVE HoldsInv'
  BY <1>4 DEF CreateRecord, FreshName, Goto
<1>5. ASSUME NEW p \in Procs, PublishRecord(p) PROVE HoldsInv'
  BY <1>5 DEF PublishRecord, Goto
<1>6. ASSUME NEW p \in Procs, UnknownRoom(p) PROVE HoldsInv'
  BY <1>6 DEF UnknownRoom, Goto
<1>7. ASSUME NEW p \in Procs, TakeRoom(p) PROVE HoldsInv'
  BY <1>7 DEF TakeRoom, RoomFree, Goto
<1>8. ASSUME NEW p \in Procs, Save(p) PROVE HoldsInv'
  BY <1>8 DEF Save, Readers, Goto
<1>9. ASSUME NEW p \in Procs, NEW r \in Rooms, OpenRoom(p, r) PROVE HoldsInv'
  BY <1>9 DEF OpenRoom, Readers, Goto
<1>10. ASSUME NEW p \in Procs, Leave(p) PROVE HoldsInv'
  BY <1>10 DEF Leave, Goto
<1>11. ASSUME NEW p \in Procs, Unlink(p) PROVE HoldsInv'
  BY <1>11 DEF Unlink, Goto
<1>12. ASSUME NEW p \in Procs, ReleaseRoom(p) PROVE HoldsInv'
  BY <1>12 DEF ReleaseRoom, Goto
<1>13. ASSUME NEW p \in Procs, ReleaseAdapter(p) PROVE HoldsInv'
  BY <1>13 DEF ReleaseAdapter, Goto
<1>14. ASSUME NEW p \in Procs, Timeout(p) PROVE HoldsInv'
  BY <1>14 DEF Timeout, LockUnavailable, Goto
<1>15. ASSUME NEW p \in Procs, NEW n \in Names, DiagnoseGone(p, n) PROVE HoldsInv'
  BY <1>15 DEF DiagnoseGone, Inspect, Goto
<1>16. ASSUME NEW p \in Procs, NEW n \in Names, DiagnoseHeld(p, n) PROVE HoldsInv'
  BY <1>16 DEF DiagnoseHeld, Inspect, Goto
<1>17. ASSUME NEW p \in Procs, NEW n \in Names, DiagnoseClaim(p, n) PROVE HoldsInv'
  BY <1>17 DEF DiagnoseClaim, Inspect, Goto
<1>18. ASSUME NEW p \in Procs, DiagnoseUnlock(p) PROVE HoldsInv'
  BY <1>18 DEF DiagnoseUnlock, Goto
<1>19. ASSUME NEW p \in Procs, DiagnoseUnlink(p) PROVE HoldsInv'
  BY <1>19 DEF DiagnoseUnlink, Goto
<1>20. ASSUME NEW p \in Procs, DiagnoseDone(p) PROVE HoldsInv'
  BY <1>20 DEF DiagnoseDone, Goto
<1>21. ASSUME NEW p \in Procs, Crash(p) PROVE HoldsInv'
  BY <1>21 DEF Crash, Goto
<1>22. CASE UNCHANGED vars
  BY <1>22 DEF vars
<1>23. QED
  BY <1>1, <1>2, <1>3, <1>4, <1>5, <1>6, <1>7, <1>8, <1>9, <1>10, <1>11, <1>12, <1>13, <1>14, <1>15, <1>16, <1>17, <1>18, <1>19, <1>20, <1>21, <1>22
     DEF Next, Acquire, Finish, Diagnose

\* flock never grants an exclusive adapter lock beside another.
LEMMA AdapterStep ==
    ASSUME TypeOK, AdapterInv, [Next]_vars
    PROVE  AdapterInv'
<1> USE DEF TypeOK, AdapterInv, Call, lockVars, fileVars, diagVars
<1>1. ASSUME NEW p \in Procs, NEW o \in Calls, Begin(p, o) PROVE AdapterInv'
  BY <1>1 DEF Begin, Goto
<1>2. ASSUME NEW p \in Procs, TakeTurnstile(p) PROVE AdapterInv'
  BY <1>2 DEF TakeTurnstile, Goto
<1>3. ASSUME NEW p \in Procs, TakeAdapter(p) PROVE AdapterInv'
  BY <1>3 DEF TakeAdapter, AdapterFree, Goto
<1>4. ASSUME NEW p \in Procs, NEW n \in Names, CreateRecord(p, n) PROVE AdapterInv'
  BY <1>4 DEF CreateRecord, FreshName, Goto
<1>5. ASSUME NEW p \in Procs, PublishRecord(p) PROVE AdapterInv'
  BY <1>5 DEF PublishRecord, Goto
<1>6. ASSUME NEW p \in Procs, UnknownRoom(p) PROVE AdapterInv'
  BY <1>6 DEF UnknownRoom, Goto
<1>7. ASSUME NEW p \in Procs, TakeRoom(p) PROVE AdapterInv'
  BY <1>7 DEF TakeRoom, RoomFree, Goto
<1>8. ASSUME NEW p \in Procs, Save(p) PROVE AdapterInv'
  BY <1>8 DEF Save, Readers, Goto
<1>9. ASSUME NEW p \in Procs, NEW r \in Rooms, OpenRoom(p, r) PROVE AdapterInv'
  BY <1>9 DEF OpenRoom, Readers, Goto
<1>10. ASSUME NEW p \in Procs, Leave(p) PROVE AdapterInv'
  BY <1>10 DEF Leave, Goto
<1>11. ASSUME NEW p \in Procs, Unlink(p) PROVE AdapterInv'
  BY <1>11 DEF Unlink, Goto
<1>12. ASSUME NEW p \in Procs, ReleaseRoom(p) PROVE AdapterInv'
  BY <1>12 DEF ReleaseRoom, Goto
<1>13. ASSUME NEW p \in Procs, ReleaseAdapter(p) PROVE AdapterInv'
  BY <1>13 DEF ReleaseAdapter, Goto
<1>14. ASSUME NEW p \in Procs, Timeout(p) PROVE AdapterInv'
  BY <1>14 DEF Timeout, LockUnavailable, Goto
<1>15. ASSUME NEW p \in Procs, NEW n \in Names, DiagnoseGone(p, n) PROVE AdapterInv'
  BY <1>15 DEF DiagnoseGone, Inspect, Goto
<1>16. ASSUME NEW p \in Procs, NEW n \in Names, DiagnoseHeld(p, n) PROVE AdapterInv'
  BY <1>16 DEF DiagnoseHeld, Inspect, Goto
<1>17. ASSUME NEW p \in Procs, NEW n \in Names, DiagnoseClaim(p, n) PROVE AdapterInv'
  BY <1>17 DEF DiagnoseClaim, Inspect, Goto
<1>18. ASSUME NEW p \in Procs, DiagnoseUnlock(p) PROVE AdapterInv'
  BY <1>18 DEF DiagnoseUnlock, Goto
<1>19. ASSUME NEW p \in Procs, DiagnoseUnlink(p) PROVE AdapterInv'
  BY <1>19 DEF DiagnoseUnlink, Goto
<1>20. ASSUME NEW p \in Procs, DiagnoseDone(p) PROVE AdapterInv'
  BY <1>20 DEF DiagnoseDone, Goto
<1>21. ASSUME NEW p \in Procs, Crash(p) PROVE AdapterInv'
  BY <1>21 DEF Crash, Goto
<1>22. CASE UNCHANGED vars
  BY <1>22 DEF vars
<1>23. QED
  BY <1>1, <1>2, <1>3, <1>4, <1>5, <1>6, <1>7, <1>8, <1>9, <1>10, <1>11, <1>12, <1>13, <1>14, <1>15, <1>16, <1>17, <1>18, <1>19, <1>20, <1>21, <1>22
     DEF Next, Acquire, Finish, Diagnose

\* A live record is neither shared, nor unlocked, nor unlinked.
LEMMA RecordStep ==
    ASSUME TypeOK, RecordInv, [Next]_vars
    PROVE  RecordInv'
<1> USE NoneAssumption DEF TypeOK, RecordInv, lockVars, fileVars, diagVars
<1>1. ASSUME NEW p \in Procs, NEW o \in Calls, Begin(p, o) PROVE RecordInv'
  BY <1>1 DEF Begin, Goto
<1>2. ASSUME NEW p \in Procs, TakeTurnstile(p) PROVE RecordInv'
  BY <1>2 DEF TakeTurnstile, Goto
<1>3. ASSUME NEW p \in Procs, TakeAdapter(p) PROVE RecordInv'
  BY <1>3 DEF TakeAdapter, AdapterFree, Goto
<1>4. ASSUME NEW p \in Procs, NEW n \in Names, CreateRecord(p, n) PROVE RecordInv'
  BY <1>4 DEF CreateRecord, FreshName, Goto
<1>5. ASSUME NEW p \in Procs, PublishRecord(p) PROVE RecordInv'
  BY <1>5 DEF PublishRecord, Goto
<1>6. ASSUME NEW p \in Procs, UnknownRoom(p) PROVE RecordInv'
  BY <1>6 DEF UnknownRoom, Goto
<1>7. ASSUME NEW p \in Procs, TakeRoom(p) PROVE RecordInv'
  BY <1>7 DEF TakeRoom, RoomFree, Goto
<1>8. ASSUME NEW p \in Procs, Save(p) PROVE RecordInv'
  BY <1>8 DEF Save, Readers, Goto
<1>9. ASSUME NEW p \in Procs, NEW r \in Rooms, OpenRoom(p, r) PROVE RecordInv'
  BY <1>9 DEF OpenRoom, Readers, Goto
<1>10. ASSUME NEW p \in Procs, Leave(p) PROVE RecordInv'
  BY <1>10 DEF Leave, Goto
<1>11. ASSUME NEW p \in Procs, Unlink(p) PROVE RecordInv'
  BY <1>11 DEF Unlink, Goto
<1>12. ASSUME NEW p \in Procs, ReleaseRoom(p) PROVE RecordInv'
  BY <1>12 DEF ReleaseRoom, Goto
<1>13. ASSUME NEW p \in Procs, ReleaseAdapter(p) PROVE RecordInv'
  BY <1>13 DEF ReleaseAdapter, Goto
<1>14. ASSUME NEW p \in Procs, Timeout(p) PROVE RecordInv'
  BY <1>14 DEF Timeout, LockUnavailable, Goto
<1>15. ASSUME NEW p \in Procs, NEW n \in Names, DiagnoseGone(p, n) PROVE RecordInv'
  BY <1>15 DEF DiagnoseGone, Inspect, Goto
<1>16. ASSUME NEW p \in Procs, NEW n \in Names, DiagnoseHeld(p, n) PROVE RecordInv'
  BY <1>16 DEF DiagnoseHeld, Inspect, Goto
<1>17. ASSUME NEW p \in Procs, NEW n \in Names, DiagnoseClaim(p, n) PROVE RecordInv'
  BY <1>17 DEF DiagnoseClaim, Inspect, Goto
<1>18. ASSUME NEW p \in Procs, DiagnoseUnlock(p) PROVE RecordInv'
  BY <1>18 DEF DiagnoseUnlock, Goto
<1>19. ASSUME NEW p \in Procs, DiagnoseUnlink(p) PROVE RecordInv'
  BY <1>19 DEF DiagnoseUnlink, Goto
<1>20. ASSUME NEW p \in Procs, DiagnoseDone(p) PROVE RecordInv'
  BY <1>20 DEF DiagnoseDone, Goto
<1>21. ASSUME NEW p \in Procs, Crash(p) PROVE RecordInv'
  BY <1>21 DEF Crash, Goto
<1>22. CASE UNCHANGED vars
  BY <1>22 DEF vars
<1>23. QED
  BY <1>1, <1>2, <1>3, <1>4, <1>5, <1>6, <1>7, <1>8, <1>9, <1>10, <1>11, <1>12, <1>13, <1>14, <1>15, <1>16, <1>17, <1>18, <1>19, <1>20, <1>21, <1>22
     DEF Next, Acquire, Finish, Diagnose

\* A save or a new room never overtakes another body that read the state.
LEMMA FreshStep ==
    ASSUME TypeOK, HoldsInv, AdapterInv, SnapshotFresh, [Next]_vars
    PROVE  SnapshotFresh'
<1> USE NoneAssumption DEF TypeOK, HoldsInv, AdapterInv, SnapshotFresh, Holding, Calls, Call, lockVars, fileVars, diagVars
<1>1. ASSUME NEW p \in Procs, NEW o \in Calls, Begin(p, o) PROVE SnapshotFresh'
  BY <1>1 DEF Begin, Goto
<1>2. ASSUME NEW p \in Procs, TakeTurnstile(p) PROVE SnapshotFresh'
  BY <1>2 DEF TakeTurnstile, Goto
<1>3. ASSUME NEW p \in Procs, TakeAdapter(p) PROVE SnapshotFresh'
  BY <1>3 DEF TakeAdapter, AdapterFree, Goto
<1>4. ASSUME NEW p \in Procs, NEW n \in Names, CreateRecord(p, n) PROVE SnapshotFresh'
  BY <1>4 DEF CreateRecord, FreshName, Goto
<1>5. ASSUME NEW p \in Procs, PublishRecord(p) PROVE SnapshotFresh'
  BY <1>5 DEF PublishRecord, Goto
<1>6. ASSUME NEW p \in Procs, UnknownRoom(p) PROVE SnapshotFresh'
  BY <1>6 DEF UnknownRoom, Goto
<1>7. ASSUME NEW p \in Procs, TakeRoom(p) PROVE SnapshotFresh'
  BY <1>7 DEF TakeRoom, RoomFree, Goto
<1>8. ASSUME NEW p \in Procs, Save(p) PROVE SnapshotFresh'
  BY <1>8 DEF Save, Readers, Goto
<1>9. ASSUME NEW p \in Procs, NEW r \in Rooms, OpenRoom(p, r) PROVE SnapshotFresh'
  BY <1>9 DEF OpenRoom, Readers, Goto
<1>10. ASSUME NEW p \in Procs, Leave(p) PROVE SnapshotFresh'
  BY <1>10 DEF Leave, Goto
<1>11. ASSUME NEW p \in Procs, Unlink(p) PROVE SnapshotFresh'
  BY <1>11 DEF Unlink, Goto
<1>12. ASSUME NEW p \in Procs, ReleaseRoom(p) PROVE SnapshotFresh'
  BY <1>12 DEF ReleaseRoom, Goto
<1>13. ASSUME NEW p \in Procs, ReleaseAdapter(p) PROVE SnapshotFresh'
  BY <1>13 DEF ReleaseAdapter, Goto
<1>14. ASSUME NEW p \in Procs, Timeout(p) PROVE SnapshotFresh'
  BY <1>14 DEF Timeout, LockUnavailable, Goto
<1>15. ASSUME NEW p \in Procs, NEW n \in Names, DiagnoseGone(p, n) PROVE SnapshotFresh'
  BY <1>15 DEF DiagnoseGone, Inspect, Goto
<1>16. ASSUME NEW p \in Procs, NEW n \in Names, DiagnoseHeld(p, n) PROVE SnapshotFresh'
  BY <1>16 DEF DiagnoseHeld, Inspect, Goto
<1>17. ASSUME NEW p \in Procs, NEW n \in Names, DiagnoseClaim(p, n) PROVE SnapshotFresh'
  BY <1>17 DEF DiagnoseClaim, Inspect, Goto
<1>18. ASSUME NEW p \in Procs, DiagnoseUnlock(p) PROVE SnapshotFresh'
  BY <1>18 DEF DiagnoseUnlock, Goto
<1>19. ASSUME NEW p \in Procs, DiagnoseUnlink(p) PROVE SnapshotFresh'
  BY <1>19 DEF DiagnoseUnlink, Goto
<1>20. ASSUME NEW p \in Procs, DiagnoseDone(p) PROVE SnapshotFresh'
  BY <1>20 DEF DiagnoseDone, Goto
<1>21. ASSUME NEW p \in Procs, Crash(p) PROVE SnapshotFresh'
  BY <1>21 DEF Crash, Goto
<1>22. CASE UNCHANGED vars
  BY <1>22 DEF vars
<1>23. QED
  BY <1>1, <1>2, <1>3, <1>4, <1>5, <1>6, <1>7, <1>8, <1>9, <1>10, <1>11, <1>12, <1>13, <1>14, <1>15, <1>16, <1>17, <1>18, <1>19, <1>20, <1>21, <1>22
     DEF Next, Acquire, Finish, Diagnose

\* The invariant holds in every reachable state.
THEOREM LocksInvariant == Spec => []LocksInv
<1>1. Init => LocksInv
  BY InitInv
<1>2. LocksInv /\ [Next]_vars => LocksInv'
  BY TypeStep, HoldsStep, AdapterStep, RecordStep, FreshStep DEF LocksInv
<1>3. QED
  BY <1>1, <1>2, PTL DEF Spec

\* The type invariant, for all constants.
THEOREM TypeCorrect == Spec => []TypeOK
BY LocksInvariant, PTL DEF LocksInv

\* No lost update: no body of locked() works from a state.json that another
\* process rewrote after the body read it.
THEOREM NoStaleSnapshot == Spec => []SnapshotFresh
BY LocksInvariant, PTL DEF LocksInv

\* A process in the body, or waiting for its room, keeps a published record
\* that it flocks itself, whatever diagnoses run beside it.
THEOREM LiveHolders == Spec => []LiveHolderNamed
<1>1. LocksInv => LiveHolderNamed
  BY DEF LocksInv, RecordInv, LiveHolderNamed
<1>2. QED
  BY <1>1, LocksInvariant, PTL
=============================================================================
