------------------------------ MODULE AoLocks ------------------------------
(***************************************************************************)
(* Service.locked and lock_holders of ao_project_room.py: how the          *)
(* processes of the AO adapter claim the adapter-wide lock (shared for an  *)
(* operation on one room, exclusive for a claim over all rooms), the       *)
(* per-room lock and the holder record that names them, and how a bounded  *)
(* caller that times out diagnoses who is in the way.                      *)
(*                                                                         *)
(* Every flock is modelled by its grant.  A process that dies loses all    *)
(* its flocks at once; its record file stays.                              *)
(***************************************************************************)
EXTENDS Naturals, FiniteSets

CONSTANTS Procs,        \* controller processes
          Rooms,        \* room identifiers
          Names,        \* names available to holder record files (uuids)
          None,         \* no process, no name, no room
          Bounded,      \* processes that pass timeout_seconds
          MaxCrashes    \* bound: how many times a process may die

ASSUME NoneAssumption == /\ None \notin Procs
                         /\ None \notin Rooms
                         /\ None \notin Names
ASSUME BoundedAssumption == Bounded \subseteq Procs
ASSUME CrashAssumption == MaxCrashes \in Nat

VARIABLES
    pc,         \* where each process is inside locked()
    op,         \* the call each process makes: its room and its mode
    turnstile,  \* the process holding .lock.turnstile, or None
    adapter,    \* the mode in which each process holds .lock
    roomLock,   \* the process holding locks/<room>.lock, or None
    known,      \* rooms that have a state.json
    stale,      \* processes whose reading of a state.json was overwritten by another
    name,       \* the record file of each process, or None
    published,  \* the record files visible to the *.json glob
    fileLock,   \* who holds the flock of each record file, or None
    timedOut,   \* processes whose deadline passed in this call
    todo,       \* record files a diagnosing process has yet to inspect
    probe,      \* the stale record a diagnosing process is removing, or None
    verdicts,   \* records reported as current; whether their own process held the flock
    crashes     \* processes that died so far

lockVars == <<turnstile, adapter, roomLock>>
fileVars == <<name, published, fileLock>>
diagVars == <<todo, probe, verdicts>>
vars == <<pc, op, turnstile, adapter, roomLock, known, stale, name, published,
          fileLock, timedOut, todo, probe, verdicts, crashes>>

Call == [room : Rooms \cup {None}, mode : {"SH", "EX"}]

\* mode = LOCK_EX if room_id is None or exclusive else LOCK_SH
Calls == {o \in Call : o.room = None => o.mode = "EX"}

Idle == [room |-> None, mode |-> "EX"]

Init ==
    /\ pc = [p \in Procs |-> "idle"]
    /\ op = [p \in Procs |-> Idle]
    /\ turnstile = None
    /\ adapter = [p \in Procs |-> "none"]
    /\ roomLock = [r \in Rooms |-> None]
    /\ known = {}
    /\ stale = {}
    /\ name = [p \in Procs |-> None]
    /\ published = {}
    /\ fileLock = [n \in Names |-> None]
    /\ timedOut = {}
    /\ todo = [p \in Procs |-> {}]
    /\ probe = [p \in Procs |-> None]
    /\ verdicts = [p \in Procs |-> {}]
    /\ crashes = 0

Goto(p, l) == pc' = [pc EXCEPT ![p] = l]

(***************************************************************************)
(* What flock grants.                                                      *)
(***************************************************************************)
\* Mutated form: nobody waits at the turnstile.
TurnstileFree_open == TRUE

TurnstileFree == turnstile = None

\* Mutated form: an exclusive claim does not wait for the shared holders.
AdapterFree_ignores_shared(p) == \A q \in Procs : adapter[q] # "EX"

AdapterFree(p) ==
    IF op[p].mode = "EX" THEN \A q \in Procs : adapter[q] = "none"
                         ELSE \A q \in Procs : adapter[q] # "EX"

RoomFree(p) == roomLock[op[p].room] = None

(***************************************************************************)
(* Acquisition: turnstile, adapter lock, holder record, room lock.         *)
(***************************************************************************)
Begin(p, o) ==
    /\ pc[p] = "idle"
    /\ op' = [op EXCEPT ![p] = o]
    /\ Goto(p, "turnstile")
    /\ UNCHANGED <<lockVars, known, stale, fileVars, timedOut, diagVars, crashes>>

TakeTurnstile(p) ==
    /\ pc[p] = "turnstile"
    /\ TurnstileFree
    /\ turnstile' = p
    /\ Goto(p, "adapter")
    /\ UNCHANGED <<op, adapter, roomLock, known, stale, fileVars, timedOut, diagVars, crashes>>

\* The turnstile is closed only once the adapter lock is granted.
TakeAdapter(p) ==
    /\ pc[p] = "adapter"
    /\ AdapterFree(p)
    /\ adapter' = [adapter EXCEPT ![p] = op[p].mode]
    /\ turnstile' = None
    /\ Goto(p, "create")
    /\ UNCHANGED <<op, roomLock, known, stale, fileVars, timedOut, diagVars, crashes>>

\* A uuid name nobody uses or is still inspecting.
FreshName(n) ==
    /\ n \notin published
    /\ \A q \in Procs : name[q] # n /\ probe[q] # n /\ n \notin todo[q]

\* Mutated form: the record is published without its flock.
CreateRecord_unlocked(p, n) ==
    /\ pc[p] = "create"
    /\ FreshName(n)
    /\ name' = [name EXCEPT ![p] = n]
    /\ Goto(p, "publish")
    /\ UNCHANGED <<op, lockVars, known, stale, published, fileLock, timedOut, diagVars, crashes>>

\* The record is created and flocked under a name the glob does not match.
CreateRecord(p, n) ==
    /\ pc[p] = "create"
    /\ FreshName(n)
    /\ name' = [name EXCEPT ![p] = n]
    /\ fileLock' = [fileLock EXCEPT ![n] = p]
    /\ Goto(p, "publish")
    /\ UNCHANGED <<op, lockVars, known, stale, published, timedOut, diagVars, crashes>>

\* os.rename into place; then either the adapter-wide body or the room lock.
PublishRecord(p) ==
    /\ pc[p] = "publish"
    /\ published' = published \cup {name[p]}
    /\ Goto(p, IF op[p].room = None THEN "body" ELSE "room")
    /\ UNCHANGED <<op, lockVars, known, stale, name, fileLock, timedOut, diagVars, crashes>>

\* The room has no state.json: RoomError, straight to the cleanup.
UnknownRoom(p) ==
    /\ pc[p] = "room"
    /\ op[p].room \notin known
    /\ fileLock' = [fileLock EXCEPT ![name[p]] = None]
    /\ Goto(p, "closed")
    /\ UNCHANGED <<op, lockVars, known, stale, name, published, timedOut, diagVars, crashes>>

\* The room lock is granted and state.json is read under it.
TakeRoom(p) ==
    /\ pc[p] = "room"
    /\ op[p].room \in known
    /\ RoomFree(p)
    /\ roomLock' = [roomLock EXCEPT ![op[p].room] = p]
    /\ Goto(p, "body")
    /\ UNCHANGED <<op, turnstile, adapter, known, stale, fileVars, timedOut, diagVars, crashes>>

(***************************************************************************)
(* The body of an operation.  A room body rewrites the state.json of its   *)
(* room; an adapter-wide body creates a room.  Whoever read that state     *)
(* (the same room, or every room under the exclusive lock) is now stale.   *)
(***************************************************************************)
Readers(r) == {q \in Procs : pc[q] = "body" /\ (op[q].room = r \/ op[q].mode = "EX")}

Save(p) ==
    /\ pc[p] = "body"
    /\ op[p].room # None
    /\ stale' = stale \cup (Readers(op[p].room) \ {p})
    /\ UNCHANGED <<pc, op, lockVars, known, fileVars, timedOut, diagVars, crashes>>

OpenRoom(p, r) ==
    /\ pc[p] = "body"
    /\ op[p].room = None
    /\ known' = known \cup {r}
    /\ stale' = stale \cup (Readers(r) \ {p})
    /\ UNCHANGED <<pc, op, lockVars, fileVars, timedOut, diagVars, crashes>>

(***************************************************************************)
(* The cleanup: the record's descriptor is closed (its flock is gone),     *)
(* the record is unlinked, then the room and the adapter lock are closed.  *)
(***************************************************************************)
Leave(p) ==
    /\ pc[p] = "body"
    /\ fileLock' = [fileLock EXCEPT ![name[p]] = None]
    /\ stale' = stale \ {p}
    /\ Goto(p, "closed")
    /\ UNCHANGED <<op, lockVars, known, name, published, timedOut, diagVars, crashes>>

\* Mutated form: the deadline does not bound the wait for the room lock.
LockUnavailable_not_room(p) ==
    \/ pc[p] = "turnstile" /\ ~TurnstileFree
    \/ pc[p] = "adapter" /\ ~AdapterFree(p)

\* A poll at or after the shared deadline fails: _LockTimeout.
LockUnavailable(p) ==
    \/ pc[p] = "turnstile" /\ ~TurnstileFree
    \/ pc[p] = "adapter" /\ ~AdapterFree(p)
    \/ pc[p] = "room" /\ op[p].room \in known /\ ~RoomFree(p)

Timeout(p) ==
    /\ p \in Bounded
    /\ LockUnavailable(p)
    /\ turnstile' = IF turnstile = p THEN None ELSE turnstile
    /\ fileLock' = [n \in Names |-> IF n = name[p] THEN None ELSE fileLock[n]]
    /\ timedOut' = timedOut \cup {p}
    /\ Goto(p, "closed")
    /\ UNCHANGED <<op, adapter, roomLock, known, stale, name, published, diagVars, crashes>>

\* After the unlink a timed-out caller runs _lock_diagnosis over the glob.
Unlink(p) ==
    /\ pc[p] = "closed"
    /\ published' = published \ {name[p]}
    /\ name' = [name EXCEPT ![p] = None]
    /\ todo' = [todo EXCEPT ![p] = IF p \in timedOut THEN published' ELSE {}]
    /\ Goto(p, IF p \in timedOut THEN "diagnose" ELSE "release")
    /\ UNCHANGED <<op, lockVars, known, stale, fileLock, timedOut, probe, verdicts, crashes>>

ReleaseRoom(p) ==
    /\ pc[p] = "release"
    /\ \E r \in Rooms : /\ roomLock[r] = p
                        /\ roomLock' = [roomLock EXCEPT ![r] = None]
    /\ UNCHANGED <<pc, op, turnstile, adapter, known, stale, fileVars, timedOut, diagVars, crashes>>

ReleaseAdapter(p) ==
    /\ pc[p] = "release"
    /\ \A r \in Rooms : roomLock[r] # p
    /\ adapter' = [adapter EXCEPT ![p] = "none"]
    /\ op' = [op EXCEPT ![p] = Idle]
    /\ timedOut' = timedOut \ {p}
    /\ verdicts' = [verdicts EXCEPT ![p] = {}]
    /\ Goto(p, "idle")
    /\ UNCHANGED <<turnstile, roomLock, known, stale, fileVars, todo, probe, crashes>>

(***************************************************************************)
(* lock_holders: inspect every record found by the glob.                   *)
(***************************************************************************)
Inspect(p, n) ==
    /\ pc[p] = "diagnose"
    /\ probe[p] = None
    /\ n \in todo[p]
    /\ todo' = [todo EXCEPT ![p] = @ \ {n}]

\* The record is gone when it is opened.
DiagnoseGone(p, n) ==
    /\ Inspect(p, n)
    /\ n \notin published
    /\ UNCHANGED <<pc, op, lockVars, known, stale, fileVars, timedOut, probe, verdicts, crashes>>

\* LOCK_EX | LOCK_NB fails: reported as a verified current holder.
DiagnoseHeld(p, n) ==
    /\ Inspect(p, n)
    /\ n \in published
    /\ fileLock[n] # None
    /\ verdicts' = [verdicts EXCEPT ![p] = @ \cup {[file |-> n, current |-> name[fileLock[n]] = n]}]
    /\ UNCHANGED <<pc, op, lockVars, known, stale, fileVars, timedOut, probe, crashes>>

\* LOCK_EX | LOCK_NB succeeds: stale; the probe holds the flock for a moment.
DiagnoseClaim(p, n) ==
    /\ Inspect(p, n)
    /\ n \in published
    /\ fileLock[n] = None
    /\ fileLock' = [fileLock EXCEPT ![n] = p]
    /\ probe' = [probe EXCEPT ![p] = n]
    /\ UNCHANGED <<pc, op, lockVars, known, stale, name, published, timedOut, verdicts, crashes>>

DiagnoseUnlock(p) ==
    /\ probe[p] # None
    /\ fileLock[probe[p]] = p
    /\ fileLock' = [fileLock EXCEPT ![probe[p]] = None]
    /\ UNCHANGED <<pc, op, lockVars, known, stale, name, published, timedOut, diagVars, crashes>>

DiagnoseUnlink(p) ==
    /\ probe[p] # None
    /\ fileLock[probe[p]] # p
    /\ published' = published \ {probe[p]}
    /\ probe' = [probe EXCEPT ![p] = None]
    /\ UNCHANGED <<pc, op, lockVars, known, stale, name, fileLock, timedOut, todo, verdicts, crashes>>

DiagnoseDone(p) ==
    /\ pc[p] = "diagnose"
    /\ probe[p] = None
    /\ todo[p] = {}
    /\ Goto(p, "release")
    /\ UNCHANGED <<op, lockVars, known, stale, fileVars, timedOut, diagVars, crashes>>

(***************************************************************************)
(* A process dies: the kernel drops its flocks, its record file stays.     *)
(***************************************************************************)
Crash(p) ==
    /\ pc[p] # "idle"
    /\ crashes < MaxCrashes
    /\ crashes' = crashes + 1
    /\ turnstile' = IF turnstile = p THEN None ELSE turnstile
    /\ adapter' = [adapter EXCEPT ![p] = "none"]
    /\ roomLock' = [r \in Rooms |-> IF roomLock[r] = p THEN None ELSE roomLock[r]]
    /\ fileLock' = [n \in Names |-> IF fileLock[n] = p THEN None ELSE fileLock[n]]
    /\ name' = [name EXCEPT ![p] = None]
    /\ op' = [op EXCEPT ![p] = Idle]
    /\ stale' = stale \ {p}
    /\ timedOut' = timedOut \ {p}
    /\ todo' = [todo EXCEPT ![p] = {}]
    /\ probe' = [probe EXCEPT ![p] = None]
    /\ verdicts' = [verdicts EXCEPT ![p] = {}]
    /\ Goto(p, "idle")
    /\ UNCHANGED <<known, published>>

Acquire(p) ==
    \/ TakeTurnstile(p)
    \/ TakeAdapter(p)
    \/ \E n \in Names : CreateRecord(p, n)
    \/ PublishRecord(p)
    \/ UnknownRoom(p)
    \/ TakeRoom(p)

Diagnose(p) ==
    \/ \E n \in Names : DiagnoseGone(p, n) \/ DiagnoseHeld(p, n) \/ DiagnoseClaim(p, n)
    \/ DiagnoseUnlock(p)
    \/ DiagnoseUnlink(p)
    \/ DiagnoseDone(p)

Finish(p) == Leave(p) \/ Unlink(p) \/ ReleaseRoom(p) \/ ReleaseAdapter(p)

Next ==
    \E p \in Procs :
        \/ \E o \in Calls : Begin(p, o)
        \/ Acquire(p)
        \/ Save(p)
        \/ \E r \in Rooms : OpenRoom(p, r)
        \/ Finish(p)
        \/ Timeout(p)
        \/ Diagnose(p)
        \/ Crash(p)

Spec == Init /\ [][Next]_vars

(***************************************************************************)
(* A granted flock is taken, a body ends, a cleanup runs to its end, and   *)
(* the polls of a bounded call either succeed or reach the deadline.  No   *)
(* fairness is assumed between processes that want the same lock.          *)
(***************************************************************************)
Progress(p) == Acquire(p) \/ Finish(p) \/ Timeout(p) \/ Diagnose(p)

FairSpec == Spec /\ \A p \in Procs : WF_vars(Progress(p))

-----------------------------------------------------------------------------
Steps == {"idle", "turnstile", "adapter", "create", "publish", "room", "body",
          "closed", "diagnose", "release"}

\* Every variable has the shape the code gives it.
TypeOK ==
    /\ pc \in [Procs -> Steps]
    /\ op \in [Procs -> Call]
    /\ turnstile \in Procs \cup {None}
    /\ adapter \in [Procs -> {"none", "SH", "EX"}]
    /\ roomLock \in [Rooms -> Procs \cup {None}]
    /\ known \subseteq Rooms
    /\ stale \subseteq Procs
    /\ name \in [Procs -> Names \cup {None}]
    /\ published \subseteq Names
    /\ fileLock \in [Names -> Procs \cup {None}]
    /\ timedOut \subseteq Procs
    /\ todo \in [Procs -> SUBSET Names]
    /\ probe \in [Procs -> Names \cup {None}]
    /\ verdicts \in [Procs -> SUBSET [file : Names, current : BOOLEAN]]
    /\ crashes \in Nat

\* No operation ever works from a state.json that another process has since
\* rewritten: not a room operation from its own room's, and not an
\* adapter-wide claim (bind, prepare, open) from any room's.
SnapshotFresh == stale = {}

\* A process that reached the body, or waits for its room, can be named by a
\* diagnosis: its record is published and flocked by itself, so that no
\* concurrent lock_holders() call has removed it as stale.
LiveHolderNamed ==
    \A p \in Procs : pc[p] \in {"room", "body"} =>
        /\ name[p] \in published
        /\ fileLock[name[p]] = p

\* The turnstile's purpose: a process that waits for the adapter lock behind
\* it is not starved by new shared entrants.
WaiterAdmitted == \A p \in Procs : pc[p] = "adapter" ~> pc[p] # "adapter"

\* A call with timeout_seconds returns or enters its body, whatever the others do.
BoundedCallEnds ==
    \A p \in Bounded : pc[p] # "idle" ~> pc[p] \in {"body", "idle"}
=============================================================================
