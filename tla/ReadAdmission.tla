--------------------------- MODULE ReadAdmission ---------------------------
(***************************************************************************)
(* Admission of the root engineer's Read calls by the routing guard.  Each *)
(* call starts a guard of its own; parallel calls of one assistant message *)
(* share that message's budget through a private ledger beside the native  *)
(* transcript: a record for each message, a continuity record for the      *)
(* session, a lock.                                                        *)
(*                                                                         *)
(* A step ends where the transcript, a file or another guard can move, or  *)
(* this guard can be killed: an inspection of the transcript, a            *)
(* measurement, the lock, the creation of a scratch file, a rename.  The   *)
(* native client writes the transcript; it may also rewind or replace it.  *)
(***************************************************************************)
EXTENDS Naturals, Sequences, FiniteSets, FiniteSetsExt, SequencesExt

CONSTANTS Hooks,        \* guard processes
          Calls,        \* native tool identities
          Messages,     \* native assistant messages
          Args,         \* what a Read asks for: a file and a range of it
          None,
          READ_MAX_SELECTED_BYTES, READ_MAX_MESSAGE_BYTES,
          READ_STATE_MAX_ENTRIES,
          READ_CORRELATION_ATTEMPTS,
          WindowRows,   \* how many records the inspected window holds
          AnchorRows,   \* how many records the anchor covers
          InitialRows,  \* bound: records of the transcript as it is found
          MaxRows,      \* bound: records of the transcript
          MaxTrouble    \* bound: crashes, rewinds, replacements, changed files

VARIABLES
    log,        \* the transcript: its records, oldest first
    ino,        \* its inode
    torn,       \* its last record is incomplete
    extent,     \* what each Read would select now, in bytes
    session,    \* continuity.json, or None
    records,    \* the record of each message, or None
    scratch,    \* scratch files that killed guards left
    lock,       \* the guard that holds the lock, or None
    hooks,      \* where each guard is and what it has found out
    admitted,   \* the reads that were let through
    trouble     \* crashes and disturbances so far (bounded)

transcript == <<log, ino, torn>>
state == <<session, records, scratch>>
vars == <<transcript, extent, state, lock, hooks, admitted, trouble>>

\* A record of the transcript: a Read call of a message, or a human turn.
Row == [message : Messages, call : Calls, args : Args]
Turn == [message |-> None, call |-> None, args |-> None]

\* A revision of the transcript: what _transcript_window says of it.
Revision(n) == [ino |-> ino, size |-> n, anchor |-> SubSeq(log, Max({1, n - AnchorRows + 1}), n)]

\* The transcript still begins with this revision, as far as the anchor shows.
Same(revision) == Revision(revision.size).anchor = revision.anchor
Continues(revision) == ino = revision.ino /\ Len(log) >= revision.size /\ Same(revision)

\* What a Read can select; the largest stands for all that are too large.
Extents == 1..(READ_MAX_SELECTED_BYTES + 1)

Idle == [at |-> "idle", call |-> None, args |-> None, message |-> None, revision |-> None,
         checks |-> 0, bytes |-> 0]

NoEntries == [c \in Calls |-> None]

\* The guard comes in at any time of the session.
Init ==
    /\ log \in SeqOf(Row \cup {Turn}, InitialRows) /\ ino = 1 /\ torn = FALSE
    /\ extent \in [Args -> Extents]
    /\ session = None
    /\ records = [m \in Messages |-> None]
    /\ scratch = 0
    /\ lock = None
    /\ hooks = [h \in Hooks |-> Idle]
    /\ admitted = {}
    /\ trouble = 0

-----------------------------------------------------------------------------
(***************************************************************************)
(* _read_message_identity: the message a call belongs to, by the records   *)
(* of the bounded window.                                                  *)
(***************************************************************************)
Window == {i \in DOMAIN log : i > Len(log) - WindowRows}
Matches(call) == {i \in Window : log[i].call = call}
MessageOf(call) == log[Min(Matches(call))].message

\* A later human turn, or a later record of another message.
Stale(call) ==
    \E i \in Window : i > Min(Matches(call)) /\ log[i].message # MessageOf(call)

Absent(call) == ~torn /\ Matches(call) = {}

Found(call, args) ==
    /\ ~torn
    /\ Matches(call) # {}
    /\ \A i \in Matches(call) : log[i].args = args /\ log[i].message = MessageOf(call)
    /\ ~Stale(call)

-----------------------------------------------------------------------------
At(h, step) == hooks[h].at = step
Step(h, f) == hooks' = [hooks EXCEPT ![h] = f]
Deny(h) == Step(h, Idle)
Elsewhere == UNCHANGED <<transcript, extent, trouble>>

\* The hook event of a call, which may not be in the transcript yet.
Begin(h, call, args) ==
    /\ At(h, "idle")
    /\ Step(h, [Idle EXCEPT !.at = "correlate", !.call = call, !.args = args])
    /\ Elsewhere /\ UNCHANGED <<state, lock, admitted>>

\* One inspection.  An absent call may not have been flushed yet: a bounded
\* number of further inspections, each of a transcript that continues the
\* revision of the one before.  Only the inode of the last one is kept.
_read_message_identity_with_readiness(h) ==
    LET hook == hooks[h]
        continues == hook.revision # None => Continues(hook.revision)
        again == [hook EXCEPT !.checks = @ + 1, !.revision = Revision(Len(log))]
    IN  /\ At(h, "correlate")
        /\ \/ /\ Found(hook.call, hook.args) /\ continues
              /\ Step(h, [hook EXCEPT !.at = "measure", !.message = MessageOf(hook.call),
                                      !.revision = Revision(0), !.checks = 0])
           \/ /\ Absent(hook.call) /\ continues
              /\ hook.checks + 1 < READ_CORRELATION_ATTEMPTS
              /\ Step(h, again)
           \/ /\ ~continues \/ ~(Found(hook.call, hook.args) \/ Absent(hook.call))
              /\ Deny(h)
           \/ /\ Absent(hook.call) \/ hook.checks > 0     \* attempts or time used up
              /\ Deny(h)
        /\ Elsewhere /\ UNCHANGED <<state, lock, admitted>>

\* A selection too large, or a file that changed meanwhile, is refused.
_measure_read(h) ==
    /\ At(h, "measure")
    /\ IF extent[hooks[h].args] <= READ_MAX_SELECTED_BYTES
       THEN Step(h, [hooks[h] EXCEPT !.at = "lock", !.bytes = extent[hooks[h].args]])
       ELSE Deny(h)
    /\ Elsewhere /\ UNCHANGED <<state, lock, admitted>>

\* Mutated form: a guard whose wait expired goes on without the lock.
_lock_state_or_not(h) ==
    /\ At(h, "lock")
    /\ lock' = h
    /\ Step(h, [hooks[h] EXCEPT !.at = "recheck"])
    /\ Elsewhere /\ UNCHANGED <<state, admitted>>

_lock_state(h) ==
    /\ At(h, "lock")
    /\ \/ /\ lock = None
          /\ lock' = h
          /\ Step(h, [hooks[h] EXCEPT !.at = "recheck"])
       \/ /\ lock # None          \* the bounded wait expired
          /\ Deny(h)
          /\ UNCHANGED lock
    /\ Elsewhere /\ UNCHANGED <<state, admitted>>

Release(h) == Deny(h) /\ lock' = None

\* Under the lock: the same message, of the same transcript.
_recheck(h) ==
    LET hook == hooks[h]
    IN  /\ At(h, "recheck")
        /\ IF /\ Found(hook.call, hook.args)
              /\ MessageOf(hook.call) = hook.message
              /\ ino = hook.revision.ino
           THEN /\ Step(h, [hook EXCEPT !.at = "reserve", !.revision = Revision(Len(log))])
                /\ UNCHANGED lock
           ELSE Release(h)
        /\ Elsewhere /\ UNCHANGED <<state, admitted>>

-----------------------------------------------------------------------------
(***************************************************************************)
(* _reserve_read.                                                          *)
(***************************************************************************)
Bindings == IF session = None THEN [c \in Calls |-> None] ELSE session.bindings
RecordOf(m) == IF records[m] = None THEN NoEntries ELSE records[m].entries

Charged(entries) ==
    MapThenSumSet(LAMBDA c : entries[c].bytes, {c \in Calls : entries[c] # None})

Names == 1 + (IF session = None THEN 0 ELSE 1)
           + Cardinality({m \in Messages : records[m] # None}) + scratch

\* The ledger is that of this transcript, and none of its parts is missing.
Continuous(h) ==
    LET hook == hooks[h]
    IN  /\ IF session = None
           THEN \A m \in Messages : records[m] = None
           ELSE /\ session.revision.ino = hook.revision.ino
                /\ hook.revision.size >= session.revision.size
                /\ Continues(session.revision)
        /\ IF records[hook.message] = None
           THEN \A c \in Calls : Bindings[c] = None \/ Bindings[c][1] # hook.message
           ELSE records[hook.message].ino = hook.revision.ino

New(h) == RecordOf(hooks[h].message)[hooks[h].call] = None

\* Mutated form: an identity is looked up in its own message's ledger only.
Admissible_by_record(h) ==
    LET hook == hooks[h]
        entries == RecordOf(hook.message)
    IN  IF New(h)
        THEN Charged(entries) + hook.bytes <= READ_MAX_MESSAGE_BYTES
        ELSE entries[hook.call] = [args |-> hook.args, bytes |-> hook.bytes]

\* A new call within the message's budget, or the same read once more.
Admissible(h) ==
    LET hook == hooks[h]
        entries == RecordOf(hook.message)
        entry == entries[hook.call]
        bound == Bindings[hook.call]
    IN  /\ bound = None \/ bound = <<hook.message, hook.args>>
        /\ IF New(h)
           THEN Charged(entries) + hook.bytes <= READ_MAX_MESSAGE_BYTES
           ELSE /\ bound # None
                /\ entry = [args |-> hook.args, bytes |-> hook.bytes]

WritesSession(h) ==
    \/ session = None
    \/ session.revision.size # hooks[h].revision.size
    \/ New(h) /\ Bindings[hooks[h].call] = None

\* Room for what the writes leave, and for their scratch file.
Room(h) ==
    Names + (IF session = None THEN 1 ELSE 0)
          + (IF WritesSession(h) \/ New(h) THEN 1 ELSE 0) <= READ_STATE_MAX_ENTRIES

\* The decision; the anchor is computed again when the transcript has grown.
_reserve_read(h) ==
    /\ At(h, "reserve")
    /\ IF /\ Continuous(h) /\ Admissible(h) /\ Room(h)
          /\ ino = hooks[h].revision.ino /\ Len(log) >= hooks[h].revision.size
       THEN /\ Step(h, [hooks[h] EXCEPT
                  !.at = IF WritesSession(h) THEN "session" ELSE IF New(h) THEN "record" ELSE "sync",
                  !.revision = IF session # None /\ session.revision.size = @.size
                               THEN session.revision ELSE Revision(@.size)])
            /\ UNCHANGED lock
       ELSE Release(h)
    /\ Elsewhere /\ UNCHANGED <<state, admitted>>

\* From here on a scratch file is there until it is renamed.
_write_session_record(h) ==
    LET hook == hooks[h]
        binding == IF New(h) THEN <<hook.message, hook.args>> ELSE Bindings[hook.call]
    IN  /\ At(h, "session")
        /\ session' = [revision |-> hook.revision,
                       bindings |-> [Bindings EXCEPT ![hook.call] = binding]]
        /\ Step(h, [hook EXCEPT !.at = IF New(h) THEN "record" ELSE "sync"])
        /\ Elsewhere /\ UNCHANGED <<records, scratch, lock, admitted>>

_write_record(h) ==
    LET hook == hooks[h]
    IN  /\ At(h, "record")
        /\ records' = [records EXCEPT ![hook.message] =
              [ino |-> hook.revision.ino,
               entries |-> [RecordOf(hook.message) EXCEPT
                               ![hook.call] = [args |-> hook.args, bytes |-> hook.bytes]]]]
        /\ Step(h, [hook EXCEPT !.at = "sync"])
        /\ Elsewhere /\ UNCHANGED <<session, scratch, lock, admitted>>

\* The directory is synced and the guard prints nothing: the read goes ahead.
\* A sync that fails refuses it, the reservation stays.
Answer(h) ==
    LET hook == hooks[h]
    IN  /\ At(h, "sync")
        /\ \/ admitted' = admitted \cup {[call |-> hook.call, message |-> hook.message,
                                          args |-> hook.args, bytes |-> hook.bytes]}
           \/ UNCHANGED admitted
        /\ Release(h)
        /\ Elsewhere /\ UNCHANGED state

-----------------------------------------------------------------------------
(***************************************************************************)
(* The native client, the files and the death of a guard.                  *)
(***************************************************************************)
Trouble == trouble < MaxTrouble /\ trouble' = trouble + 1
Guards == <<state, lock, hooks, admitted>>

\* A record is flushed in full, or its first part only; then the rest.
Append_(row) ==
    /\ Len(log) < MaxRows /\ ~torn
    /\ log' = Append(log, row)
    /\ torn' \in BOOLEAN
    /\ UNCHANGED <<ino, extent, trouble, Guards>>

Flush == torn /\ torn' = FALSE /\ UNCHANGED <<log, ino, extent, trouble, Guards>>

Rewind ==
    /\ Trouble
    /\ \E n \in 0..(Len(log) - 1) : log' = SubSeq(log, 1, n)
    /\ torn' = FALSE
    /\ ino' \in {ino, ino + 1}
    /\ UNCHANGED <<extent, Guards>>

Change ==
    /\ Trouble
    /\ \E a \in Args : \E n \in Extents \ {extent[a]} : extent' = [extent EXCEPT ![a] = n]
    /\ UNCHANGED <<transcript, Guards>>

\* Killed, or a write or a sync that failed: the lock is free, a scratch file
\* in the making stays.
Killed(h) ==
    /\ Trouble
    /\ ~At(h, "idle")
    /\ Deny(h)
    /\ lock' = IF lock = h THEN None ELSE lock
    /\ \/ UNCHANGED scratch
       \/ hooks[h].at \in {"session", "record"} /\ scratch' = scratch + 1
    /\ UNCHANGED <<transcript, extent, session, records, admitted>>

Guard(h) ==
    \/ \E call \in Calls, args \in Args : Begin(h, call, args)
    \/ _read_message_identity_with_readiness(h)
    \/ _measure_read(h) \/ _lock_state(h) \/ _recheck(h)
    \/ _reserve_read(h) \/ _write_session_record(h) \/ _write_record(h) \/ Answer(h)

Next ==
    \/ \E h \in Hooks : Guard(h) \/ Killed(h)
    \/ \E row \in Row \cup {Turn} : Append_(row)
    \/ Flush \/ Rewind \/ Change

Spec == Init /\ [][Next]_vars

-----------------------------------------------------------------------------
\* The reads let through for one assistant message stay within its budget:
\* parallel guards, a guard killed between the two writes, a repeated call and
\* a transcript that was rewound or replaced never open a second allowance
\* (_reserve_read).
MessageBudget ==
    \A m \in Messages :
        MapThenSumSet(LAMBDA read : read.bytes, {read \in admitted : read.message = m})
            <= READ_MAX_MESSAGE_BYTES

\* A tool identity clears one read only: the same message, arguments and
\* measured extent whenever it is let through again, also when the transcript
\* shows the identity a second time in another message (the bindings).
OneCallOneRead ==
    \A x, y \in admitted : x.call = y.call => x = y

\* The private directory never holds more entries than its bound, the scratch
\* file of a write in progress and those that killed guards left included.
DirectoryBounded ==
    Names + Cardinality({h \in Hooks : hooks[h].at \in {"session", "record"}})
        <= READ_STATE_MAX_ENTRIES

=============================================================================
