------------------------------ MODULE MCRooms ------------------------------
(* Instances for TLC of two-room coordination and of the guard that admits   *)
(* an engineer's reads.  They share no state, so a behaviour explores one of *)
(* them and leaves the other as it starts: the run covers both, without      *)
(* their product.  For the same reason they can share the model values, and  *)
(* with them the symmetry.                                                   *)
EXTENDS Coordination, TLC

CONSTANTS r1, r2, r3, a1, a2, p1, p2,
          Args, READ_MAX_SELECTED_BYTES, READ_MAX_MESSAGE_BYTES, READ_STATE_MAX_ENTRIES,
          READ_CORRELATION_ATTEMPTS, WindowRows, AnchorRows, InitialRows, MaxRows, MaxTrouble

VARIABLES of,   \* the module this behaviour explores
          log, ino, torn, extent, session, records, scratch, lock, hooks, admitted, trouble

Reads == INSTANCE ReadAdmission WITH Hooks <- Rooms, Calls <- Assignments, Messages <- Paths

ASSUME ReadBounds ==
    /\ {READ_MAX_SELECTED_BYTES, READ_MAX_MESSAGE_BYTES, AnchorRows} \subseteq Nat
    /\ READ_STATE_MAX_ENTRIES \in Nat \ {0}
\* None is no call and no record of the guard's.
ASSUME ReadNone ==
    /\ None \notin Rooms \cup Assignments /\ None \notin [args : Args, bytes : Nat] /\ None \notin Paths \X Args
    /\ None \notin [ino : Nat, entries : [Assignments -> {None} \cup [args : Args, bytes : Nat]]]
    /\ None \notin [revision : [ino : Nat, size : Nat, anchor : Seq(Reads!Row \cup {Reads!Turn})],
                    bindings : [Assignments -> {None} \cup (Paths \X Args)]]

\* Two of the guards are at work at once.
PARALLEL == 2

guard == <<log, ino, torn, extent, session, records, scratch, lock, hooks, admitted, trouble>>

\* One or two parallel calls of one message have been flushed.
Flushed ==
    /\ Len(log) \in 1..2
    /\ \A i \in DOMAIN log : log[i].call # None /\ log[i].message = log[1].message
    /\ \A i, j \in DOMAIN log : i # j => log[i].call # log[j].call

MCInit ==
    /\ of \in {"rooms", "reads"}
    /\ Init /\ Reads!Init
    /\ extent = [a \in Args |-> READ_MAX_SELECTED_BYTES]
    /\ IF of = "reads" THEN Flushed ELSE log = <<>>

MCNext ==
    \/ of = "rooms" /\ Next /\ UNCHANGED <<of, guard>>
    \/ /\ of = "reads" /\ Reads!Next /\ UNCHANGED <<of, vars>>
       /\ Cardinality({h \in Rooms : hooks'[h].at # "idle"}) <= PARALLEL

MCSpec == MCInit /\ [][MCNext]_<<of, vars, guard>>

Symmetry == Permutations(Rooms) \cup Permutations(Paths) \cup Permutations(Assignments)

\* Neither the budget of a message nor the directory of the guard is ever exceeded.
MessageBudget == Reads!MessageBudget /\ Reads!DirectoryBounded
\* A tool identity clears one read only.
OneCallOneRead == Reads!OneCallOneRead
=============================================================================
