--------------------------- MODULE McpAttachment ---------------------------
(***************************************************************************)
(* The witness between AO's native client and the delegate's MCP server    *)
(* (ao_mcp_attachment.py), and the controller that certifies its           *)
(* connection before it dispatches.                                        *)
(*                                                                         *)
(* A wrapper holds owner.lock, publishes a fresh connection.lock inode it   *)
(* holds too, relays, and writes a receipt once the handshake is complete.  *)
(* Nothing tells a validator who holds a lock: it probes, taking a free     *)
(* lock for a moment.  Wrapper number w publishes inode w as connection w.  *)
(***************************************************************************)
EXTENDS Naturals

CONSTANTS MaxConns,   \* bound: wrappers that are started, one after another or at once
          Validators, \* processes that certify: a dispatch, a status projection
          None

Wrappers == 1..MaxConns

\* A lock is held by a wrapper, by a validator, or by nobody.
ASSUME HoldersAssumption ==
    /\ MaxConns \in Nat
    /\ Validators \cap Wrappers = {}
    /\ None \notin Validators \cup Wrappers

VARIABLES
    wrap,      \* what each wrapper does
    owner,     \* who holds owner.lock
    lease,     \* who holds each connection.lock inode
    locator,   \* the content of each inode
    linked,    \* the inode the name connection.lock stands for, 0 when absent
    hs,        \* the handshake each wrapper has witnessed, in its memory
    ready, invalid, closed, \* the receipts
    val        \* the certification each validator is in

wrapped == <<wrap, locator, linked, hs>>
receipts == <<ready, invalid, closed>>
vars == <<wrap, owner, lease, locator, linked, hs, receipts, val>>

NoHandshake == [initialize |-> "no", initialized |-> FALSE, tools |-> "no"]
AtRest == [pc |-> "rest", fd |-> 0]

Init ==
    /\ wrap = [w \in Wrappers |-> "unborn"]
    /\ owner = None
    /\ lease = [f \in Wrappers |-> None]
    /\ locator = [f \in Wrappers |-> "empty"]
    /\ linked = 0
    /\ hs = [w \in Wrappers |-> NoHandshake]
    /\ ready = {} /\ invalid = {} /\ closed = {}
    /\ val = [v \in Validators |-> AtRest]

-----------------------------------------------------------------------------
(***************************************************************************)
(* The wrapper.                                                            *)
(***************************************************************************)
\* It ends at once when anyone holds owner.lock, a probing validator included.
run(w) ==
    /\ wrap[w] = "unborn" /\ \A k \in 1..(w - 1) : wrap[k] # "unborn"
    /\ IF owner = None THEN wrap' = [wrap EXCEPT ![w] = "owner"] /\ owner' = w
                       ELSE wrap' = [wrap EXCEPT ![w] = "dead"] /\ UNCHANGED owner
    /\ UNCHANGED <<lease, locator, linked, hs, receipts, val>>

\* A missing or unsettled ledger refuses before the child exists, or the child does not start.
_ledger_before_launch(w) ==
    /\ wrap[w] \in {"owner", "starting"}
    /\ wrap' = [wrap EXCEPT ![w] = "releasing"]
    /\ UNCHANGED <<owner, lease, locator, linked, hs, receipts, val>>

\* The inode of the connection before it is probed, by taking its lock.
ProbePrior(w) ==
    /\ wrap[w] = "owner"
    /\ \/ linked = 0 /\ wrap' = [wrap EXCEPT ![w] = "probed"] /\ UNCHANGED lease
       \/ linked # 0 /\ lease[linked] = None
          /\ wrap' = [wrap EXCEPT ![w] = "probing"] /\ lease' = [lease EXCEPT ![linked] = w]
       \/ linked # 0 /\ lease[linked] # None
          /\ wrap' = [wrap EXCEPT ![w] = "releasing"] /\ UNCHANGED lease
    /\ UNCHANGED <<owner, locator, linked, hs, receipts, val>>

ReleasePrior(w) ==
    /\ wrap[w] = "probing"
    /\ lease' = [lease EXCEPT ![linked] = None]
    /\ wrap' = [wrap EXCEPT ![w] = "probed"]
    /\ UNCHANGED <<owner, locator, linked, hs, receipts, val>>

\* The connection its readable locator names is closed on its behalf.
ClosePrior(w) ==
    /\ wrap[w] = "probed"
    /\ closed' = IF linked # 0 /\ locator[linked] # "empty" THEN closed \cup {linked} ELSE closed
    /\ wrap' = [wrap EXCEPT ![w] = "starting"]
    /\ UNCHANGED <<owner, lease, locator, linked, hs, ready, invalid, val>>

\* The child runs; a fresh inode, locked and written, replaces the name.
Publish(w) ==
    /\ wrap[w] = "starting"
    /\ lease' = [lease EXCEPT ![w] = w]
    /\ locator' = [locator EXCEPT ![w] = "current"]
    /\ linked' = w
    /\ wrap' = [wrap EXCEPT ![w] = "relay"]
    /\ UNCHANGED <<owner, hs, receipts, val>>

\* Witness.observe: what a frame makes of the handshake, None when it disqualifies.
Frames == {"initialize", "initialize_result", "initialized", "tools", "tools_result", "malformed"}
Observed(h, frame) ==
    CASE frame = "initialize" -> IF h.initialize = "no" THEN [h EXCEPT !.initialize = "seen"] ELSE None
      [] frame = "initialize_result" -> IF h.initialize = "seen" THEN [h EXCEPT !.initialize = "ok"] ELSE h
      [] frame = "initialized" -> IF h.initialize # "no" /\ ~h.initialized THEN [h EXCEPT !.initialized = TRUE] ELSE None
      [] frame = "tools" -> IF h.initialize # "no" /\ h.tools # "asked" THEN [h EXCEPT !.tools = "asked"] ELSE None
      [] frame = "tools_result" -> IF h.tools = "asked" THEN [h EXCEPT !.tools = "ok"] ELSE h
      [] OTHER -> None
Proven(h) == h = [initialize |-> "ok", initialized |-> TRUE, tools |-> "ok"]

\* Once the handshake is proven the receipt is written, the manifest read again first.
observe(w, frame) ==
    /\ wrap[w] = "relay" /\ Observed(hs[w], frame) # None
    /\ hs' = [hs EXCEPT ![w] = Observed(@, frame)]
    /\ ready' = IF Proven(hs'[w]) THEN ready \cup {w} ELSE ready
    /\ UNCHANGED <<wrap, owner, lease, locator, linked, invalid, closed, val>>

\* Any other frame disqualifies: first the held inode is truncated and rewritten, then a
\* receipt is tried, whose failure is swallowed.
reject(w) ==
    /\ wrap[w] = "relay"
    /\ \E frame \in Frames : Observed(hs[w], frame) = None
    /\ locator' = [locator EXCEPT ![w] = "empty"]
    /\ wrap' = [wrap EXCEPT ![w] = "rejecting"]
    /\ UNCHANGED <<owner, lease, linked, hs, receipts, val>>
RejectWritten(w) ==
    /\ wrap[w] = "rejecting"
    /\ locator' = [locator EXCEPT ![w] = "invalid"]
    /\ wrap' = [wrap EXCEPT ![w] = "rejected"]
    /\ UNCHANGED <<owner, lease, linked, hs, receipts, val>>
RejectReceipt(w) ==
    /\ wrap[w] = "rejected"
    /\ invalid' \in {invalid, invalid \cup {w}}
    /\ wrap' = [wrap EXCEPT ![w] = "disqualified"]
    /\ UNCHANGED <<owner, lease, locator, linked, hs, ready, closed, val>>

\* The transport ends: no more receipts of the witness, the closing receipt, then the locks.
Finish(w) ==
    /\ wrap[w] \in {"relay", "disqualified"}
    /\ closed' = closed \cup {w}
    /\ wrap' = [wrap EXCEPT ![w] = "closing"]
    /\ UNCHANGED <<owner, lease, locator, linked, hs, ready, invalid, val>>
ReleaseLease(w) ==
    /\ wrap[w] = "closing"
    /\ lease' = [lease EXCEPT ![w] = None]
    /\ wrap' = [wrap EXCEPT ![w] = "releasing"]
    /\ UNCHANGED <<owner, locator, linked, hs, receipts, val>>
ReleaseOwner(w) ==
    /\ wrap[w] = "releasing"
    /\ owner' = None
    /\ wrap' = [wrap EXCEPT ![w] = "dead"]
    /\ hs' = [hs EXCEPT ![w] = NoHandshake]
    /\ UNCHANGED <<lease, locator, linked, receipts, val>>

\* Killed: the kernel frees its locks, nothing is written, what it witnessed is forgotten.
\* A start that fails before its own lease is published leaves no more than that.
Kill(w) ==
    /\ wrap[w] \notin {"unborn", "dead"}
    /\ wrap' = [wrap EXCEPT ![w] = "dead"]
    /\ owner' = IF owner = w THEN None ELSE owner
    /\ lease' = [f \in Wrappers |-> IF lease[f] = w THEN None ELSE lease[f]]
    /\ hs' = [hs EXCEPT ![w] = NoHandshake]
    /\ UNCHANGED <<locator, linked, receipts, val>>

-----------------------------------------------------------------------------
(***************************************************************************)
(* validate_attachment, one read at a time.                                *)
(***************************************************************************)
Go(v, pc) == val' = [val EXCEPT ![v].pc = pc]
Refuse(v) == val' = [val EXCEPT ![v] = AtRest]

\* The preparation is checked and both files are opened: the inode stays the same from here.
Open(v) ==
    /\ val[v].pc = "rest" /\ linked # 0
    /\ val' = [val EXCEPT ![v] = [pc |-> "owner1", fd |-> linked]]
    /\ UNCHANGED <<wrapped, owner, lease, receipts>>

\* A free lock is taken by the probe and given back in a step of its own.
_held_owner(v) ==
    /\ val[v].pc \in {"owner1", "owner2"}
    /\ IF owner = None THEN owner' = v /\ Go(v, "owner_free")
                       ELSE Go(v, IF val[v].pc = "owner1" THEN "lease1" ELSE "lease2") /\ UNCHANGED owner
    /\ UNCHANGED <<wrapped, lease, receipts>>
OwnerFree(v) ==
    /\ val[v].pc = "owner_free" /\ owner' = None /\ Refuse(v)
    /\ UNCHANGED <<wrapped, lease, receipts>>

_held_lease(v) ==
    /\ val[v].pc \in {"lease1", "lease2"}
    /\ LET f == val[v].fd IN
       IF lease[f] = None THEN lease' = [lease EXCEPT ![f] = v] /\ Go(v, "lease_free")
       ELSE Go(v, IF val[v].pc = "lease1" THEN "locator" ELSE "certified") /\ UNCHANGED lease
    /\ UNCHANGED <<wrapped, owner, receipts>>
LeaseFree(v) ==
    /\ val[v].pc = "lease_free" /\ lease' = [lease EXCEPT ![val[v].fd] = None] /\ Refuse(v)
    /\ UNCHANGED <<wrapped, owner, receipts>>

_locator(v) ==
    /\ val[v].pc = "locator"
    /\ IF locator[val[v].fd] = "current" THEN Go(v, "receipt") ELSE Refuse(v)
    /\ UNCHANGED <<wrapped, owner, lease, receipts>>

\* The ready receipt of that very connection, then neither of the two that end it.
Receipt(v) ==
    /\ val[v].pc = "receipt"
    /\ IF val[v].fd \in ready THEN Go(v, "ended") ELSE Refuse(v)
    /\ UNCHANGED <<wrapped, owner, lease, receipts>>
Ended(v) ==
    /\ \/ val[v].pc = "ended" /\ IF val[v].fd \in closed THEN Refuse(v) ELSE Go(v, "valid")
       \/ val[v].pc = "valid" /\ IF val[v].fd \in invalid THEN Refuse(v) ELSE Go(v, "name")
    /\ UNCHANGED <<wrapped, owner, lease, receipts>>
Name(v) ==
    /\ val[v].pc = "name"
    /\ IF linked = val[v].fd THEN Go(v, "again") ELSE Refuse(v)
    /\ UNCHANGED <<wrapped, owner, lease, receipts>>

\* Mutated form: what was read is not observed a second time.
Again_trusted(v) ==
    /\ val[v].pc = "again"
    /\ Go(v, "certified")
    /\ UNCHANGED <<wrapped, owner, lease, receipts>>

\* The name, then the locator and both locks once more.
Again(v) ==
    /\ val[v].pc = "again"
    /\ IF locator[val[v].fd] = "current" THEN Go(v, "owner2") ELSE Refuse(v)
    /\ UNCHANGED <<wrapped, owner, lease, receipts>>

Return(v) ==
    /\ val[v].pc = "certified" /\ Refuse(v)
    /\ UNCHANGED <<wrapped, owner, lease, receipts>>

Next ==
    \/ \E w \in Wrappers :
          \/ run(w) \/ _ledger_before_launch(w) \/ ProbePrior(w) \/ ReleasePrior(w) \/ ClosePrior(w) \/ Publish(w)
          \/ \E frame \in Frames : observe(w, frame)
          \/ reject(w) \/ RejectWritten(w) \/ RejectReceipt(w)
          \/ Finish(w) \/ ReleaseLease(w) \/ ReleaseOwner(w) \/ Kill(w)
    \/ \E v \in Validators :
          \/ Open(v) \/ _held_owner(v) \/ OwnerFree(v) \/ _held_lease(v) \/ LeaseFree(v)
          \/ _locator(v) \/ Receipt(v) \/ Ended(v) \/ Name(v) \/ Again(v) \/ Return(v)

Spec == Init /\ [][Next]_vars

-----------------------------------------------------------------------------
(***************************************************************************)
(* Properties.                                                             *)
(***************************************************************************)
Handshakes == [initialize : {"no", "seen", "ok"}, initialized : BOOLEAN, tools : {"no", "asked", "ok"}]
Looks == {"rest", "owner1", "owner2", "owner_free", "lease1", "lease2", "lease_free",
          "locator", "receipt", "ended", "valid", "name", "again", "certified"}
Validations == [pc : Looks, fd : Wrappers \cup {0}]
TypeOK ==
    /\ wrap \in [Wrappers -> {"unborn", "owner", "probing", "probed", "starting", "relay", "rejecting",
                             "rejected", "disqualified", "closing", "releasing", "dead"}]
    /\ owner \in Wrappers \cup Validators \cup {None}
    /\ lease \in [Wrappers -> Wrappers \cup Validators \cup {None}]
    /\ locator \in [Wrappers -> {"empty", "current", "invalid"}]
    /\ linked \in Wrappers \cup {0}
    /\ hs \in [Wrappers -> Handshakes]
    /\ ready \subseteq Wrappers /\ invalid \subseteq Wrappers /\ closed \subseteq Wrappers
    /\ val \in [Validators -> Validations]

Certifies(v) == val[v].pc # "certified" /\ val'[v].pc = "certified"

\* Who takes a lock only to learn whether it is free.
Probing == {v \in Validators : val[v].pc \in {"owner_free", "lease_free"}} \cup {w \in Wrappers : wrap[w] = "probing"}

\* When a connection is certified its lease is held by its own wrapper, or by somebody who
\* probes it in this moment: never by nobody, and never by the wrapper that replaced it.
CertifiesHeldLease ==
    [][\A v \in Validators : Certifies(v) => lease[val[v].fd] \in {val[v].fd} \cup Probing]_vars

\* The second look at a connection whose handshake was contradicted never finds it current,
\* also when the receipt of its disqualification could not be written.
DisqualifiedNotCertified ==
    [][\A v \in Validators :
         val[v].pc = "again" /\ val'[v].pc \notin {"again", "rest"}
         => wrap[val[v].fd] \notin {"rejecting", "rejected", "disqualified"}]_vars

=============================================================================
