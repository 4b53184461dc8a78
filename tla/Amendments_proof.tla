-------------------------- MODULE Amendments_proof -------------------------
(***************************************************************************)
(* Theorems about what changes a prepared room.  McpAttachment: who may hold *)
(* the lock of a connection, and that a certification observes the           *)
(* connection it is about.  RuntimeAmendments (Runtime): that the files of a *)
(* runtime are those the two journals name, whatever crashes.                *)
(* ModelTransition (Model): that every request has the model of its epoch,   *)
(* and that a transition a crash cut can be closed.                          *)
(***************************************************************************)
EXTENDS MCAmendments, SequencesExt, WellFoundedInduction, SequenceTheorems, FiniteSetTheorems,
        TLAPS

-----------------------------------------------------------------------------
(***************************************************************************)
(* The inductive invariant.                                                *)
(***************************************************************************)
\* A wrapper between its start and its end.
Running(w) == wrap[w] \notin {"unborn", "dead"}
\* The wrappers that have published their connection and not yet given up its lock.
Serving(w) == wrap[w] \in {"relay", "rejecting", "rejected", "disqualified", "closing"}

\* owner.lock serves one wrapper at a time; a validator only holds it while it probes.
OwnerInv ==
    /\ \A w \in Wrappers : Running(w) => owner = w
    /\ \A v \in Validators : owner = v <=> val[v].pc = "owner_free"

\* The lock of a connection is held by the wrapper that serves it or by a probe of it, and
\* a wrapper that serves holds the lock of the connection it published.
LeaseInv ==
    /\ \A f \in Wrappers :
          \/ lease[f] = None
          \/ lease[f] = f /\ Serving(f)
          \/ \E v \in Validators : lease[f] = v /\ val[v].pc = "lease_free" /\ val[v].fd = f
          \/ \E w \in Wrappers : lease[f] = w /\ wrap[w] = "probing" /\ linked = f
    /\ \A f \in Wrappers : Serving(f) => lease[f] = f /\ linked = f
    /\ \A v \in Validators : val[v].pc = "lease_free" => lease[val[v].fd] = v
    /\ \A w \in Wrappers : wrap[w] = "probing" => linked # 0 /\ lease[linked] = w

\* A name stands for a connection some wrapper published, which no later one publishes again.
LinkInv ==
    /\ \A v \in Validators : val[v].pc # "rest" =>
          val[v].fd # 0 /\ wrap[val[v].fd] \notin {"unborn", "owner", "probing", "probed", "starting"}
    /\ linked # 0 => wrap[linked] \notin {"unborn", "owner", "probing", "probed", "starting"}
    /\ \A w \in Wrappers : wrap[w] \in {"unborn", "owner", "probing", "probed", "starting"} =>
          lease[w] = None /\ locator[w] = "empty"

\* The locator of a disqualified connection no longer calls it current.
RejectedInv ==
    \A w \in Wrappers : wrap[w] \in {"rejecting", "rejected", "disqualified"} => locator[w] # "current"

IInv == TypeOK /\ OwnerInv /\ LeaseInv /\ LinkInv /\ RejectedInv

-----------------------------------------------------------------------------
\* What a frame makes of a handshake is a handshake.
LEMMA HandshakeType ==
    ASSUME NEW h \in Handshakes, NEW frame \in Frames, Observed(h, frame) # None
    PROVE  Observed(h, frame) \in Handshakes
BY DEF Observed, Handshakes, Frames

\* A validator goes on to its next look, or gives up.
LEMMA GoType ==
    ASSUME TypeOK, NEW v \in Validators
    PROVE  /\ \A pc \in Looks : Go(v, pc) => val' \in [Validators -> Validations]
           /\ Refuse(v) => val' \in [Validators -> Validations]
<1>1. val \in [Validators -> Validations]
  BY DEF TypeOK
<1>2. ASSUME NEW pc \in Looks, Go(v, pc) PROVE val' \in [Validators -> Validations]
  <2>1. [val[v] EXCEPT !.pc = pc] \in Validations
    BY <1>1 DEF Validations
  <2>2. val' = [val EXCEPT ![v] = [val[v] EXCEPT !.pc = pc]]
    BY <1>2 DEF Go
  <2> QED BY <1>1, <2>1, <2>2
<1>3. ASSUME Refuse(v) PROVE val' \in [Validators -> Validations]
  BY <1>1, <1>3 DEF Refuse, AtRest, Validations, Looks
<1> QED BY <1>2, <1>3

LEMMA TypeStep ==
    ASSUME TypeOK, [Next]_vars
    PROVE  TypeOK'
<1> USE HoldersAssumption DEF TypeOK, Wrappers, wrapped, receipts
<1>1. ASSUME NEW w \in Wrappers, run(w) PROVE TypeOK'
  BY <1>1 DEF run
<1>2. ASSUME NEW w \in Wrappers, _ledger_before_launch(w) PROVE TypeOK'
  BY <1>2 DEF _ledger_before_launch
<1>3. ASSUME NEW w \in Wrappers, ProbePrior(w) PROVE TypeOK'
  <2>1. wrap' \in [Wrappers -> {"unborn", "owner", "probing", "probed", "starting", "relay", "rejecting",
                                "rejected", "disqualified", "closing", "releasing", "dead"}]
    BY <1>3 DEF ProbePrior
  <2>2. lease' \in [Wrappers -> Wrappers \cup Validators \cup {None}]
    BY <1>3 DEF ProbePrior
  <2>3. UNCHANGED <<owner, locator, linked, hs, receipts, val>>
    BY <1>3 DEF ProbePrior
  <2> QED BY <2>1, <2>2, <2>3
<1>4. ASSUME NEW w \in Wrappers, ReleasePrior(w) PROVE TypeOK'
  BY <1>4 DEF ReleasePrior
<1>5. ASSUME NEW w \in Wrappers, ClosePrior(w) PROVE TypeOK'
  BY <1>5 DEF ClosePrior
<1>6. ASSUME NEW w \in Wrappers, Publish(w) PROVE TypeOK'
  BY <1>6 DEF Publish
<1>7. ASSUME NEW w \in Wrappers, reject(w) PROVE TypeOK'
  BY <1>7 DEF reject
<1>8. ASSUME NEW w \in Wrappers, RejectWritten(w) PROVE TypeOK'
  BY <1>8 DEF RejectWritten
<1>9. ASSUME NEW w \in Wrappers, RejectReceipt(w) PROVE TypeOK'
  BY <1>9 DEF RejectReceipt
<1>10. ASSUME NEW w \in Wrappers, Finish(w) PROVE TypeOK'
  BY <1>10 DEF Finish
<1>11. ASSUME NEW w \in Wrappers, ReleaseLease(w) PROVE TypeOK'
  BY <1>11 DEF ReleaseLease
<1>12. ASSUME NEW w \in Wrappers, ReleaseOwner(w) PROVE TypeOK'
  BY <1>12 DEF ReleaseOwner, Handshakes, NoHandshake
<1>13. ASSUME NEW w \in Wrappers, Kill(w) PROVE TypeOK'
  BY <1>13 DEF Kill, Handshakes, NoHandshake
<1>14. ASSUME NEW w \in Wrappers, NEW frame \in Frames, observe(w, frame) PROVE TypeOK'
  BY <1>14, HandshakeType DEF observe, Proven
<1>15. ASSUME NEW v \in Validators, Open(v) PROVE TypeOK'
  BY <1>15 DEF Open, Validations, Looks
<1>16. ASSUME NEW v \in Validators, _held_owner(v) PROVE TypeOK'
  BY <1>16, GoType DEF _held_owner, Looks
<1>17. ASSUME NEW v \in Validators, OwnerFree(v) PROVE TypeOK'
  BY <1>17, GoType DEF OwnerFree
<1>18. ASSUME NEW v \in Validators, _held_lease(v) PROVE TypeOK'
  <2>1. val' \in [Validators -> Validations]
    BY <1>18, GoType DEF _held_lease, Looks
  <2>2. lease' = [lease EXCEPT ![val[v].fd] = v] \/ UNCHANGED lease
    BY <1>18 DEF _held_lease
  <2>3. lease' \in [Wrappers -> Wrappers \cup Validators \cup {None}]
    BY <2>2
  <2> QED BY <1>18, <2>1, <2>3 DEF _held_lease
<1>19. ASSUME NEW v \in Validators, LeaseFree(v) PROVE TypeOK'
  BY <1>19, GoType DEF LeaseFree
<1>20. ASSUME NEW v \in Validators, _locator(v) PROVE TypeOK'
  BY <1>20, GoType DEF _locator, Looks
<1>21. ASSUME NEW v \in Validators, Receipt(v) PROVE TypeOK'
  BY <1>21, GoType DEF Receipt, Looks
<1>22. ASSUME NEW v \in Validators, Ended(v) PROVE TypeOK'
  BY <1>22, GoType DEF Ended, Looks
<1>23. ASSUME NEW v \in Validators, Name(v) PROVE TypeOK'
  BY <1>23, GoType DEF Name, Looks
<1>24. ASSUME NEW v \in Validators, Again(v) PROVE TypeOK'
  BY <1>24, GoType DEF Again, Looks
<1>25. ASSUME NEW v \in Validators, Return(v) PROVE TypeOK'
  BY <1>25, GoType DEF Return
<1>26. CASE UNCHANGED vars
  BY <1>26 DEF vars
<1> QED BY <1>1, <1>2, <1>3, <1>4, <1>5, <1>6, <1>7, <1>8, <1>9, <1>10, <1>11, <1>12, <1>13,
           <1>14, <1>15, <1>16, <1>17, <1>18, <1>19, <1>20, <1>21, <1>22, <1>23, <1>24, <1>25,
           <1>26 DEF Next

LEMMA OwnerStep ==
    ASSUME IInv, [Next]_vars
    PROVE  OwnerInv'
<1> USE HoldersAssumption DEF IInv, TypeOK, Validations, Looks, OwnerInv, Running, wrapped, receipts
<1>1. ASSUME NEW w \in Wrappers, run(w) PROVE OwnerInv'
  BY <1>1 DEF run
<1>2. ASSUME NEW w \in Wrappers, _ledger_before_launch(w) PROVE OwnerInv'
  BY <1>2 DEF _ledger_before_launch
<1>3. ASSUME NEW w \in Wrappers, ProbePrior(w) PROVE OwnerInv'
  BY <1>3 DEF ProbePrior
<1>4. ASSUME NEW w \in Wrappers, ReleasePrior(w) PROVE OwnerInv'
  BY <1>4 DEF ReleasePrior
<1>5. ASSUME NEW w \in Wrappers, ClosePrior(w) PROVE OwnerInv'
  BY <1>5 DEF ClosePrior
<1>6. ASSUME NEW w \in Wrappers, Publish(w) PROVE OwnerInv'
  BY <1>6 DEF Publish
<1>7. ASSUME NEW w \in Wrappers, reject(w) PROVE OwnerInv'
  BY <1>7 DEF reject
<1>8. ASSUME NEW w \in Wrappers, RejectWritten(w) PROVE OwnerInv'
  BY <1>8 DEF RejectWritten
<1>9. ASSUME NEW w \in Wrappers, RejectReceipt(w) PROVE OwnerInv'
  BY <1>9 DEF RejectReceipt
<1>10. ASSUME NEW w \in Wrappers, Finish(w) PROVE OwnerInv'
  BY <1>10 DEF Finish
<1>11. ASSUME NEW w \in Wrappers, ReleaseLease(w) PROVE OwnerInv'
  BY <1>11 DEF ReleaseLease
<1>12. ASSUME NEW w \in Wrappers, ReleaseOwner(w) PROVE OwnerInv'
  BY <1>12 DEF ReleaseOwner
<1>13. ASSUME NEW w \in Wrappers, Kill(w) PROVE OwnerInv'
  BY <1>13 DEF Kill
<1>14. ASSUME NEW w \in Wrappers, NEW frame \in Frames, observe(w, frame) PROVE OwnerInv'
  BY <1>14 DEF observe
<1>15. ASSUME NEW v \in Validators, Open(v) PROVE OwnerInv'
  BY <1>15 DEF Open, Go, Refuse, AtRest
<1>16. ASSUME NEW v \in Validators, _held_owner(v) PROVE OwnerInv'
  BY <1>16 DEF _held_owner, Go, Refuse, AtRest
<1>17. ASSUME NEW v \in Validators, OwnerFree(v) PROVE OwnerInv'
  BY <1>17 DEF OwnerFree, Go, Refuse, AtRest
<1>18. ASSUME NEW v \in Validators, _held_lease(v) PROVE OwnerInv'
  BY <1>18 DEF _held_lease, Go, Refuse, AtRest
<1>19. ASSUME NEW v \in Validators, LeaseFree(v) PROVE OwnerInv'
  BY <1>19 DEF LeaseFree, Go, Refuse, AtRest
<1>20. ASSUME NEW v \in Validators, _locator(v) PROVE OwnerInv'
  BY <1>20 DEF _locator, Go, Refuse, AtRest
<1>21. ASSUME NEW v \in Validators, Receipt(v) PROVE OwnerInv'
  BY <1>21 DEF Receipt, Go, Refuse, AtRest
<1>22. ASSUME NEW v \in Validators, Ended(v) PROVE OwnerInv'
  BY <1>22 DEF Ended, Go, Refuse, AtRest
<1>23. ASSUME NEW v \in Validators, Name(v) PROVE OwnerInv'
  BY <1>23 DEF Name, Go, Refuse, AtRest
<1>24. ASSUME NEW v \in Validators, Again(v) PROVE OwnerInv'
  BY <1>24 DEF Again, Go, Refuse, AtRest
<1>25. ASSUME NEW v \in Validators, Return(v) PROVE OwnerInv'
  BY <1>25 DEF Return, Go, Refuse, AtRest
<1>26. CASE UNCHANGED vars
  BY <1>26 DEF vars
<1> QED BY <1>1, <1>2, <1>3, <1>4, <1>5, <1>6, <1>7, <1>8, <1>9, <1>10, <1>11, <1>12, <1>13,
           <1>14, <1>15, <1>16, <1>17, <1>18, <1>19, <1>20, <1>21, <1>22, <1>23, <1>24, <1>25,
           <1>26 DEF Next

LEMMA LeaseStep ==
    ASSUME IInv, [Next]_vars
    PROVE  LeaseInv'
<1> USE HoldersAssumption DEF IInv, TypeOK, Validations, Looks, OwnerInv, LeaseInv, LinkInv, Running, Serving, wrapped, receipts
<1>1. ASSUME NEW w \in Wrappers, run(w) PROVE LeaseInv'
  BY <1>1 DEF run
<1>2. ASSUME NEW w \in Wrappers, _ledger_before_launch(w) PROVE LeaseInv'
  BY <1>2 DEF _ledger_before_launch
<1>3. ASSUME NEW w \in Wrappers, ProbePrior(w) PROVE LeaseInv'
  BY <1>3 DEF ProbePrior
<1>4. ASSUME NEW w \in Wrappers, ReleasePrior(w) PROVE LeaseInv'
  BY <1>4 DEF ReleasePrior
<1>5. ASSUME NEW w \in Wrappers, ClosePrior(w) PROVE LeaseInv'
  BY <1>5 DEF ClosePrior
<1>6. ASSUME NEW w \in Wrappers, Publish(w) PROVE LeaseInv'
  BY <1>6 DEF Publish
<1>7. ASSUME NEW w \in Wrappers, reject(w) PROVE LeaseInv'
  BY <1>7 DEF reject
<1>8. ASSUME NEW w \in Wrappers, RejectWritten(w) PROVE LeaseInv'
  BY <1>8 DEF RejectWritten
<1>9. ASSUME NEW w \in Wrappers, RejectReceipt(w) PROVE LeaseInv'
  BY <1>9 DEF RejectReceipt
<1>10. ASSUME NEW w \in Wrappers, Finish(w) PROVE LeaseInv'
  BY <1>10 DEF Finish
<1>11. ASSUME NEW w \in Wrappers, ReleaseLease(w) PROVE LeaseInv'
  BY <1>11 DEF ReleaseLease
<1>12. ASSUME NEW w \in Wrappers, ReleaseOwner(w) PROVE LeaseInv'
  BY <1>12 DEF ReleaseOwner
<1>13. ASSUME NEW w \in Wrappers, Kill(w) PROVE LeaseInv'
  BY <1>13 DEF Kill
<1>14. ASSUME NEW w \in Wrappers, NEW frame \in Frames, observe(w, frame) PROVE LeaseInv'
  BY <1>14 DEF observe
<1>15. ASSUME NEW v \in Validators, Open(v) PROVE LeaseInv'
  BY <1>15 DEF Open, Go, Refuse, AtRest
<1>16. ASSUME NEW v \in Validators, _held_owner(v) PROVE LeaseInv'
  BY <1>16 DEF _held_owner, Go, Refuse, AtRest
<1>17. ASSUME NEW v \in Validators, OwnerFree(v) PROVE LeaseInv'
  BY <1>17 DEF OwnerFree, Go, Refuse, AtRest
<1>18. ASSUME NEW v \in Validators, _held_lease(v) PROVE LeaseInv'
  BY <1>18 DEF _held_lease, Go, Refuse, AtRest
<1>19. ASSUME NEW v \in Validators, LeaseFree(v) PROVE LeaseInv'
  BY <1>19 DEF LeaseFree, Go, Refuse, AtRest
<1>20. ASSUME NEW v \in Validators, _locator(v) PROVE LeaseInv'
  BY <1>20 DEF _locator, Go, Refuse, AtRest
<1>21. ASSUME NEW v \in Validators, Receipt(v) PROVE LeaseInv'
  BY <1>21 DEF Receipt, Go, Refuse, AtRest
<1>22. ASSUME NEW v \in Validators, Ended(v) PROVE LeaseInv'
  BY <1>22 DEF Ended, Go, Refuse, AtRest
<1>23. ASSUME NEW v \in Validators, Name(v) PROVE LeaseInv'
  BY <1>23 DEF Name, Go, Refuse, AtRest
<1>24. ASSUME NEW v \in Validators, Again(v) PROVE LeaseInv'
  BY <1>24 DEF Again, Go, Refuse, AtRest
<1>25. ASSUME NEW v \in Validators, Return(v) PROVE LeaseInv'
  BY <1>25 DEF Return, Go, Refuse, AtRest
<1>26. CASE UNCHANGED vars
  BY <1>26 DEF vars
<1> QED BY <1>1, <1>2, <1>3, <1>4, <1>5, <1>6, <1>7, <1>8, <1>9, <1>10, <1>11, <1>12, <1>13,
           <1>14, <1>15, <1>16, <1>17, <1>18, <1>19, <1>20, <1>21, <1>22, <1>23, <1>24, <1>25,
           <1>26 DEF Next

LEMMA LinkStep ==
    ASSUME IInv, [Next]_vars
    PROVE  LinkInv'
<1> USE HoldersAssumption DEF IInv, TypeOK, Validations, Looks, OwnerInv, LeaseInv, LinkInv, Running, Serving, wrapped, receipts
<1>1. ASSUME NEW w \in Wrappers, run(w) PROVE LinkInv'
  BY <1>1 DEF run
<1>2. ASSUME NEW w \in Wrappers, _ledger_before_launch(w) PROVE LinkInv'
  BY <1>2 DEF _ledger_before_launch
<1>3. ASSUME NEW w \in Wrappers, ProbePrior(w) PROVE LinkInv'
  BY <1>3 DEF ProbePrior
<1>4. ASSUME NEW w \in Wrappers, ReleasePrior(w) PROVE LinkInv'
  BY <1>4 DEF ReleasePrior
<1>5. ASSUME NEW w \in Wrappers, ClosePrior(w) PROVE LinkInv'
  BY <1>5 DEF ClosePrior
<1>6. ASSUME NEW w \in Wrappers, Publish(w) PROVE LinkInv'
  BY <1>6 DEF Publish
<1>7. ASSUME NEW w \in Wrappers, reject(w) PROVE LinkInv'
  BY <1>7 DEF reject
<1>8. ASSUME NEW w \in Wrappers, RejectWritten(w) PROVE LinkInv'
  BY <1>8 DEF RejectWritten
<1>9. ASSUME NEW w \in Wrappers, RejectReceipt(w) PROVE LinkInv'
  BY <1>9 DEF RejectReceipt
<1>10. ASSUME NEW w \in Wrappers, Finish(w) PROVE LinkInv'
  BY <1>10 DEF Finish
<1>11. ASSUME NEW w \in Wrappers, ReleaseLease(w) PROVE LinkInv'
  BY <1>11 DEF ReleaseLease
<1>12. ASSUME NEW w \in Wrappers, ReleaseOwner(w) PROVE LinkInv'
  BY <1>12 DEF ReleaseOwner
<1>13. ASSUME NEW w \in Wrappers, Kill(w) PROVE LinkInv'
  BY <1>13 DEF Kill
<1>14. ASSUME NEW w \in Wrappers, NEW frame \in Frames, observe(w, frame) PROVE LinkInv'
  BY <1>14 DEF observe
<1>15. ASSUME NEW v \in Validators, Open(v) PROVE LinkInv'
  BY <1>15 DEF Open, Go, Refuse, AtRest
<1>16. ASSUME NEW v \in Validators, _held_owner(v) PROVE LinkInv'
  BY <1>16 DEF _held_owner, Go, Refuse, AtRest
<1>17. ASSUME NEW v \in Validators, OwnerFree(v) PROVE LinkInv'
  BY <1>17 DEF OwnerFree, Go, Refuse, AtRest
<1>18. ASSUME NEW v \in Validators, _held_lease(v) PROVE LinkInv'
  BY <1>18 DEF _held_lease, Go, Refuse, AtRest
<1>19. ASSUME NEW v \in Validators, LeaseFree(v) PROVE LinkInv'
  BY <1>19 DEF LeaseFree, Go, Refuse, AtRest
<1>20. ASSUME NEW v \in Validators, _locator(v) PROVE LinkInv'
  BY <1>20 DEF _locator, Go, Refuse, AtRest
<1>21. ASSUME NEW v \in Validators, Receipt(v) PROVE LinkInv'
  BY <1>21 DEF Receipt, Go, Refuse, AtRest
<1>22. ASSUME NEW v \in Validators, Ended(v) PROVE LinkInv'
  BY <1>22 DEF Ended, Go, Refuse, AtRest
<1>23. ASSUME NEW v \in Validators, Name(v) PROVE LinkInv'
  BY <1>23 DEF Name, Go, Refuse, AtRest
<1>24. ASSUME NEW v \in Validators, Again(v) PROVE LinkInv'
  BY <1>24 DEF Again, Go, Refuse, AtRest
<1>25. ASSUME NEW v \in Validators, Return(v) PROVE LinkInv'
  BY <1>25 DEF Return, Go, Refuse, AtRest
<1>26. CASE UNCHANGED vars
  BY <1>26 DEF vars
<1> QED BY <1>1, <1>2, <1>3, <1>4, <1>5, <1>6, <1>7, <1>8, <1>9, <1>10, <1>11, <1>12, <1>13,
           <1>14, <1>15, <1>16, <1>17, <1>18, <1>19, <1>20, <1>21, <1>22, <1>23, <1>24, <1>25,
           <1>26 DEF Next

LEMMA RejectedStep ==
    ASSUME IInv, [Next]_vars
    PROVE  RejectedInv'
<1> USE HoldersAssumption DEF IInv, TypeOK, Validations, Looks, LinkInv, RejectedInv, wrapped, receipts
<1>1. ASSUME NEW w \in Wrappers, run(w) PROVE RejectedInv'
  BY <1>1 DEF run
<1>2. ASSUME NEW w \in Wrappers, _ledger_before_launch(w) PROVE RejectedInv'
  BY <1>2 DEF _ledger_before_launch
<1>3. ASSUME NEW w \in Wrappers, ProbePrior(w) PROVE RejectedInv'
  BY <1>3 DEF ProbePrior
<1>4. ASSUME NEW w \in Wrappers, ReleasePrior(w) PROVE RejectedInv'
  BY <1>4 DEF ReleasePrior
<1>5. ASSUME NEW w \in Wrappers, ClosePrior(w) PROVE RejectedInv'
  BY <1>5 DEF ClosePrior
<1>6. ASSUME NEW w \in Wrappers, Publish(w) PROVE RejectedInv'
  BY <1>6 DEF Publish
<1>7. ASSUME NEW w \in Wrappers, reject(w) PROVE RejectedInv'
  BY <1>7 DEF reject
<1>8. ASSUME NEW w \in Wrappers, RejectWritten(w) PROVE RejectedInv'
  BY <1>8 DEF RejectWritten
<1>9. ASSUME NEW w \in Wrappers, RejectReceipt(w) PROVE RejectedInv'
  BY <1>9 DEF RejectReceipt
<1>10. ASSUME NEW w \in Wrappers, Finish(w) PROVE RejectedInv'
  BY <1>10 DEF Finish
<1>11. ASSUME NEW w \in Wrappers, ReleaseLease(w) PROVE RejectedInv'
  BY <1>11 DEF ReleaseLease
<1>12. ASSUME NEW w \in Wrappers, ReleaseOwner(w) PROVE RejectedInv'
  BY <1>12 DEF ReleaseOwner
<1>13. ASSUME NEW w \in Wrappers, Kill(w) PROVE RejectedInv'
  BY <1>13 DEF Kill
<1>14. ASSUME NEW w \in Wrappers, NEW frame \in Frames, observe(w, frame) PROVE RejectedInv'
  BY <1>14 DEF observe
<1>15. ASSUME NEW v \in Validators, Open(v) PROVE RejectedInv'
  BY <1>15 DEF Open, Go, Refuse, AtRest
<1>16. ASSUME NEW v \in Validators, _held_owner(v) PROVE RejectedInv'
  BY <1>16 DEF _held_owner, Go, Refuse, AtRest
<1>17. ASSUME NEW v \in Validators, OwnerFree(v) PROVE RejectedInv'
  BY <1>17 DEF OwnerFree, Go, Refuse, AtRest
<1>18. ASSUME NEW v \in Validators, _held_lease(v) PROVE RejectedInv'
  BY <1>18 DEF _held_lease, Go, Refuse, AtRest
<1>19. ASSUME NEW v \in Validators, LeaseFree(v) PROVE RejectedInv'
  BY <1>19 DEF LeaseFree, Go, Refuse, AtRest
<1>20. ASSUME NEW v \in Validators, _locator(v) PROVE RejectedInv'
  BY <1>20 DEF _locator, Go, Refuse, AtRest
<1>21. ASSUME NEW v \in Validators, Receipt(v) PROVE RejectedInv'
  BY <1>21 DEF Receipt, Go, Refuse, AtRest
<1>22. ASSUME NEW v \in Validators, Ended(v) PROVE RejectedInv'
  BY <1>22 DEF Ended, Go, Refuse, AtRest
<1>23. ASSUME NEW v \in Validators, Name(v) PROVE RejectedInv'
  BY <1>23 DEF Name, Go, Refuse, AtRest
<1>24. ASSUME NEW v \in Validators, Again(v) PROVE RejectedInv'
  BY <1>24 DEF Again, Go, Refuse, AtRest
<1>25. ASSUME NEW v \in Validators, Return(v) PROVE RejectedInv'
  BY <1>25 DEF Return, Go, Refuse, AtRest
<1>26. CASE UNCHANGED vars
  BY <1>26 DEF vars
<1> QED BY <1>1, <1>2, <1>3, <1>4, <1>5, <1>6, <1>7, <1>8, <1>9, <1>10, <1>11, <1>12, <1>13,
           <1>14, <1>15, <1>16, <1>17, <1>18, <1>19, <1>20, <1>21, <1>22, <1>23, <1>24, <1>25,
           <1>26 DEF Next

-----------------------------------------------------------------------------
(***************************************************************************)
(* Theorems.                                                               *)
(***************************************************************************)
\* The locks are held, and the connections named, as the wrappers and the probes of
\* ao_mcp_attachment.py do.
THEOREM AttachmentInvariant == Spec => []IInv
<1>1. Init => IInv
  BY HoldersAssumption DEF Init, IInv, TypeOK, OwnerInv, LeaseInv, LinkInv, RejectedInv,
     Running, Serving,
     NoHandshake, Handshakes, AtRest, Validations, Looks, Wrappers
<1>2. IInv /\ [Next]_vars => IInv'
  BY TypeStep, OwnerStep, LeaseStep, LinkStep, RejectedStep DEF IInv
<1> QED BY <1>1, <1>2, PTL DEF Spec

\* The type invariant of the attachment.
THEOREM TypeCorrect == Spec => []TypeOK
BY AttachmentInvariant, PTL DEF IInv

\* The last look of _validate_attachment before it certifies finds the lease of that very
\* connection held by its wrapper or probed in this moment: never free, never a successor's.
THEOREM LeaseCertified == Spec => CertifiesHeldLease
<1>1. IInv /\ [Next]_vars
      => [\A v \in Validators : Certifies(v) => lease[val[v].fd] \in {val[v].fd} \cup Probing]_vars
  <2> SUFFICES ASSUME IInv, [Next]_vars, NEW v \in Validators, Certifies(v)
               PROVE  lease[val[v].fd] \in {val[v].fd} \cup Probing
    OBVIOUS
  <2>1. lease[val[v].fd] # None /\ val[v].pc = "lease2"
    <3>1. ASSUME NEW w \in Wrappers,
                 \/ run(w) \/ _ledger_before_launch(w) \/ ProbePrior(w) \/ ReleasePrior(w) \/ ClosePrior(w)
                 \/ Publish(w) \/ reject(w) \/ RejectWritten(w) \/ RejectReceipt(w) \/ Finish(w)
                 \/ ReleaseLease(w) \/ ReleaseOwner(w) \/ Kill(w) \/ \E frame \in Frames : observe(w, frame)
          PROVE  UNCHANGED val
      BY <3>1 DEF run, _ledger_before_launch, ProbePrior, ReleasePrior, ClosePrior, Publish, reject,
         RejectWritten, RejectReceipt, Finish, ReleaseLease, ReleaseOwner, Kill, observe
    <3>2. ASSUME NEW u \in Validators,
                 \/ Open(u) \/ _held_owner(u) \/ OwnerFree(u) \/ LeaseFree(u) \/ _locator(u) \/ Receipt(u)
                 \/ Ended(u) \/ Name(u) \/ Again(u) \/ Return(u)
          PROVE  val'[v].pc # "certified" \/ val'[v] = val[v]
      BY <3>2 DEF IInv, TypeOK, Validations, Open, _held_owner, OwnerFree, LeaseFree, _locator,
         Receipt,
         Ended, Name, Again, Return, Go, Refuse, AtRest
    <3>3. ASSUME NEW u \in Validators, _held_lease(u)
          PROVE  lease[val[v].fd] # None /\ val[v].pc = "lease2"
      BY <3>3 DEF IInv, TypeOK, Validations, _held_lease, Go, Certifies
    <3>4. CASE UNCHANGED vars
      BY <3>4 DEF vars, Certifies
    <3> QED BY <3>1, <3>2, <3>3, <3>4 DEF Next, Certifies
  <2>2. val[v].fd \in Wrappers
    BY <2>1 DEF IInv, TypeOK, Validations, LinkInv
  <2> QED BY <2>1, <2>2 DEF IInv, LeaseInv, Probing
<1> QED BY <1>1, AttachmentInvariant, PTL DEF Spec, CertifiesHeldLease

\* A connection whose handshake was contradicted is not certified by the second look of
\* _validate_attachment: reject withdraws the locator before anything else.
THEOREM DisqualifiedRefused == Spec => DisqualifiedNotCertified
<1>1. IInv /\ [Next]_vars
      => [\A v \in Validators :
            val[v].pc = "again" /\ val'[v].pc \notin {"again", "rest"}
            => wrap[val[v].fd] \notin {"rejecting", "rejected", "disqualified"}]_vars
  <2> SUFFICES ASSUME IInv, [Next]_vars, NEW v \in Validators,
                      val[v].pc = "again", val'[v].pc \notin {"again", "rest"}
               PROVE  wrap[val[v].fd] \notin {"rejecting", "rejected", "disqualified"}
    OBVIOUS
  <2>1. locator[val[v].fd] = "current"
    <3>1. ASSUME NEW w \in Wrappers,
                 \/ run(w) \/ _ledger_before_launch(w) \/ ProbePrior(w) \/ ReleasePrior(w) \/ ClosePrior(w)
                 \/ Publish(w) \/ reject(w) \/ RejectWritten(w) \/ RejectReceipt(w) \/ Finish(w)
                 \/ ReleaseLease(w) \/ ReleaseOwner(w) \/ Kill(w) \/ \E frame \in Frames : observe(w, frame)
          PROVE  UNCHANGED val
      BY <3>1 DEF run, _ledger_before_launch, ProbePrior, ReleasePrior, ClosePrior, Publish, reject,
         RejectWritten, RejectReceipt, Finish, ReleaseLease, ReleaseOwner, Kill, observe
    <3>2. ASSUME NEW u \in Validators,
                 \/ Open(u) \/ _held_owner(u) \/ OwnerFree(u) \/ _held_lease(u) \/ LeaseFree(u) \/ _locator(u)
                 \/ Receipt(u) \/ Ended(u) \/ Name(u) \/ Return(u)
          PROVE  val'[v] = val[v]
      BY <3>2 DEF IInv, TypeOK, Validations, Open, _held_owner, OwnerFree, _held_lease,
         LeaseFree, _locator,
         Receipt, Ended, Name, Return, Go, Refuse, AtRest
    <3>3. ASSUME NEW u \in Validators, Again(u) PROVE locator[val[v].fd] = "current"
      BY <3>3 DEF IInv, TypeOK, Validations, Again, Go, Refuse, AtRest
    <3>4. CASE UNCHANGED vars
      BY <3>4 DEF vars
    <3> QED BY <3>1, <3>2, <3>3, <3>4 DEF Next
  <2>2. val[v].fd \in Wrappers
    BY DEF IInv, TypeOK, Validations, LinkInv
  <2> QED BY <2>1, <2>2 DEF IInv, RejectedInv
<1> QED BY <1>1, AttachmentInvariant, PTL DEF Spec, DisqualifiedNotCertified

-----------------------------------------------------------------------------
(***************************************************************************)
(* The runtime of an engineer and its two journals.                        *)
(***************************************************************************)
\* What the room stores: routings, frozen expectations and notices, requests and intents.
Routing == [guard : Nat, work : Nat]
Expectation == [authority : Nat, routing : Routing]
Request == [purpose : Runtime!Purposes, state : {"open", "completed"},
            frozen : Expectation \cup {None}, notices : SUBSET Expectation]
Digest == (Seq(Request) \X Nat \X Nat) \X Nat \X Nat
Repair == [source : Nat, target : Nat, lane : {"repair", "upgrade"}, before : Digest]
Refresh == [source : Routing, target : Routing, cand : 0..1, before : Digest]

\* A journal holds what state.json names, and at most one intent more.
JournalOf(S) == {j \in [files : Seq(S), n : Nat] : Len(j.files) \in {j.n, j.n + 1}}

\* What a room, its journals and its amendment under way hold.
RuntimeType ==
    /\ prepared \in Routing /\ package \in Routing /\ policy \in BOOLEAN /\ sending \in BOOLEAN
    /\ requests \in Seq(Request) /\ {rev, applications, changes} \subseteq Nat /\ tree \in 0..1
    /\ repairs \in JournalOf(Repair) /\ refreshes \in JournalOf(Refresh)
    /\ files \in [1..3 -> Nat]
    /\ native \in [controller : {"ready", "stopped"}, running : BOOLEAN]
    /\ window \in {Runtime!Idle, [op |-> "bind"]} \cup [op : {"refresh"}, step : 0..4]

\* An amendment between two of its writes has its intent, and no request is open beside it.
AmendmentInv ==
    /\ window.op = "bind" => Runtime!Unclaimed(repairs)
    /\ window.op = "refresh" => Runtime!Unclaimed(refreshes)
    /\ window # Runtime!Idle => Runtime!finished

\* The executable an intent names is new enough for the workers selected, which stay while
\* the intent is there.
TargetFits == Runtime!Unclaimed(repairs) => Runtime!check_qualified_floors(Runtime!routing, Runtime!Last(repairs.files).target)

\* The record an expectation names is there, and of this very routing.
Named(x) ==
    \/ x.authority = 0 /\ x.routing = prepared
    \/ x.authority \in 1..refreshes.n /\ refreshes.files[x.authority].target = x.routing
\* What the requests have frozen and were told is named.
ExpectationsNamed ==
    \A i \in DOMAIN requests :
        /\ requests[i].frozen # None => Named(requests[i].frozen)
        /\ \A x \in requests[i].notices : Named(x)

\* The invariant of the runtime of an engineer.
RuntimeInv ==
    /\ RuntimeType /\ AmendmentInv /\ TargetFits /\ ExpectationsNamed
    /\ Runtime!FloorsHold /\ Runtime!RuntimeExplained /\ Runtime!OneIntentAtATime

\* Publishing adds an intent behind what is named.
LEMMA Published ==
    ASSUME NEW S, NEW j \in JournalOf(S), Runtime!_chain(j), NEW r \in S, NEW k, k = Runtime!_publish_intent(j, r)
    PROVE  /\ k \in JournalOf(S) /\ k.n = j.n /\ Runtime!Unclaimed(k) /\ Runtime!Last(k.files) = r
           /\ \A i \in 1..j.n : k.files[i] = j.files[i]
<1>1. j.files \in Seq(S) /\ j.n \in Nat /\ Len(j.files) = j.n /\ j \in [files : Seq(S), n : Nat]
  BY DEF JournalOf, Runtime!_chain, Runtime!Unclaimed
<1>2. k = [files |-> Append(j.files, r), n |-> j.n]
  BY <1>1 DEF Runtime!_publish_intent
<1>3. Append(j.files, r) \in Seq(S) /\ Len(Append(j.files, r)) = j.n + 1
      /\ Append(j.files, r)[j.n + 1] = r /\ \A i \in 1..j.n : Append(j.files, r)[i] = j.files[i]
  BY <1>1
<1> QED BY <1>1, <1>2, <1>3 DEF JournalOf, Runtime!Unclaimed, Runtime!Last

\* Claiming names the last intent.
LEMMA Claimed ==
    ASSUME NEW S, NEW j \in JournalOf(S), Runtime!Unclaimed(j), NEW k, k = Runtime!Claim(j)
    PROVE  /\ k \in JournalOf(S) /\ k.files = j.files /\ k.n = j.n + 1 /\ Runtime!_chain(k)
           /\ k.files[k.n] = Runtime!Last(j.files) /\ Runtime!Last(j.files) \in S
<1>1. j.files \in Seq(S) /\ j.n \in Nat /\ Len(j.files) = j.n + 1 /\ j \in [files : Seq(S), n : Nat]
  BY DEF JournalOf, Runtime!Unclaimed
<1>2. k = [files |-> j.files, n |-> j.n + 1]
  BY <1>1 DEF Runtime!Claim
<1> QED BY <1>1, <1>2 DEF JournalOf, Runtime!_chain, Runtime!Unclaimed, Runtime!Last

\* What is in force is an executable and a routing.
LEMMA InForce ==
    ASSUME RuntimeType
    PROVE  Runtime!executable \in Nat /\ Runtime!routing \in Routing
<1>1. repairs.n \in Nat /\ repairs.n <= Len(repairs.files) /\ repairs.files \in Seq(Repair)
  BY DEF RuntimeType, JournalOf
<1>2. refreshes.n \in Nat /\ refreshes.n <= Len(refreshes.files) /\ refreshes.files \in Seq(Refresh)
  BY DEF RuntimeType, JournalOf
<1>3. repairs.n # 0 => repairs.files[repairs.n] \in Repair
  BY <1>1
<1>4. refreshes.n # 0 => refreshes.files[refreshes.n] \in Refresh
  BY <1>2
<1> QED BY <1>3, <1>4 DEF Runtime!executable, Runtime!routing, RuntimeType, Repair, Refresh

\* The digest that an intent records.
LEMMA DigestType ==
    ASSUME RuntimeType
    PROVE  Runtime!_state_digest \in Digest
BY DEF RuntimeType, JournalOf, Runtime!_state_digest, Runtime!room, Digest

\* What an unclaimed intent names.
LEMMA LastIntents ==
    ASSUME RuntimeType
    PROVE  /\ Runtime!Unclaimed(repairs) => Runtime!Last(repairs.files) \in Repair
           /\ Runtime!Unclaimed(refreshes) => Runtime!Last(refreshes.files) \in Refresh
BY Claimed DEF RuntimeType

\* What a send freezes and discloses.
LEMMA SentExpectations ==
    ASSUME RuntimeType, NEW purpose \in Runtime!Purposes
    PROVE  /\ Runtime!freeze(purpose) \in Expectation \cup {None}
           /\ Runtime!pending_notices(purpose) \in SUBSET Expectation
           /\ Runtime!freeze(purpose) # None => Named(Runtime!freeze(purpose))
           /\ \A x \in Runtime!pending_notices(purpose) : Named(x)
<1> DEFINE x == [authority |-> refreshes.n, routing |-> Runtime!routing]
<1>1. refreshes.n \in Nat /\ Runtime!routing \in Routing
  BY InForce DEF RuntimeType, JournalOf
<1>2. x \in Expectation
  BY <1>1 DEF Expectation
<1>3. Named(x)
  BY <1>1 DEF Named, Runtime!routing
<1>4. Runtime!freeze(purpose) \in {x, None} /\ Runtime!pending_notices(purpose) \subseteq {x}
  BY DEF Runtime!freeze, Runtime!pending_notices, Runtime!current_worker_boundary,
     Runtime!authority_in_force
<1> QED BY <1>2, <1>3, <1>4

\* Every step keeps the types: a journal grows by one intent and is claimed one at a time.
LEMMA RuntimeTypeStep ==
    ASSUME RuntimeType, AmendmentInv, [Runtime!Next]_Runtime!vars
    PROVE  RuntimeType'
<1> USE AmendmentBounds
<1>1. CASE UNCHANGED Runtime!vars
  BY <1>1 DEF RuntimeType, Runtime!vars, Runtime!room, Runtime!journals, Runtime!beside,
     JournalOf, Runtime!Unclaimed
<1>2. CASE Runtime!StandingApply \/ Runtime!SendRefused \/ Runtime!spec_put
  <2>1. CASE Runtime!StandingApply
    BY <2>1 DEF RuntimeType, Runtime!StandingApply, Runtime!journals, Runtime!beside
  <2>2. CASE Runtime!SendRefused
    BY <2>2 DEF RuntimeType, Runtime!SendRefused, Runtime!journals, Runtime!beside, Runtime!room
  <2>3. CASE Runtime!spec_put
    BY <2>3 DEF RuntimeType, Runtime!spec_put, Runtime!journals, Runtime!beside
  <2> QED BY <1>2, <2>1, <2>2, <2>3
<1>3. CASE \E purpose \in Runtime!Purposes : Runtime!Send(purpose)
  <2>1. PICK purpose \in Runtime!Purposes : Runtime!Send(purpose)
    BY <1>3
  <2> DEFINE r == [purpose |-> purpose, state |-> "open",
                   frozen |-> Runtime!freeze(purpose), notices |-> Runtime!pending_notices(purpose)]
  <2>2. r \in Request
    BY SentExpectations DEF Request
  <2>3. requests' = Append(requests, r)
    BY <2>1 DEF Runtime!Send
  <2>4. requests' \in Seq(Request)
    BY <2>2, <2>3 DEF RuntimeType
  <2> QED BY <2>1, <2>4 DEF RuntimeType, Runtime!Send, Runtime!journals
<1>4. CASE Runtime!sync
  <2>1. requests # <<>>
    BY <1>4 DEF Runtime!sync, Runtime!finished, RuntimeType
  <2>2. requests' = [requests EXCEPT ![Len(requests)].state = "completed"]
    BY <1>4 DEF Runtime!sync
  <2>3. requests[Len(requests)] \in Request /\ Len(requests) \in DOMAIN requests
    BY <2>1 DEF RuntimeType
  <2>4. [requests[Len(requests)] EXCEPT !.state = "completed"] \in Request
    BY <2>3 DEF Request
  <2>5. requests' \in Seq(Request)
    BY <2>2, <2>3, <2>4 DEF RuntimeType
  <2> QED BY <1>4, <2>5 DEF RuntimeType, Runtime!sync, Runtime!journals, Runtime!beside
<1>5. CASE \E target \in 1..MaxExe, lane \in {"repair", "upgrade"} : Runtime!BindNew(target, lane)
  <2>1. PICK target \in 1..MaxExe, lane \in {"repair", "upgrade"} : Runtime!BindNew(target, lane)
    BY <1>5
  <2> DEFINE r == [source |-> Runtime!executable, target |-> target, lane |-> lane, before |-> Runtime!_state_digest]
  <2>2. r \in Repair
    BY InForce, DigestType DEF Repair
  <2>3. Runtime!_chain(repairs) /\ repairs' = Runtime!_publish_intent(repairs, r)
    BY <2>1 DEF Runtime!BindNew
  <2>4. repairs' \in JournalOf(Repair)
    BY <2>2, <2>3, Published DEF RuntimeType
  <2> QED BY <2>1, <2>4 DEF RuntimeType, Runtime!BindNew, Runtime!room, Runtime!beside
<1>6. CASE Runtime!BindReconcile \/ Runtime!RefreshReconcile \/ Runtime!_place_guard \/ Runtime!Crash
  <2>1. CASE Runtime!BindReconcile
    BY <2>1 DEF RuntimeType, Runtime!BindReconcile, Runtime!room, Runtime!journals, Runtime!beside
  <2>2. CASE Runtime!RefreshReconcile
    BY <2>2 DEF RuntimeType, Runtime!RefreshReconcile, Runtime!room, Runtime!journals,
       Runtime!beside
  <2>3. CASE Runtime!_place_guard
    <3>1. window' \in [op : {"refresh"}, step : 0..4]
      BY <2>3 DEF RuntimeType, Runtime!_place_guard, Runtime!Idle
    <3> QED BY <2>3, <3>1 DEF RuntimeType, Runtime!_place_guard, Runtime!room, Runtime!journals,
               Runtime!beside
  <2>4. CASE Runtime!Crash
    BY <2>4 DEF RuntimeType, Runtime!Crash, Runtime!room, Runtime!journals, Runtime!beside,
       Runtime!Troubled
  <2> QED BY <1>6, <2>1, <2>2, <2>3, <2>4
<1>7. CASE Runtime!BindCommit
  <2>1. repairs' = Runtime!Claim(repairs) \/ repairs' = repairs
    BY <1>7 DEF Runtime!BindCommit
  <2>2. repairs' \in JournalOf(Repair)
    BY <1>7, <2>1, Claimed DEF RuntimeType, Runtime!BindCommit, AmendmentInv
  <2> QED BY <1>7, <2>2 DEF RuntimeType, Runtime!BindCommit, Runtime!room, Runtime!beside
<1>8. CASE \E selection \in {"kept", "qualified"} : Runtime!RefreshNew(selection)
  <2>1. PICK selection \in {"kept", "qualified"} : Runtime!RefreshNew(selection)
    BY <1>8
  <2> DEFINE r == [source |-> Runtime!routing, target |-> Runtime!_build(selection, Runtime!routing), cand |-> tree,
                   before |-> Runtime!_state_digest]
  <2>2. r \in Refresh
    BY InForce, DigestType DEF Refresh, RuntimeType, Routing, Runtime!_build, Runtime!Route
  <2>3. Runtime!_chain(refreshes) /\ refreshes' = Runtime!_publish_intent(refreshes, r)
    BY <2>1 DEF Runtime!RefreshNew
  <2>4. refreshes' \in JournalOf(Refresh)
    BY <2>2, <2>3, Published DEF RuntimeType
  <2> QED BY <2>1, <2>4 DEF RuntimeType, Runtime!RefreshNew, Runtime!room, Runtime!beside
<1>9. CASE Runtime!_replace_runtime
  <2>1. Runtime!Last(refreshes.files) \in Refresh
    BY <1>9, LastIntents DEF Runtime!_replace_runtime, AmendmentInv
  <2>2. window.step \in 1..3
    BY <1>9 DEF Runtime!_replace_runtime, RuntimeType
  <2>3. Runtime!Image(Runtime!Last(refreshes.files).target)[window.step] \in Nat
    BY <2>1, <2>2 DEF Runtime!Image, Refresh, Routing
  <2>4. files' \in [1..3 -> Nat]
    BY <1>9, <2>3 DEF Runtime!_replace_runtime, RuntimeType
  <2>5. window' \in [op : {"refresh"}, step : 0..4]
    BY <1>9, <2>2 DEF Runtime!_replace_runtime, RuntimeType, Runtime!Idle
  <2> QED BY <1>9, <2>4, <2>5 DEF RuntimeType, Runtime!_replace_runtime, Runtime!room,
             Runtime!journals, Runtime!beside
<1>10. CASE Runtime!RefreshCommit
  <2>1. refreshes' = Runtime!Claim(refreshes) \/ refreshes' = refreshes
    BY <1>10 DEF Runtime!RefreshCommit
  <2>2. refreshes' \in JournalOf(Refresh)
    BY <1>10, <2>1, Claimed DEF RuntimeType, Runtime!RefreshCommit, AmendmentInv
  <2> QED BY <1>10, <2>2 DEF RuntimeType, Runtime!RefreshCommit, Runtime!room, Runtime!beside
<1>11. CASE Runtime!CandidateMoves \/ Runtime!TurnEnds \/ Runtime!Stop \/ Runtime!Start
  <2>1. CASE Runtime!CandidateMoves
    BY <2>1 DEF RuntimeType, Runtime!CandidateMoves, Runtime!room, Runtime!journals,
       Runtime!Troubled
  <2>2. CASE Runtime!TurnEnds
    BY <2>2 DEF RuntimeType, Runtime!TurnEnds, Runtime!room, Runtime!journals
  <2>3. CASE Runtime!Stop
    BY <2>3 DEF RuntimeType, Runtime!Stop, Runtime!room, Runtime!journals
  <2>4. CASE Runtime!Start
    <3>1. native' \in [controller : {"ready", "stopped"}, running : BOOLEAN]
      BY <2>4 DEF RuntimeType, Runtime!Start
    <3> QED BY <2>4, <3>1 DEF RuntimeType, Runtime!Start, Runtime!room, Runtime!journals,
               Runtime!Troubled
  <2> QED BY <1>11, <2>1, <2>2, <2>3, <2>4
<1>12. CASE \E g \in 0..MaxGuard, w \in 1..MaxWork : Runtime!Install(g, w)
  <2>1. package' \in Routing
    BY <1>12 DEF Runtime!Install, Routing, Runtime!Route
  <2>2. changes' \in Nat
    BY <1>12 DEF RuntimeType, Runtime!Install, Runtime!Troubled
  <2>3. UNCHANGED <<prepared, policy, requests, rev, applications, repairs, refreshes, files,
                    native, tree, sending, window>>
    BY <1>12 DEF Runtime!Install, Runtime!room, Runtime!journals
  <2> QED BY <2>1, <2>2, <2>3 DEF RuntimeType
<1>13. CASE \E e \in 1..MaxExe : Runtime!ExecutableLost(e)
  BY <1>13 DEF RuntimeType, Runtime!ExecutableLost, Runtime!Troubled, Runtime!room, Runtime!journals
<1> QED BY <1>1, <1>2, <1>3, <1>4, <1>5, <1>6, <1>7, <1>8, <1>9, <1>10, <1>11, <1>12,
           <1>13 DEF Runtime!Next

\* What neither amends the runtime nor opens or closes a request keeps the invariant.
LEMMA RuntimeFrame ==
    ASSUME RuntimeInv, RuntimeType', AmendmentInv',
           UNCHANGED <<prepared, requests, repairs, refreshes, files>>
    PROVE  RuntimeInv'
<1>1. Runtime!routing' = Runtime!routing /\ Runtime!executable' = Runtime!executable
  BY DEF Runtime!routing, Runtime!executable
<1>2. Runtime!Unclaimed(repairs)' = Runtime!Unclaimed(repairs) /\ Runtime!Unclaimed(refreshes)' = Runtime!Unclaimed(refreshes)
  BY DEF Runtime!Unclaimed
<1>3. ExpectationsNamed'
  BY DEF RuntimeInv, ExpectationsNamed, Named
<1>4. TargetFits' /\ Runtime!FloorsHold' /\ Runtime!OneIntentAtATime'
  BY <1>1, <1>2 DEF RuntimeInv, TargetFits, Runtime!FloorsHold, Runtime!OneIntentAtATime
<1>5. Runtime!RuntimeExplained'
  BY <1>1 DEF RuntimeInv, Runtime!RuntimeExplained
<1> QED BY <1>3, <1>4, <1>5 DEF RuntimeInv

\* The same of a step that only sends or completes a request.
LEMMA RequestFrame ==
    ASSUME RuntimeInv, RuntimeType', AmendmentInv', ExpectationsNamed',
           UNCHANGED <<prepared, repairs, refreshes, files>>
    PROVE  RuntimeInv'
<1>1. Runtime!routing' = Runtime!routing /\ Runtime!executable' = Runtime!executable
  BY DEF Runtime!routing, Runtime!executable
<1>2. Runtime!Unclaimed(repairs)' = Runtime!Unclaimed(repairs) /\ Runtime!Unclaimed(refreshes)' = Runtime!Unclaimed(refreshes)
  BY DEF Runtime!Unclaimed
<1>3. TargetFits' /\ Runtime!FloorsHold' /\ Runtime!OneIntentAtATime'
  BY <1>1, <1>2 DEF RuntimeInv, TargetFits, Runtime!FloorsHold, Runtime!OneIntentAtATime
<1>4. Runtime!RuntimeExplained'
  BY <1>1 DEF RuntimeInv, Runtime!RuntimeExplained
<1> QED BY <1>3, <1>4 DEF RuntimeInv

\* What an expectation names stays, as records are only added.
LEMMA ExpectationsStay ==
    ASSUME RuntimeInv, UNCHANGED <<prepared, requests>>, refreshes'.n \in Nat, refreshes.n \in Nat,
           refreshes'.n >= refreshes.n,
           \A i \in 1..refreshes.n : refreshes'.files[i] = refreshes.files[i]
    PROVE  ExpectationsNamed'
<1>1. \A x : Named(x) => Named(x)'
  BY DEF Named
<1> QED BY <1>1 DEF RuntimeInv, ExpectationsNamed

\* The executable changes while no refresh is under way.
LEMMA BindStep ==
    ASSUME RuntimeInv, RuntimeType', Runtime!BindCommit \/ \E target \in 1..MaxExe, lane \in {"repair", "upgrade"} : Runtime!BindNew(target, lane)
    PROVE  RuntimeInv'
<1> DEFINE r(target, lane) == [source |-> Runtime!executable, target |-> target, lane |-> lane, before |-> Runtime!_state_digest]
<1>1. UNCHANGED <<prepared, requests, refreshes, files>>
  BY DEF Runtime!BindCommit, Runtime!BindNew, Runtime!room
<1>2. Runtime!routing' = Runtime!routing /\ ExpectationsNamed' /\ Runtime!RuntimeExplained'
  BY <1>1 DEF Runtime!routing, RuntimeInv, ExpectationsNamed, Named, Runtime!RuntimeExplained
<1>3. CASE \E target \in 1..MaxExe, lane \in {"repair", "upgrade"} : Runtime!BindNew(target, lane)
  <2>1. PICK target \in 1..MaxExe, lane \in {"repair", "upgrade"} : Runtime!BindNew(target, lane)
    BY <1>3
  <2>2. r(target, lane) \in Repair
    BY AmendmentBounds, InForce, DigestType DEF RuntimeInv, Repair
  <2>3. Runtime!_chain(repairs) /\ repairs' = Runtime!_publish_intent(repairs, r(target, lane)) /\ repairs \in JournalOf(Repair)
    BY <2>1 DEF Runtime!BindNew, RuntimeInv, RuntimeType
  <2>4. /\ repairs'.n = repairs.n /\ Runtime!Unclaimed(repairs)' /\ Runtime!Last(repairs'.files) = r(target, lane)
        /\ \A i \in 1..repairs.n : repairs'.files[i] = repairs.files[i]
    BY <2>2, <2>3, Published DEF Runtime!Unclaimed
  <2>5. Runtime!executable' = Runtime!executable
    BY <2>3, <2>4 DEF Runtime!executable, JournalOf
  <2>6. Runtime!finished /\ Runtime!_chain(refreshes) /\ Runtime!check_qualified_floors(Runtime!routing, target)
    BY <2>1 DEF Runtime!BindNew, Runtime!bind_inspect, Runtime!refreshed_effective
  <2>7. TargetFits' /\ Runtime!FloorsHold' /\ Runtime!OneIntentAtATime'
    BY <1>1, <1>2, <2>4, <2>5, <2>6 DEF TargetFits, RuntimeInv, Runtime!FloorsHold,
       Runtime!OneIntentAtATime, Runtime!_chain, Runtime!Unclaimed
  <2>8. AmendmentInv'
    BY <1>1, <2>1, <2>4, <2>6 DEF AmendmentInv, Runtime!BindNew, Runtime!finished
  <2> QED BY <1>2, <2>7, <2>8 DEF RuntimeInv
<1>4. CASE Runtime!BindCommit /\ repairs' = repairs
  <2>1. AmendmentInv'
    BY <1>4 DEF Runtime!BindCommit, AmendmentInv, Runtime!Idle
  <2> QED BY <1>1, <1>4, <2>1, RuntimeFrame
<1>5. CASE Runtime!BindCommit /\ repairs' = Runtime!Claim(repairs)
  <2>1. Runtime!Unclaimed(repairs) /\ repairs \in JournalOf(Repair)
    BY <1>5 DEF Runtime!BindCommit, RuntimeInv, RuntimeType, AmendmentInv
  <2>2. Runtime!_chain(repairs') /\ repairs'.n = repairs.n + 1 /\ repairs'.files[repairs'.n] = Runtime!Last(repairs.files)
    BY <1>5, <2>1, Claimed
  <2>3. Runtime!executable' = Runtime!Last(repairs.files).target
    BY <2>1, <2>2 DEF Runtime!executable, JournalOf
  <2>4. TargetFits' /\ Runtime!FloorsHold' /\ Runtime!OneIntentAtATime'
    BY <1>1, <1>2, <2>1, <2>2, <2>3 DEF TargetFits, RuntimeInv, Runtime!FloorsHold,
       Runtime!OneIntentAtATime, Runtime!_chain, Runtime!Unclaimed
  <2>5. AmendmentInv'
    BY <1>5 DEF Runtime!BindCommit, AmendmentInv, Runtime!Idle
  <2> QED BY <1>2, <2>4, <2>5 DEF RuntimeInv
<1> QED BY <1>3, <1>4, <1>5 DEF Runtime!BindCommit

\* The routing is planned, put in place and named while no repair is under way.
LEMMA RefreshNewStep ==
    ASSUME RuntimeInv, RuntimeType', NEW selection \in {"kept", "qualified"}, Runtime!RefreshNew(selection)
    PROVE  RuntimeInv'
<1> DEFINE r == [source |-> Runtime!routing, target |-> Runtime!_build(selection, Runtime!routing), cand |-> tree,
                 before |-> Runtime!_state_digest]
<1>1. UNCHANGED <<prepared, requests, repairs, files>>
  BY DEF Runtime!RefreshNew, Runtime!room
<1>2. r \in Refresh
  BY InForce, DigestType DEF Refresh, RuntimeInv, RuntimeType, Routing, Runtime!_build,
     Runtime!Route
<1>3. Runtime!_chain(refreshes) /\ refreshes' = Runtime!_publish_intent(refreshes, r) /\ refreshes \in JournalOf(Refresh)
  BY DEF Runtime!RefreshNew, RuntimeInv, RuntimeType
<1>4. /\ refreshes'.n = refreshes.n /\ Runtime!Unclaimed(refreshes)' /\ Len(refreshes'.files) = refreshes'.n + 1
      /\ \A i \in 1..refreshes.n : refreshes'.files[i] = refreshes.files[i]
  BY <1>2, <1>3, Published DEF Runtime!Unclaimed, JournalOf
<1>5. refreshes.n \in Nat
  BY <1>3 DEF JournalOf
<1>6. Runtime!routing' = Runtime!routing /\ Runtime!executable' = Runtime!executable
  BY <1>1, <1>4, <1>5 DEF Runtime!routing, Runtime!executable
<1>7. ExpectationsNamed'
  BY <1>1, <1>4, <1>5, ExpectationsStay
<1>8. Runtime!_chain(repairs) /\ files = Runtime!Image(Runtime!routing) /\ Runtime!finished
  BY DEF Runtime!RefreshNew, Runtime!validate_local, Runtime!executable_effective,
     Runtime!refreshed_effective, Runtime!settled
<1>9. TargetFits' /\ Runtime!FloorsHold' /\ Runtime!OneIntentAtATime' /\ Runtime!RuntimeExplained'
  BY <1>1, <1>6, <1>8 DEF TargetFits, RuntimeInv, Runtime!FloorsHold, Runtime!OneIntentAtATime,
     Runtime!RuntimeExplained, Runtime!_chain, Runtime!Unclaimed
<1>10. AmendmentInv'
  BY <1>1, <1>4, <1>8 DEF AmendmentInv, Runtime!RefreshNew, Runtime!finished
<1> QED BY <1>7, <1>9, <1>10 DEF RuntimeInv

\* A file put in place is one of the intent under way.
LEMMA ReplaceStep ==
    ASSUME RuntimeInv, RuntimeType', Runtime!_replace_runtime
    PROVE  RuntimeInv'
<1>1. UNCHANGED <<prepared, requests, repairs, refreshes>> /\ window.op = "refresh" /\ window'.op = "refresh"
  BY DEF Runtime!_replace_runtime, Runtime!room, Runtime!journals, RuntimeInv, RuntimeType
<1>2. Runtime!routing' = Runtime!routing /\ Runtime!executable' = Runtime!executable /\ ExpectationsNamed'
  BY <1>1 DEF Runtime!routing, Runtime!executable, RuntimeInv, ExpectationsNamed, Named
<1>3. Runtime!Unclaimed(refreshes)
  BY <1>1 DEF RuntimeInv, AmendmentInv
<1>4. Len(refreshes.files) = refreshes.n + 1
  <2>1. refreshes \in JournalOf(Refresh)
    BY DEF RuntimeInv, RuntimeType
  <2> QED BY <1>3, <2>1 DEF JournalOf, Runtime!Unclaimed
<1>5. files' = [files EXCEPT ![window.step] = Runtime!Image(Runtime!Last(refreshes.files).target)[window.step]]
  BY DEF Runtime!_replace_runtime
<1>6. Runtime!RuntimeExplained'
  BY <1>1, <1>2, <1>4, <1>5 DEF Runtime!RuntimeExplained, RuntimeInv
<1>7. TargetFits' /\ Runtime!FloorsHold' /\ Runtime!OneIntentAtATime'
  BY <1>1, <1>2 DEF TargetFits, RuntimeInv, Runtime!FloorsHold, Runtime!OneIntentAtATime,
     Runtime!Unclaimed
<1>8. AmendmentInv'
  BY <1>1 DEF AmendmentInv, RuntimeInv, Runtime!Unclaimed, Runtime!finished, Runtime!Idle
<1> QED BY <1>2, <1>6, <1>7, <1>8 DEF RuntimeInv

\* The target becomes the routing in force only where all its files are in place and the
\* executable in force is new enough.
LEMMA RefreshCommitStep ==
    ASSUME RuntimeInv, RuntimeType', Runtime!RefreshCommit
    PROVE  RuntimeInv'
<1>1. UNCHANGED <<prepared, requests, repairs, files>> /\ window' = Runtime!Idle
  BY DEF Runtime!RefreshCommit, Runtime!room
<1>2. AmendmentInv'
  BY <1>1 DEF AmendmentInv, Runtime!Idle
<1>3. CASE refreshes' = refreshes
  BY <1>1, <1>2, <1>3, RuntimeFrame
<1>4. CASE refreshes' # refreshes
  <2>1. /\ refreshes' = Runtime!Claim(refreshes) /\ Runtime!refresh_inspect(Runtime!Last(refreshes.files).target)
        /\ files = Runtime!Image(Runtime!Last(refreshes.files).target)
    BY <1>4 DEF Runtime!RefreshCommit
  <2>2. Runtime!Unclaimed(refreshes) /\ refreshes \in JournalOf(Refresh)
    BY DEF Runtime!RefreshCommit, RuntimeInv, RuntimeType, AmendmentInv
  <2>3. /\ refreshes'.files = refreshes.files /\ refreshes'.n = refreshes.n + 1 /\ Runtime!_chain(refreshes')
        /\ refreshes'.files[refreshes'.n] = Runtime!Last(refreshes.files)
    BY <2>1, <2>2, Claimed
  <2>4. refreshes.n \in Nat
    BY <2>2 DEF JournalOf
  <2>5. Runtime!routing' = Runtime!Last(refreshes.files).target /\ Runtime!executable' = Runtime!executable
    BY <1>1, <2>3, <2>4 DEF Runtime!routing, Runtime!executable
  <2>6. ExpectationsNamed'
    BY <1>1, <2>3, <2>4, ExpectationsStay
  <2>7. Runtime!_chain(repairs) /\ Runtime!check_qualified_floors(Runtime!Last(refreshes.files).target, Runtime!executable)
    BY <2>1 DEF Runtime!refresh_inspect, Runtime!_target_admission, Runtime!executable_effective
  <2>8. TargetFits' /\ Runtime!FloorsHold' /\ Runtime!OneIntentAtATime' /\ Runtime!RuntimeExplained'
    BY <1>1, <2>1, <2>5, <2>7 DEF TargetFits, Runtime!FloorsHold, Runtime!OneIntentAtATime,
       Runtime!RuntimeExplained, Runtime!_chain, Runtime!Unclaimed
  <2> QED BY <1>2, <2>6, <2>8 DEF RuntimeInv
<1> QED BY <1>3, <1>4

\* A request freezes the routing in force, and keeps what it froze.
LEMMA RequestStep ==
    ASSUME RuntimeInv, RuntimeType', Runtime!sync \/ \E purpose \in Runtime!Purposes : Runtime!Send(purpose)
    PROVE  RuntimeInv'
<1>1. UNCHANGED <<prepared, repairs, refreshes, files, window>> /\ window = Runtime!Idle
  BY DEF Runtime!sync, Runtime!Send, Runtime!journals
<1>2. AmendmentInv'
  BY <1>1 DEF AmendmentInv, Runtime!Idle
<1>3. CASE Runtime!sync
  <2>1. requests' = [requests EXCEPT ![Len(requests)].state = "completed"]
    BY <1>3 DEF Runtime!sync
  <2>2. requests \in Seq(Request)
    BY DEF RuntimeInv, RuntimeType
  <2>3. \A i \in DOMAIN requests' : /\ i \in DOMAIN requests
                                 /\ requests'[i].frozen = requests[i].frozen /\ requests'[i].notices = requests[i].notices
    BY <2>1, <2>2 DEF Request
  <2>4. ExpectationsNamed'
    BY <1>1, <2>3 DEF RuntimeInv, ExpectationsNamed, Named
  <2> QED BY <1>1, <1>2, <2>4, RequestFrame
<1>4. CASE \E purpose \in Runtime!Purposes : Runtime!Send(purpose)
  <2>1. PICK purpose \in Runtime!Purposes : Runtime!Send(purpose)
    BY <1>4
  <2> DEFINE r == [purpose |-> purpose, state |-> "open",
                   frozen |-> Runtime!freeze(purpose), notices |-> Runtime!pending_notices(purpose)]
  <2>2. requests' = Append(requests, r) /\ requests \in Seq(Request)
    BY <2>1 DEF Runtime!Send, RuntimeInv, RuntimeType
  <2>3. \A i \in DOMAIN requests' : (i \in DOMAIN requests /\ requests'[i] = requests[i]) \/ requests'[i] = r
    BY <2>2
  <2>4. (r.frozen # None => Named(r.frozen)) /\ \A x \in r.notices : Named(x)
    BY SentExpectations DEF RuntimeInv
  <2>5. \A x : Named(x) => Named(x)'
    BY <1>1 DEF Named
  <2>6. ExpectationsNamed'
    BY <2>3, <2>4, <2>5 DEF RuntimeInv, ExpectationsNamed
  <2> QED BY <1>1, <1>2, <2>6, RequestFrame
<1> QED BY <1>3, <1>4

\* One case per action that amends, one for those that only disturb.
LEMMA RuntimeStep == RuntimeInv /\ [Runtime!Next]_Runtime!vars => RuntimeInv'
<1> SUFFICES ASSUME RuntimeInv, [Runtime!Next]_Runtime!vars PROVE RuntimeInv'
  OBVIOUS
<1>1. RuntimeType'
  BY RuntimeTypeStep DEF RuntimeInv
<1>2. CASE Runtime!BindCommit \/ \E target \in 1..MaxExe, lane \in {"repair", "upgrade"} : Runtime!BindNew(target, lane)
  BY <1>1, <1>2, BindStep
<1>3. CASE \E selection \in {"kept", "qualified"} : Runtime!RefreshNew(selection)
  BY <1>1, <1>3, RefreshNewStep
<1>4. CASE Runtime!_replace_runtime
  BY <1>1, <1>4, ReplaceStep
<1>5. CASE Runtime!RefreshCommit
  BY <1>1, <1>5, RefreshCommitStep
<1>6. CASE Runtime!sync \/ \E purpose \in Runtime!Purposes : Runtime!Send(purpose)
  BY <1>1, <1>6, RequestStep
<1>7. CASE Runtime!StandingApply \/ Runtime!SendRefused \/ Runtime!spec_put \/ Runtime!CandidateMoves \/ Runtime!TurnEnds \/ Runtime!Stop \/ Runtime!Start
  <2>1. UNCHANGED <<prepared, requests, repairs, refreshes, files, window>>
    BY <1>7 DEF Runtime!StandingApply, Runtime!SendRefused, Runtime!spec_put,
       Runtime!CandidateMoves, Runtime!TurnEnds, Runtime!Stop, Runtime!Start, Runtime!room,
       Runtime!journals
  <2>2. AmendmentInv'
    BY <2>1 DEF RuntimeInv, AmendmentInv, Runtime!Unclaimed, Runtime!finished
  <2> QED BY <1>1, <2>1, <2>2, RuntimeFrame
<1>8. CASE Runtime!BindReconcile \/ Runtime!RefreshReconcile \/ Runtime!_place_guard \/ Runtime!Crash
  <2>1. UNCHANGED <<prepared, requests, repairs, refreshes, files>>
    BY <1>8 DEF Runtime!BindReconcile, Runtime!RefreshReconcile, Runtime!_place_guard,
       Runtime!Crash, Runtime!room, Runtime!journals
  <2>2. Runtime!BindReconcile => AmendmentInv'
    BY <2>1 DEF Runtime!BindReconcile, Runtime!bind_inspect, AmendmentInv, Runtime!Unclaimed,
       Runtime!finished
  <2>3. Runtime!RefreshReconcile => AmendmentInv'
    BY <2>1 DEF Runtime!RefreshReconcile, Runtime!refresh_inspect, AmendmentInv,
       Runtime!Unclaimed, Runtime!finished
  <2>4. Runtime!_place_guard => AmendmentInv'
    BY <2>1 DEF Runtime!_place_guard, RuntimeInv, RuntimeType, AmendmentInv, Runtime!Unclaimed,
       Runtime!finished, Runtime!Idle
  <2>5. Runtime!Crash => AmendmentInv'
    BY DEF Runtime!Crash, AmendmentInv, Runtime!Idle
  <2> QED BY <1>1, <1>8, <2>1, <2>2, <2>3, <2>4, <2>5, RuntimeFrame
<1>9. CASE \/ \E g \in 0..MaxGuard, w \in 1..MaxWork : Runtime!Install(g, w)
           \/ \E e \in 1..MaxExe : Runtime!ExecutableLost(e)
  <2>1. UNCHANGED <<prepared, requests, repairs, refreshes, files, window>>
    BY <1>9 DEF Runtime!Install, Runtime!ExecutableLost, Runtime!room, Runtime!journals
  <2>2. AmendmentInv'
    BY <2>1 DEF RuntimeInv, AmendmentInv, Runtime!Unclaimed, Runtime!finished
  <2> QED BY <1>1, <2>1, <2>2, RuntimeFrame
<1>10. CASE UNCHANGED Runtime!vars
  <2>1. UNCHANGED <<prepared, requests, repairs, refreshes, files, window>>
    BY <1>10 DEF Runtime!vars, Runtime!room, Runtime!journals
  <2>2. AmendmentInv'
    BY <2>1 DEF RuntimeInv, AmendmentInv, Runtime!Unclaimed, Runtime!finished
  <2> QED BY <1>1, <2>1, <2>2, RuntimeFrame
<1> QED BY <1>2, <1>3, <1>4, <1>5, <1>6, <1>7, <1>8, <1>9, <1>10 DEF Runtime!Next

\* Both journals and the files they are about, through every crash.
LEMMA RuntimeInvariant == Runtime!Spec => []RuntimeInv
<1>1. Runtime!Init => RuntimeInv
  <2> SUFFICES ASSUME Runtime!Init PROVE RuntimeInv
    OBVIOUS
  <2>1. prepared \in Routing /\ prepared.work \in 0..1
    BY DEF Runtime!Init, Runtime!Route, Routing
  <2>2. <<>> \in Seq(Request) /\ [files |-> <<>>, n |-> 0] \in JournalOf(Repair)
        /\ [files |-> <<>>, n |-> 0] \in JournalOf(Refresh)
    BY DEF JournalOf
  <2>3. files \in [1..3 -> Nat]
    BY <2>1 DEF Runtime!Init, Runtime!Image, Routing
  <2>4. RuntimeType
    <3>1. package \in Routing /\ native \in [controller : {"ready", "stopped"}, running : BOOLEAN]
      BY DEF Runtime!Init, Routing, Runtime!Route
    <3>2. repairs \in JournalOf(Repair) /\ refreshes \in JournalOf(Refresh) /\ requests \in Seq(Request)
      BY <2>2 DEF Runtime!Init
    <3>3. policy \in BOOLEAN /\ sending \in BOOLEAN /\ window = Runtime!Idle
      BY Zenon DEF Runtime!Init
    <3>4. {rev, applications, changes} \subseteq Nat /\ tree \in 0..1
      BY DEF Runtime!Init
    <3> QED BY <2>1, <2>3, <3>1, <3>2, <3>3, <3>4 DEF RuntimeType
  <2>5. Runtime!routing = prepared /\ Runtime!executable = 1 /\ ~Runtime!Unclaimed(repairs) /\ ~Runtime!Unclaimed(refreshes)
    BY DEF Runtime!Init, Runtime!routing, Runtime!executable, Runtime!Unclaimed
  <2>6. Runtime!FloorsHold
    BY <2>1, <2>5 DEF Runtime!FloorsHold, Runtime!check_qualified_floors, Runtime!Floor
  <2> QED BY <2>4, <2>5, <2>6 DEF Runtime!Init, RuntimeInv, AmendmentInv, TargetFits,
             ExpectationsNamed,
                                  Runtime!RuntimeExplained, Runtime!OneIntentAtATime, Runtime!Idle
<1> QED BY <1>1, RuntimeStep, PTL DEF Runtime!Spec

\* Whatever crash, package or retry, the files are those of the routing in force or of the one
\* intent under way, the executable in force is new enough for the workers selected, and what
\* a request froze is still the record it names.
THEOREM RuntimeIsExplained == Runtime!Spec => []RuntimeExplained
<1>1. RuntimeInv => Runtime!ExpectationsAuthentic
  <2>1. ASSUME NEW x, Named(x) PROVE Runtime!authentic(x)
    BY <2>1 DEF Named, Runtime!authentic, Runtime!historical_routing
  <2> QED BY <2>1 DEF RuntimeInv, ExpectationsNamed, Runtime!ExpectationsAuthentic
<1>2. RuntimeInv => RuntimeExplained
  BY <1>1 DEF RuntimeInv, RuntimeExplained
<1> QED BY <1>2, RuntimeInvariant, PTL

\* A turn keeps the runtime it was sent under: no file, executable or routing changes before
\* its request is completed, whoever crashes or resumes an amendment meanwhile.
THEOREM RunsUnderOne == Runtime!Spec => RunsUnderOneRuntime
<1>1. RuntimeInv /\ [Runtime!Next]_Runtime!vars =>
        [(\E i \in DOMAIN requests : requests[i].state # "completed") => UNCHANGED <<files, repairs, refreshes>>]_Runtime!vars
  <2> SUFFICES ASSUME RuntimeInv, Runtime!Next, ~Runtime!finished PROVE UNCHANGED <<files, repairs, refreshes>>
    BY DEF Runtime!finished
  <2>1. window = Runtime!Idle
    BY DEF RuntimeInv, AmendmentInv
  <2> QED BY <2>1 DEF Runtime!Next, Runtime!StandingApply, Runtime!SendRefused, Runtime!sync,
             Runtime!spec_put, Runtime!Send, Runtime!BindNew, Runtime!bind_inspect,
             Runtime!BindReconcile,
       Runtime!BindCommit, Runtime!RefreshNew, Runtime!settled, Runtime!RefreshReconcile, Runtime!_place_guard, Runtime!_replace_runtime, Runtime!RefreshCommit,
       Runtime!Crash, Runtime!CandidateMoves, Runtime!TurnEnds, Runtime!Stop, Runtime!Start, Runtime!Install, Runtime!ExecutableLost, Runtime!journals, Runtime!Idle
<1> QED BY <1>1, RuntimeInvariant, PTL DEF Runtime!Spec, RunsUnderOneRuntime,
           Runtime!RunsUnderOneRuntime

-----------------------------------------------------------------------------
(***************************************************************************)
(* The model of the engineer.                                              *)
(***************************************************************************)
\* What the room, its intents and AO hold.
Selection == [model : Nat, qual : Nat \cup {None}]
EngineerTurn == [model : Nat, expected : Nat \cup {None}, state : {"active", "completed"}]
Settings == [settings : Nat, gen : Nat, up : BOOLEAN]
Audit == [state : Seq(EngineerTurn) \X Nat \X BOOLEAN \X Nat \X BOOLEAN \X Nat, source : Selection,
          settings : Nat, gen : Nat, cand : 0..1]
Identity == [by : {"manual"}, n : Nat] \cup [by : {"standing"}, pol : Nat, epoch : Nat, to : Nat]
Attempt == [id : Identity, source : Selection, target : Selection, reset : BOOLEAN, boundary : Nat,
            ev : Audit, marker : BOOLEAN, patches : Nat, record : {"none", "committed", "abandoned"},
            observed : Settings \cup {None}]
Application == [stage : {"audit"}, pol : Nat, from : Nat, to : Nat] \cup [stage : {"write"}, pol : Nat] \cup [stage : {"send"}]
Write == {Model!Idle} \cup [op : {"intent", "advance", "patch", "settle", "resolution"}, own : BOOLEAN]
         \cup [op : {"record"}, own : BOOLEAN, state : {"committed", "abandoned"}]
         \cup [op : {"policy"}, own : BOOLEAN, active : BOOLEAN]

ModelTypes ==
    /\ start \in Selection /\ turns \in Seq(EngineerTurn) /\ spec \in Nat /\ atts \in Seq(Attempt)
    /\ ptr \in [n : Nat, state : {"none", "pending", "committed", "abandoned"}]
    /\ res \in [file : BOOLEAN, named : BOOLEAN]
    /\ pol \in [files : Nat, head : Nat, active : BOOLEAN] /\ apps \in Nat
    /\ app \in {None} \cup Application /\ win \in Write
    /\ ao \in Settings /\ late \subseteq Nat /\ qual \in Nat /\ cand \in 0..1 /\ drift \in BOOLEAN

\* The last intent, and whether it is neither committed nor abandoned yet.
LastIntent == atts[Len(atts)]
Unfinished == Model!Pending \/ Len(atts) # ptr.n

\* state.json is one intent behind at most, and says what the record of the last one says.
ClaimInv ==
    /\ Len(atts) \in {ptr.n, ptr.n + 1}
    /\ ptr.n = 0 <=> ptr.state = "none"
    /\ Model!Pending => Len(atts) = ptr.n
    /\ ptr.state \in {"committed", "abandoned"} => atts[ptr.n].record = ptr.state
    /\ Len(atts) # ptr.n => LastIntent.record = "none"

\* While an intent is unfinished, the room stands where its audit found it, but for the records
\* of the standing policy; its record, if there is one, observed the right settings.
IntentInv ==
    Unfinished =>
        /\ LastIntent.source = Model!current /\ LastIntent.ev.settings = Model!current.model
        /\ LastIntent.boundary = Len(turns)
        /\ LastIntent.reset => LastIntent.target.model = Model!current.model
        /\ Model!finished /\ ~Model!pending_resolution
        /\ LastIntent.ev.state[1] = turns /\ LastIntent.ev.state[2] = spec /\ LastIntent.ev.state[3] = res.named
        /\ LastIntent.record = "committed" =>
              LastIntent.observed = [settings |-> LastIntent.target.model, gen |-> LastIntent.ev.gen, up |-> TRUE]
        /\ LastIntent.record = "abandoned" => LastIntent.observed.settings = LastIntent.ev.settings

\* Where AO was left, unless somebody changed it unobserved.
SettledInv ==
    ~drift =>
        /\ ~Model!Pending => ao.settings = Model!current.model
        /\ Model!Pending /\ LastIntent.record = "committed" => ao.settings = LastIntent.target.model
        /\ Model!Pending /\ LastIntent.record = "abandoned" => ao.settings = LastIntent.ev.settings

\* No epoch opens before the requests there are, and none is an unqualified family.
BoundaryInv ==
    \A k \in DOMAIN atts :
        /\ atts[k].boundary <= Len(turns)
        /\ atts[k].target.model = 0 => atts[k].target.qual # None

PatchInv ==
    \A k \in DOMAIN atts :
        /\ atts[k].patches <= (IF atts[k].reset THEN 0 ELSE 1)
        /\ ~atts[k].marker => atts[k].patches = 0

\* What an operation between two of its writes rests on.
WriteInv ==
    /\ win.op = "intent" => Len(atts) # ptr.n
    /\ win.op \in {"advance", "patch", "settle"} => Model!Pending /\ LastIntent.record # "abandoned"
    /\ win.op = "patch" => LastIntent.patches = 0 /\ ~LastIntent.reset /\ LastIntent.record = "none"
                           /\ LastIntent.marker
    /\ win.op = "record" => Model!Pending /\ LastIntent.record = win.state
    /\ win.op = "resolution" => ~Unfinished

\* The invariant of the engineer's model.
ModelInv ==
    /\ ModelTypes /\ ClaimInv /\ IntentInv /\ SettledInv /\ BoundaryInv /\ PatchInv /\ WriteInv
    /\ Model!EpochsFrozen
    /\ Model!pending_resolution => Model!committed = {}

\* Some numbers have a last one, and Max names it.
LEMMA LastNumber ==
    ASSUME NEW n \in Nat, NEW S, S \subseteq 0 .. n, S # {}
    PROVE  Model!Max(S) \in S /\ \A k \in S : k <= Model!Max(S)
<1> DEFINE R == OpToRel(<, Nat)
           T == {n - k : k \in S}
<1>1. IsWellFoundedOn(R, Nat)
  BY NatLessThanWellFounded
<1>2. \A k \in S : k \in Nat /\ n - k \in Nat
  OBVIOUS
<1>3. T \subseteq Nat /\ T # {}
  BY <1>2
<1> HIDE DEF R
<1>4. PICK x \in T : \A y \in T : ~(<<y, x>> \in R)
  <2> HIDE DEF T
  <2> QED BY <1>1, <1>3, WFMin
<1>5. PICK m \in S : x = n - m
  BY <1>4
<1>6. ASSUME NEW k \in S PROVE k <= m
  <2>1. n - k \in T /\ n - k \in Nat /\ n - m \in Nat /\ k \in Nat /\ m \in Nat
    BY <1>2
  <2>2. ~(<<n - k, n - m>> \in R)
    <3> HIDE DEF T
    <3> QED BY <1>4, <1>5, <2>1
  <2>3. ~(n - k < n - m)
    BY <2>1, <2>2 DEF R, OpToRel
  <2> QED BY <2>1, <2>3
<1>7. \E z \in S : \A y \in S : z >= y
  BY <1>2, <1>6
<1>8. Model!Max(S) \in S /\ \A y \in S : Model!Max(S) >= y
  BY <1>7 DEF Model!Max
<1> QED BY <1>2, <1>8

\* The epochs are those of intents the room has claimed.
LEMMA EpochTypes ==
    ASSUME ModelTypes, ClaimInv
    PROVE  /\ DOMAIN atts = 1 .. Len(atts) /\ Len(atts) \in Nat /\ ptr.n \in Nat /\ ptr.n <= Len(atts)
           /\ Model!committed \subseteq 1 .. ptr.n /\ Model!epochs \subseteq 0 .. ptr.n /\ 0 \in Model!epochs
           /\ \A k \in 1 .. Len(atts) : atts[k] \in Attempt
           /\ \A k \in Model!epochs : Model!epoch(k).target \in Selection /\ Model!epoch(k).from \in Nat
<1>1. DOMAIN atts = 1 .. Len(atts) /\ Len(atts) \in Nat /\ ptr.n \in Nat /\ ptr.n <= Len(atts)
  BY LenProperties DEF ModelTypes, ClaimInv
<1>2. Model!committed \subseteq 1 .. ptr.n /\ Model!epochs \subseteq 0 .. ptr.n /\ 0 \in Model!epochs
  BY <1>1 DEF Model!committed, Model!epochs
<1>3. \A k \in 1 .. Len(atts) : atts[k] \in Attempt
  BY <1>1 DEF ModelTypes
<1>4. ASSUME NEW k \in Model!epochs PROVE Model!epoch(k).target \in Selection /\ Model!epoch(k).from \in Nat
  <2>1. CASE k = 0
    BY <2>1 DEF Model!epoch, ModelTypes
  <2>2. CASE k # 0
    <3>1. k \in 1 .. Len(atts)
      BY <1>1, <1>2, <2>2
    <3>2. atts[k].target \in Selection /\ atts[k].boundary \in Nat
      BY <1>3, <3>1 DEF Attempt
    <3> QED BY <2>2, <3>2 DEF Model!epoch
  <2> QED BY <2>1, <2>2
<1> QED BY <1>1, <1>2, <1>3, <1>4

\* The epoch in force.
LEMMA CurrentType ==
    ASSUME ModelTypes, ClaimInv
    PROVE  /\ Model!Max(Model!epochs) \in Model!epochs
           /\ \A k \in Model!epochs : k <= Model!Max(Model!epochs)
           /\ Model!current \in Selection
<1>1. Model!epochs \subseteq 0 .. ptr.n /\ Model!epochs # {} /\ ptr.n \in Nat
  BY EpochTypes
<1>2. Model!Max(Model!epochs) \in Model!epochs /\ \A k \in Model!epochs : k <= Model!Max(Model!epochs)
  BY <1>1, LastNumber
<1> QED BY <1>2, EpochTypes DEF Model!current

\* An unqualified family is the first epoch, with nothing after it.
LEMMA FirstUnqualified ==
    ASSUME ModelTypes, ClaimInv, BoundaryInv, Model!current.model = 0, Model!current.qual = None
    PROVE  Model!committed = {}
<1> DEFINE m == Model!Max(Model!epochs)
<1>1. m \in Model!epochs /\ \A k \in Model!epochs : k <= m
  BY CurrentType
<1>2. m = 0
  <2>1. SUFFICES ASSUME m # 0 PROVE FALSE
    OBVIOUS
  <2>2. m \in DOMAIN atts
    BY <1>1, <2>1, EpochTypes
  <2>3. Model!current = atts[m].target
    BY <2>1 DEF Model!current, Model!epoch
  <2> HIDE DEF m
  <2> QED BY <2>2, <2>3 DEF BoundaryInv
<1>3. \A k \in Model!committed : k \in Nat /\ k >= 1 /\ k \in Model!epochs
  BY EpochTypes DEF Model!epochs
<1> HIDE DEF m
<1> QED BY <1>1, <1>2, <1>3

\* The epochs stay when no record is committed.
LEMMA SameEpochs ==
    ASSUME ModelTypes, ClaimInv, start' = start, Model!committed' = Model!committed,
           \A k \in Model!committed : atts'[k].target = atts[k].target /\ atts'[k].boundary = atts[k].boundary
    PROVE  /\ Model!current' = Model!current
           /\ \A i \in Nat : Model!epoch_for_order(i)' = Model!epoch_for_order(i)
<1>1. Model!epochs' = Model!epochs
  BY DEF Model!epochs
<1>2. \A k \in Model!epochs : Model!epoch(k)' = Model!epoch(k)
  BY DEF Model!epochs, Model!epoch
<1>3. Model!current' = Model!current
  BY <1>1, <1>2, CurrentType DEF Model!current
<1>4. ASSUME NEW i \in Nat PROVE Model!epoch_for_order(i)' = Model!epoch_for_order(i)
  <2> DEFINE S == {k \in Model!epochs : k = 0 \/ Model!epoch(k).from <= i}
  <2>1. {k \in Model!epochs' : k = 0 \/ Model!epoch(k)'.from <= i} = S
    BY <1>1, <1>2
  <2>2. S \subseteq Model!epochs /\ S # {} /\ Model!epochs \subseteq 0 .. ptr.n /\ ptr.n \in Nat
    BY EpochTypes
  <2>3. Model!Max(S) \in S
    <3> HIDE DEF S
    <3> QED BY <2>2, LastNumber
  <2>4. PICK m : m = Model!Max(S)
    OBVIOUS
  <2>5. Model!epoch(m)' = Model!epoch(m)
    BY <1>2, <2>2, <2>3, <2>4
  <2>6. Model!epoch_for_order(i) = Model!epoch(m).target
    BY <2>4 DEF Model!epoch_for_order
  <2>7. Model!epoch_for_order(i)' = Model!epoch(m)'.target
    BY <2>1, <2>4 DEF Model!epoch_for_order
  <2> QED BY <2>5, <2>6, <2>7
<1> QED BY <1>3, <1>4

-----------------------------------------------------------------------------
(***************************************************************************)
(* What a step may leave alone.                                            *)
(***************************************************************************)
\* What the intents and the claim in state.json say, when they stay.
LEMMA IntentsStay ==
    ASSUME ModelInv, UNCHANGED <<start, atts, ptr>>
    PROVE  /\ Model!committed' = Model!committed /\ Model!current' = Model!current
           /\ \A i \in Nat : Model!epoch_for_order(i)' = Model!epoch_for_order(i)
           /\ Model!Pending' = Model!Pending /\ LastIntent' = LastIntent /\ (Unfinished' <=> Unfinished)
           /\ ClaimInv' /\ PatchInv'
<1>1. Model!committed' = Model!committed
  BY DEF Model!committed
<1>2. Model!current' = Model!current /\ \A i \in Nat : Model!epoch_for_order(i)' = Model!epoch_for_order(i)
  BY <1>1, SameEpochs DEF ModelInv
<1>3. Model!Pending' = Model!Pending /\ LastIntent' = LastIntent /\ (Unfinished' <=> Unfinished)
  BY DEF Model!Pending, LastIntent, Unfinished
<1>4. ClaimInv' /\ PatchInv'
  BY <1>3 DEF ModelInv, ClaimInv, PatchInv
<1> QED BY <1>1, <1>2, <1>3, <1>4

\* A step beside the room, its intents and AO.
LEMMA BesideStep ==
    ASSUME ModelInv, UNCHANGED <<start, turns, spec, res, atts, ptr, ao, drift>>, ModelTypes', WriteInv'
    PROVE  ModelInv'
<1>1. /\ Model!committed' = Model!committed /\ Model!current' = Model!current
      /\ \A i \in Nat : Model!epoch_for_order(i)' = Model!epoch_for_order(i)
      /\ Model!Pending' = Model!Pending /\ LastIntent' = LastIntent /\ (Unfinished' <=> Unfinished)
      /\ ClaimInv' /\ PatchInv'
  BY IntentsStay
<1>2. Model!finished' = Model!finished /\ Model!pending_resolution' = Model!pending_resolution
  BY DEF Model!finished, Model!pending_resolution
<1>3. IntentInv'
  BY <1>1, <1>2 DEF ModelInv, IntentInv
<1>4. SettledInv' /\ BoundaryInv'
  BY <1>1 DEF ModelInv, SettledInv, BoundaryInv
<1>5. Model!EpochsFrozen'
  <2>1. DOMAIN turns \subseteq Nat
    BY LenProperties DEF ModelInv, ModelTypes
  <2> QED BY <1>1, <2>1 DEF ModelInv, Model!EpochsFrozen, Model!_frozen
<1> QED BY <1>1, <1>2, <1>3, <1>4, <1>5 DEF ModelInv

\* AO moves: unobserved, or while an intent without a record is pending.
LEMMA NativeStep ==
    ASSUME ModelInv, UNCHANGED <<start, turns, spec, res, atts, ptr, win>>, ModelTypes',
           \/ drift'
           \/ ao'.settings = ao.settings /\ drift' = drift
           \/ Model!Pending /\ LastIntent.record = "none"
    PROVE  ModelInv'
<1>1. /\ Model!committed' = Model!committed /\ Model!current' = Model!current
      /\ \A i \in Nat : Model!epoch_for_order(i)' = Model!epoch_for_order(i)
      /\ Model!Pending' = Model!Pending /\ LastIntent' = LastIntent /\ (Unfinished' <=> Unfinished)
      /\ ClaimInv' /\ PatchInv'
  BY IntentsStay
<1>2. Model!finished' = Model!finished /\ Model!pending_resolution' = Model!pending_resolution
  BY DEF Model!finished, Model!pending_resolution
<1>3. IntentInv'
  BY <1>1, <1>2 DEF ModelInv, IntentInv
<1>4. SettledInv'
  BY <1>1 DEF ModelInv, SettledInv
<1>5. BoundaryInv' /\ WriteInv'
  BY <1>1 DEF ModelInv, BoundaryInv, WriteInv
<1>6. Model!EpochsFrozen'
  <2>1. DOMAIN turns \subseteq Nat
    BY LenProperties DEF ModelInv, ModelTypes
  <2> QED BY <1>1, <2>1 DEF ModelInv, Model!EpochsFrozen, Model!_frozen
<1> QED BY <1>1, <1>2, <1>3, <1>4, <1>5, <1>6 DEF ModelInv

\* The room moves while no intent is unfinished.
LEMMA RoomStep ==
    ASSUME ModelInv, UNCHANGED <<start, atts, ptr, ao, drift>>, ~Unfinished, ModelTypes', WriteInv',
           Len(turns') \in Nat, Len(turns') >= Len(turns), Model!EpochsFrozen',
           Model!pending_resolution' => Model!committed = {}
    PROVE  ModelInv'
<1>1. /\ Model!committed' = Model!committed /\ Model!current' = Model!current
      /\ Model!Pending' = Model!Pending /\ LastIntent' = LastIntent /\ (Unfinished' <=> Unfinished)
      /\ ClaimInv' /\ PatchInv'
  BY IntentsStay
<1>2. IntentInv'
  BY <1>1 DEF IntentInv
<1>3. SettledInv'
  BY <1>1 DEF ModelInv, SettledInv
<1>4. BoundaryInv'
  <2>1. Len(turns) \in Nat
    BY LenProperties DEF ModelInv, ModelTypes
  <2>2. \A k \in DOMAIN atts : atts[k].boundary \in Nat
    BY EpochTypes DEF ModelInv, Attempt
  <2> QED BY <2>1, <2>2 DEF ModelInv, BoundaryInv
<1> QED BY <1>1, <1>2, <1>3, <1>4 DEF ModelInv

-----------------------------------------------------------------------------
(***************************************************************************)
(* The steps of a transition.                                              *)
(***************************************************************************)
\* What an audit records is of the room as it stands.
LEMMA IntentTypes ==
    ASSUME ModelInv, NEW id \in Identity, NEW m \in Nat
    PROVE  /\ Model!Intent(id, m) \in Attempt
           /\ Model!Intent(id, m).target.model = 0 => Model!Intent(id, m).target.qual # None
           /\ Model!Intent(id, m).target.model = m
<1>1. Model!current \in Selection /\ Len(turns) \in Nat
  BY CurrentType, LenProperties DEF ModelInv, ModelTypes
<1>2. Model!_resolve_target(m) \in Selection /\ Model!_resolve_target(m).model = m
      /\ (m = 0 => Model!_resolve_target(m).qual # None)
  BY ModelNone DEF Model!_resolve_target, Model!Alias, Model!Target, Selection, ModelInv, ModelTypes
<1>3. Model!evidence \in Audit
  BY <1>1 DEF Model!evidence, Model!_state_digest, Audit, ModelInv, ModelTypes, Settings
<1> QED BY <1>1, <1>2, <1>3 DEF Model!Intent, Attempt

\* An intent is stored: it is the last one, unfinished, and as the room stands.
LEMMA StoreStep ==
    ASSUME ModelInv, NEW id \in Identity, NEW m \in Nat, NEW own \in BOOLEAN, Model!_store_intent(id, m, own),
           UNCHANGED <<start, turns, spec, res, pol, apps, ptr, ao, late, qual, cand, drift>>,
           app' \in {None} \cup Application
    PROVE  ModelInv'
<1>1. PICK a : a = Model!Intent(id, m)
  OBVIOUS
<1>2. /\ a \in Attempt /\ (a.target.model = 0 => a.target.qual # None) /\ a.target.model = m
      /\ a.source = Model!current /\ a.boundary = Len(turns) /\ a.reset = (m = Model!current.model)
      /\ a.marker = FALSE /\ a.patches = 0 /\ a.record = "none"
      /\ a.ev.settings = ao.settings
      /\ a.ev.state[1] = turns /\ a.ev.state[2] = spec /\ a.ev.state[3] = res.named
  BY <1>1, IntentTypes DEF Model!Intent, Model!evidence, Model!_state_digest
<1>3. /\ atts' = Append(atts, a) /\ win' = [op |-> "intent", own |-> own]
      /\ Len(atts) = ptr.n /\ ~Model!Pending /\ Model!finished /\ ~Model!pending_resolution
      /\ ao.settings = Model!current.model
  BY <1>1 DEF Model!_store_intent, Model!_inspect, Model!settled, Model!journal, Model!_chain
<1>4. /\ Len(atts) \in Nat /\ Len(atts') = Len(atts) + 1 /\ atts'[Len(atts')] = a /\ DOMAIN atts' = 1 .. Len(atts) + 1
      /\ \A k \in 1 .. Len(atts) : atts'[k] = atts[k]
      /\ atts' \in Seq(Attempt)
  BY <1>2, <1>3, AppendProperties, LenProperties DEF ModelInv, ModelTypes
<1>5. win' \in Write
  BY <1>3 DEF Write
<1>6. ModelTypes'
  BY <1>4, <1>5 DEF ModelInv, ModelTypes
<1>7. Model!committed' = Model!committed
  <2>1. Model!committed \subseteq 1 .. ptr.n /\ ptr.n \in Nat
    BY EpochTypes DEF ModelInv
  <2>2. \A k \in 1 .. ptr.n : atts'[k] = atts[k]
    BY <1>3, <1>4
  <2> QED BY <2>1, <2>2 DEF Model!committed
<1>8. \A k \in Model!committed : atts'[k] = atts[k]
  BY <1>3, <1>4, EpochTypes DEF ModelInv
<1>9. Model!current' = Model!current /\ \A i \in Nat : Model!epoch_for_order(i)' = Model!epoch_for_order(i)
  BY <1>7, <1>8, SameEpochs DEF ModelInv
<1>10. Unfinished' /\ LastIntent' = a /\ Model!Pending' = Model!Pending /\ Len(atts') # ptr'.n
  BY <1>3, <1>4 DEF Unfinished, LastIntent, Model!Pending
<1>11. ClaimInv'
  <2>1. ptr.state \in {"committed", "abandoned"} => ptr.n \in 1 .. Len(atts) /\ atts[ptr.n].record = ptr.state
    BY <1>3, <1>4 DEF ModelInv, ClaimInv
  <2> QED BY <1>2, <1>3, <1>4, <1>10, <2>1 DEF ModelInv, ClaimInv
<1>12. IntentInv'
  BY <1>2, <1>3, <1>9, <1>10 DEF IntentInv, Model!finished, Model!pending_resolution
<1>13. SettledInv'
  BY <1>3, <1>9, <1>10 DEF SettledInv, ModelInv
<1>14. BoundaryInv' /\ PatchInv'
  <2>1. ASSUME NEW k \in DOMAIN atts' PROVE (k \in DOMAIN atts /\ atts'[k] = atts[k]) \/ atts'[k] = a
    BY <1>4, LenProperties DEF ModelInv, ModelTypes
  <2>2. Len(turns) <= Len(turns)
    BY LenProperties DEF ModelInv, ModelTypes
  <2> QED BY <1>2, <2>1, <2>2 DEF ModelInv, BoundaryInv, PatchInv
<1>15. WriteInv'
  BY <1>3, <1>10 DEF WriteInv
<1>16. Model!EpochsFrozen'
  <2>1. DOMAIN turns \subseteq Nat
    BY LenProperties DEF ModelInv, ModelTypes
  <2> QED BY <1>9, <2>1 DEF ModelInv, Model!EpochsFrozen, Model!_frozen
<1>17. Model!pending_resolution' => Model!committed' = {}
  BY <1>3 DEF Model!pending_resolution
<1> QED BY <1>6, <1>11, <1>12, <1>13, <1>14, <1>15, <1>16, <1>17 DEF ModelInv

\* state.json claims the intent that is stored.
LEMMA ClaimStep ==
    ASSUME ModelInv, Len(atts) # ptr.n, NEW own \in BOOLEAN,
           ptr' = [n |-> Len(atts), state |-> "pending"], win' = [op |-> "advance", own |-> own],
           UNCHANGED <<start, turns, spec, res, pol, apps, atts, app, ao, late, qual, cand, drift>>
    PROVE  ModelInv'
<1>1. /\ Len(atts) = ptr.n + 1 /\ ptr.n \in Nat /\ LastIntent.record = "none" /\ ~Model!Pending /\ Unfinished
      /\ Len(atts) \in Nat
  BY EpochTypes DEF ModelInv, ClaimInv, Unfinished
<1>2. ptr'.n = Len(atts) /\ ptr'.state = "pending" /\ Model!Pending' /\ Unfinished' /\ LastIntent' = LastIntent
  BY DEF Model!Pending, Unfinished, LastIntent
<1>3. ModelTypes'
  BY <1>1 DEF ModelInv, ModelTypes, Write
<1>4. Model!committed' = Model!committed
  <2>1. ASSUME NEW i \in 1 .. ptr.n
        PROVE  (IF i = ptr.n THEN ptr.state = "committed" ELSE atts[i].record = "committed")
                   <=> atts[i].record = "committed"
    <3>1. CASE i = ptr.n
      <4>1. ptr.n # 0 /\ ptr.state \in {"committed", "abandoned"}
        BY <1>1, <2>1, <3>1 DEF ModelInv, ModelTypes, ClaimInv, Model!Pending
      <4> QED BY <3>1, <4>1 DEF ModelInv, ClaimInv
    <3> QED BY <3>1
  <2>2. Model!committed = {i \in 1 .. ptr.n : atts[i].record = "committed"}
    BY <2>1 DEF Model!committed
  <2>3. Model!committed' = {i \in 1 .. ptr.n + 1 : i # ptr.n + 1 /\ atts[i].record = "committed"}
    BY <1>1, <1>2 DEF Model!committed
  <2>4. \A i : i \in 1 .. ptr.n + 1 /\ i # ptr.n + 1 <=> i \in 1 .. ptr.n
    BY <1>1
  <2> QED BY <2>2, <2>3, <2>4
<1>5. Model!current' = Model!current /\ \A i \in Nat : Model!epoch_for_order(i)' = Model!epoch_for_order(i)
  BY <1>4, SameEpochs DEF ModelInv
<1>6. ClaimInv'
  BY <1>1, <1>2 DEF ClaimInv
<1>7. IntentInv'
  BY <1>1, <1>2, <1>5 DEF ModelInv, IntentInv, Model!finished, Model!pending_resolution
<1>8. SettledInv' /\ WriteInv'
  BY <1>1, <1>2 DEF SettledInv, WriteInv
<1>9. BoundaryInv' /\ PatchInv'
  BY DEF ModelInv, BoundaryInv, PatchInv
<1>10. Model!EpochsFrozen'
  <2>1. DOMAIN turns \subseteq Nat
    BY LenProperties DEF ModelInv, ModelTypes
  <2> QED BY <1>5, <2>1 DEF ModelInv, Model!EpochsFrozen, Model!_frozen
<1>11. Model!pending_resolution' => Model!committed' = {}
  BY <1>4 DEF ModelInv, Model!pending_resolution
<1> QED BY <1>3, <1>6, <1>7, <1>8, <1>9, <1>10, <1>11 DEF ModelInv

\* The pending intent is rewritten: its marker, its PATCH, its record.
LEMMA RewriteStep ==
    ASSUME ModelInv, Model!Pending, NEW b \in Attempt, atts' = [atts EXCEPT ![ptr.n] = b],
           b.source = LastIntent.source, b.target = LastIntent.target, b.reset = LastIntent.reset,
           b.boundary = LastIntent.boundary, b.ev = LastIntent.ev,
           b.record = "committed" =>
               b.observed = [settings |-> b.target.model, gen |-> b.ev.gen, up |-> TRUE],
           b.record = "abandoned" => b.observed.settings = b.ev.settings,
           b.patches <= (IF b.reset THEN 0 ELSE 1), ~b.marker => b.patches = 0,
           ~drift /\ b.record = "committed" => ao'.settings = b.target.model,
           ~drift /\ b.record = "abandoned" => ao'.settings = b.ev.settings,
           win' \in Write, win'.op \in {"idle", "patch", "settle", "record"},
           win'.op \in {"patch", "settle"} => b.record # "abandoned",
           win'.op = "patch" => b.patches = 0 /\ ~b.reset /\ b.record = "none" /\ b.marker,
           win'.op = "record" => b.record = win'.state,
           ao' \in Settings, late' \subseteq Nat,
           UNCHANGED <<start, turns, spec, res, pol, apps, ptr, app, qual, cand, drift>>
    PROVE  ModelInv'
<1>1. /\ Len(atts) = ptr.n /\ ptr.n \in 1 .. Len(atts) /\ DOMAIN atts = 1 .. Len(atts) /\ Len(atts) \in Nat
      /\ ptr.state = "pending" /\ Unfinished /\ LastIntent = atts[ptr.n]
  BY EpochTypes DEF ModelInv, ClaimInv, Model!Pending, Unfinished, LastIntent
<1>2. /\ atts' \in Seq(Attempt) /\ Len(atts') = Len(atts) /\ DOMAIN atts' = DOMAIN atts /\ atts'[ptr.n] = b
      /\ \A k \in DOMAIN atts : k # ptr.n => atts'[k] = atts[k]
  BY <1>1, ExceptSeq DEF ModelInv, ModelTypes
<1>3. Model!Pending' /\ Unfinished' /\ LastIntent' = b /\ Len(atts') = ptr'.n
  BY <1>1, <1>2 DEF Model!Pending, Unfinished, LastIntent
<1>4. ModelTypes'
  BY <1>2 DEF ModelInv, ModelTypes
<1>5. Model!committed \subseteq 1 .. ptr.n /\ ptr.n \notin Model!committed
  BY <1>1, EpochTypes DEF Model!committed, ModelInv
<1>6. Model!committed' = Model!committed
  BY <1>1, <1>2 DEF Model!committed
<1>7. \A k \in Model!committed : k \in DOMAIN atts /\ k # ptr.n
  BY <1>1, <1>5
<1>8. Model!current' = Model!current /\ \A i \in Nat : Model!epoch_for_order(i)' = Model!epoch_for_order(i)
  BY <1>2, <1>6, <1>7, SameEpochs DEF ModelInv
<1>9. ClaimInv'
  BY <1>1, <1>3 DEF ModelInv, ClaimInv
<1>10. IntentInv'
  BY <1>1, <1>3, <1>8 DEF ModelInv, IntentInv, Model!finished, Model!pending_resolution
<1>11. SettledInv' /\ WriteInv'
  BY <1>3 DEF SettledInv, WriteInv
<1>12. BoundaryInv' /\ PatchInv'
  <2>1. \A k \in DOMAIN atts' : k \in DOMAIN atts /\ (k = ptr.n => atts'[k] = b) /\ (k # ptr.n => atts'[k] = atts[k])
    BY <1>2
  <2>2. LastIntent.boundary <= Len(turns) /\ (LastIntent.target.model = 0 => LastIntent.target.qual # None)
    BY <1>1 DEF ModelInv, BoundaryInv
  <2>3. BoundaryInv'
    BY <2>1, <2>2 DEF ModelInv, BoundaryInv
  <2>4. PatchInv'
    BY <2>1 DEF ModelInv, PatchInv
  <2> QED BY <2>3, <2>4
<1>13. Model!EpochsFrozen'
  <2>1. DOMAIN turns \subseteq Nat
    BY LenProperties DEF ModelInv, ModelTypes
  <2> QED BY <1>8, <2>1 DEF ModelInv, Model!EpochsFrozen, Model!_frozen
<1>14. Model!pending_resolution' => Model!committed' = {}
  BY <1>6 DEF ModelInv, Model!pending_resolution
<1> QED BY <1>4, <1>9, <1>10, <1>11, <1>12, <1>13, <1>14 DEF ModelInv

\* The record of the pending intent is named in state.json: a committed one opens an epoch after
\* every request there is.
LEMMA PublishStep ==
    ASSUME ModelInv, Model!_publish_record
    PROVE  ModelInv'
<1>1. /\ Model!Pending /\ LastIntent.record = win.state /\ win.state \in {"committed", "abandoned"}
      /\ ptr' = [ptr EXCEPT !.state = win.state] /\ win' = Model!Idle
      /\ UNCHANGED <<start, turns, spec, res, pol, apps, atts, app, ao, late, qual, cand, drift>>
  <2>1. win.op = "record" /\ win \in Write
    BY DEF Model!_publish_record, ModelInv, ModelTypes
  <2>2. win.state \in {"committed", "abandoned"}
    BY <2>1 DEF Write, Model!Idle
  <2> QED BY <2>1, <2>2 DEF Model!_publish_record, ModelInv, WriteInv, Model!room, Model!beside
<1>2. /\ Len(atts) = ptr.n /\ ptr.n \in 1 .. Len(atts) /\ DOMAIN atts = 1 .. Len(atts) /\ Len(atts) \in Nat
      /\ ptr.state = "pending" /\ Unfinished /\ LastIntent = atts[ptr.n] /\ LastIntent \in Attempt
  BY <1>1, EpochTypes DEF ModelInv, ClaimInv, Model!Pending, Unfinished, LastIntent
<1>3. ptr'.n = ptr.n /\ ptr'.state = win.state /\ ptr' \in [n : Nat, state : {"none", "pending", "committed", "abandoned"}]
  BY <1>1, <1>2 DEF ModelInv, ModelTypes
<1>4. ~Model!Pending' /\ ~Unfinished' /\ LastIntent' = LastIntent
  BY <1>1, <1>2, <1>3 DEF Model!Pending, Unfinished, LastIntent
<1>5. ModelTypes'
  BY <1>1, <1>3 DEF ModelInv, ModelTypes, Write
<1>6. ClaimInv'
  BY <1>1, <1>2, <1>3, <1>4 DEF ModelInv, ClaimInv
<1>7. IntentInv' /\ WriteInv'
  BY <1>1, <1>4 DEF IntentInv, WriteInv, Model!Idle
<1>8. BoundaryInv' /\ PatchInv'
  BY <1>1 DEF ModelInv, BoundaryInv, PatchInv
<1>9. ~Model!pending_resolution'
  BY <1>1, <1>2 DEF ModelInv, IntentInv, Model!pending_resolution
<1>10. DOMAIN turns = 1 .. Len(turns) /\ Len(turns) \in Nat
  BY LenProperties DEF ModelInv, ModelTypes
<1>11. CASE win.state = "abandoned"
  <2>1. Model!committed' = Model!committed
    BY <1>1, <1>2, <1>3, <1>11 DEF Model!committed
  <2>2. Model!current' = Model!current /\ \A i \in Nat : Model!epoch_for_order(i)' = Model!epoch_for_order(i)
    BY <1>1, <2>1, SameEpochs DEF ModelInv
  <2>3. SettledInv'
    <3>1. ~drift => ao.settings = LastIntent.ev.settings
      BY <1>1, <1>11 DEF ModelInv, SettledInv
    <3>2. LastIntent.ev.settings = Model!current.model
      BY <1>2 DEF ModelInv, IntentInv
    <3> QED BY <1>1, <1>4, <2>2, <3>1, <3>2 DEF SettledInv
  <2>4. Model!EpochsFrozen'
    BY <1>1, <1>10, <2>2 DEF ModelInv, Model!EpochsFrozen, Model!_frozen
  <2> QED BY <1>5, <1>6, <1>7, <1>8, <1>9, <2>3, <2>4 DEF ModelInv
<1>12. CASE win.state = "committed"
  <2> PICK n : n = ptr.n
    OBVIOUS
  <2>1. /\ Model!committed' = Model!committed \cup {n} /\ Model!committed \subseteq 1 .. n /\ n \notin Model!committed
        /\ n \in Nat /\ n # 0
    <3>1. Model!committed \subseteq 1 .. n /\ n \in Nat /\ n # 0
      BY <1>2, EpochTypes DEF ModelInv
    <3>2. n \notin Model!committed
      BY <1>2 DEF Model!committed
    <3>3. Model!committed' = Model!committed \cup {n}
      BY <1>1, <1>2, <1>3, <1>12 DEF Model!committed
    <3> QED BY <3>1, <3>2, <3>3
  <2>2. /\ Model!epochs' = Model!epochs \cup {n} /\ Model!epochs \subseteq 0 .. n /\ 0 \in Model!epochs
        /\ n \notin Model!epochs /\ n \in 1 .. Len(atts) /\ n \in Nat /\ Len(atts) \in Nat
    BY <1>2, <2>1, EpochTypes DEF Model!epochs, ModelInv
  <2>3. \A k : Model!epoch(k)' = Model!epoch(k)
    BY <1>1 DEF Model!epoch
  <2>4. Model!epoch(n) = [target |-> LastIntent.target, from |-> LastIntent.boundary + 1]
    BY <1>2, <2>2 DEF Model!epoch
  <2>5. Model!current' = LastIntent.target
    <3>1. Model!Max(Model!epochs') \in Model!epochs' /\ \A k \in Model!epochs' : k <= Model!Max(Model!epochs')
      <4>1. Model!epochs \cup {n} \subseteq 0 .. n /\ Model!epochs \cup {n} # {}
        <5>1. n \in 0 .. n
          BY <2>2
        <5> QED BY <2>2, <5>1
      <4>2. Model!Max(Model!epochs \cup {n}) \in Model!epochs \cup {n}
            /\ \A k \in Model!epochs \cup {n} : k <= Model!Max(Model!epochs \cup {n})
        BY <2>2, <4>1, LastNumber
      <4> QED BY <2>2, <4>2
    <3>2. PICK m : m = Model!Max(Model!epochs')
      OBVIOUS
    <3>3. m = n
      <4>1. m \in Model!epochs' /\ n <= m
        BY <2>2, <3>1, <3>2
      <4> QED BY <2>2, <4>1
    <3>4. Model!current' = Model!epoch(m)'.target
      BY <3>2 DEF Model!current
    <3> QED BY <2>3, <2>4, <3>3, <3>4
  <2>6. SettledInv'
    <3>1. ~drift => ao.settings = LastIntent.target.model
      BY <1>1, <1>12 DEF ModelInv, SettledInv
    <3> QED BY <1>1, <1>4, <2>5, <3>1 DEF SettledInv
  <2>7. ASSUME NEW i \in DOMAIN turns PROVE Model!epoch_for_order(i)' = Model!epoch_for_order(i)
    <3> DEFINE S == {k \in Model!epochs : k = 0 \/ Model!epoch(k).from <= i}
               S1 == {k \in Model!epochs' : k = 0 \/ Model!epoch(k)'.from <= i}
    <3>1. ~(Model!epoch(n).from <= i)
      <4>1. LastIntent.boundary = Len(turns)
        BY <1>2 DEF ModelInv, IntentInv
      <4>2. i \in Nat /\ i <= Len(turns)
        BY <1>10, <2>7
      <4> QED BY <1>10, <2>4, <4>1, <4>2
    <3>2. S1 = S
      BY <2>2, <2>3, <3>1
    <3>3. PICK m : m = Model!Max(S)
      OBVIOUS
    <3>4. Model!epoch_for_order(i) = Model!epoch(m).target
      BY <3>3 DEF Model!epoch_for_order
    <3>5. Model!epoch_for_order(i)' = Model!epoch(m)'.target
      BY <3>2, <3>3 DEF Model!epoch_for_order
    <3> QED BY <2>3, <3>4, <3>5
  <2>8. Model!EpochsFrozen'
    <3>1. ASSUME NEW i \in DOMAIN turns
          PROVE  turns[i].model = Model!epoch_for_order(i)'.model /\ turns[i].expected = Model!_frozen(Model!epoch_for_order(i)')
      <4>1. turns[i].model = Model!epoch_for_order(i).model /\ turns[i].expected = Model!_frozen(Model!epoch_for_order(i))
        BY DEF ModelInv, Model!EpochsFrozen
      <4>2. Model!epoch_for_order(i)' = Model!epoch_for_order(i)
        BY <2>7
      <4> QED BY <4>1, <4>2 DEF Model!_frozen
    <3> QED BY <1>1, <3>1 DEF Model!EpochsFrozen
  <2> QED BY <1>5, <1>6, <1>7, <1>8, <1>9, <2>6, <2>8 DEF ModelInv
<1> QED BY <1>1, <1>11, <1>12

\* The requests of a transition, and an abandonment.
LEMMA TransitionStep ==
    ASSUME ModelInv,
           \/ \E m \in Model!Models : Model!_apply(m)
           \/ Model!_publish_intent \/ Model!_claim \/ Model!_reconcile \/ Model!_advance \/ Model!PATCH
           \/ Model!_settle \/ Model!_publish_record \/ Model!_abandon_locked \/ Model!apply_transition
    PROVE  ModelInv'
<1>1. ModelTypes /\ Model!Models \subseteq Nat /\ Len(atts) \in Nat
  <2>1. Model!Models \subseteq Nat
    BY AmendmentBounds DEF Model!Models, Model!Alias
  <2> QED BY <2>1, EpochTypes DEF ModelInv, ClaimInv
<1>2. /\ Model!Pending => /\ LastIntent \in Attempt /\ LastIntent = atts[ptr.n] /\ ptr.n = Len(atts)
                          /\ ptr.n \in DOMAIN atts /\ atts \in Seq(Attempt) /\ Unfinished
  BY EpochTypes DEF ModelInv, ModelTypes, ClaimInv, Model!Pending, LastIntent, Unfinished
<1>3. ASSUME NEW m \in Model!Models, Model!_apply(m) PROVE ModelInv'
  <2>1. PICK id : id = [by |-> "manual", n |-> Len(atts)]
    OBVIOUS
  <2>2. id \in Identity /\ m \in Nat
    BY <1>1, <2>1 DEF Identity
  <2>3. Model!_store_intent(id, m, FALSE)
    BY <1>3, <2>1 DEF Model!_apply
  <2>4. UNCHANGED <<start, turns, spec, res, pol, apps, ptr, app, ao, late, qual, cand, drift>>
    BY <1>3 DEF Model!_apply, Model!room, Model!beside
  <2>5. app' \in {None} \cup Application
    BY <1>1, <2>4 DEF ModelTypes
  <2> QED BY <2>2, <2>3, <2>4, <2>5, StoreStep
<1>4. CASE Model!apply_transition
  <2>1. /\ app \in Application /\ app.stage = "audit" /\ app' = [stage |-> "write", pol |-> app.pol]
        /\ UNCHANGED <<start, turns, spec, res, pol, apps, ptr, ao, late, qual, cand, drift>>
    BY <1>1, <1>4 DEF Model!apply_transition, Model!room, Model!beside, ModelTypes
  <2>2. app' \in Application
    BY <2>1 DEF Application
  <2>3. PICK id : id = [by |-> "standing", pol |-> app.pol, epoch |-> Cardinality(Model!epochs), to |-> app.to]
    OBVIOUS
  <2>4. app.pol \in Nat /\ app.to \in Nat
    BY <2>1 DEF Application
  <2>5. Cardinality(Model!epochs) \in Nat
    <3>1. Model!epochs \subseteq 0 .. ptr.n /\ ptr.n \in Nat
      BY EpochTypes DEF ModelInv
    <3>2. IsFiniteSet(0 .. ptr.n)
      BY <3>1, FS_Interval
    <3> QED BY <3>1, <3>2, FS_Subset, FS_CardinalityType
  <2>6. id \in Identity
    BY <2>3, <2>4, <2>5 DEF Identity
  <2>7. Model!Cardinality(Model!epochs) = Cardinality(Model!epochs)
    BY DEF Model!Cardinality, Cardinality
  <2>8. Model!_store_intent(id, app.to, TRUE) \/ UNCHANGED <<atts, win>>
    BY <1>4, <2>3, <2>7 DEF Model!apply_transition
  <2>9. CASE Model!_store_intent(id, app.to, TRUE)
    BY <2>1, <2>2, <2>4, <2>6, <2>9, StoreStep
  <2>10. CASE UNCHANGED <<atts, win>>
    <3>1. ModelTypes'
      BY <1>1, <2>1, <2>2, <2>10 DEF ModelTypes
    <3>2. WriteInv'
      BY <2>1, <2>10 DEF ModelInv, WriteInv, Model!Pending, LastIntent, Unfinished
    <3> QED BY <2>1, <2>10, <3>1, <3>2, BesideStep
  <2> QED BY <2>8, <2>9, <2>10
<1>5. CASE Model!_publish_intent
  <2>1. win.op = "intent" /\ win \in Write /\ Len(atts) # ptr.n
    BY <1>5 DEF Model!_publish_intent, ModelInv, WriteInv, ModelTypes
  <2>2. win.own \in BOOLEAN /\ [win EXCEPT !.op = "advance"] = [op |-> "advance", own |-> win.own]
    BY <2>1 DEF Write, Model!Idle
  <2>3. ptr' = [n |-> Len(atts), state |-> "pending"] /\ win' = [op |-> "advance", own |-> win.own]
        /\ UNCHANGED <<start, turns, spec, res, pol, apps, atts, app, ao, late, qual, cand, drift>>
    BY <1>5, <2>2 DEF Model!_publish_intent, Model!room, Model!beside
  <2> QED BY <2>1, <2>2, <2>3, ClaimStep
<1>6. CASE Model!_claim
  <2>1. Len(atts) # ptr.n
    BY <1>6, EpochTypes DEF Model!_claim, ModelInv
  <2>2. ptr' = [n |-> Len(atts), state |-> "pending"] /\ win' = [op |-> "advance", own |-> FALSE]
        /\ UNCHANGED <<start, turns, spec, res, pol, apps, atts, app, ao, late, qual, cand, drift>>
    BY <1>6 DEF Model!_claim, Model!room, Model!beside
  <2> QED BY <2>1, <2>2, ClaimStep
<1>7. CASE Model!_reconcile
  <2>1. UNCHANGED <<start, turns, spec, res, pol, apps, atts, ptr, app, ao, late, qual, cand, drift>>
        /\ win' = [op |-> "advance", own |-> FALSE] /\ Model!Pending /\ LastIntent.record # "abandoned"
    BY <1>2, <1>7 DEF Model!_reconcile, Model!room, Model!beside
  <2>2. ModelTypes'
    BY <1>1, <2>1 DEF ModelTypes, Write
  <2>3. WriteInv'
    BY <2>1 DEF WriteInv, Model!Pending, LastIntent
  <2> QED BY <2>1, <2>2, <2>3, BesideStep
<1>8. CASE Model!_advance
  <2>1. /\ Model!Pending /\ LastIntent.record # "abandoned" /\ win.op = "advance" /\ win \in Write
        /\ LastIntent = atts[ptr.n]
        /\ UNCHANGED <<start, turns, spec, res, pol, apps, ptr, app, ao, late, qual, cand, drift>>
    BY <1>2, <1>8 DEF Model!_advance, Model!room, Model!beside, ModelInv, WriteInv, ModelTypes
  <2>2. /\ win.own \in BOOLEAN /\ [win EXCEPT !.op = "settle"] = [op |-> "settle", own |-> win.own]
        /\ [win EXCEPT !.op = "patch"] = [op |-> "patch", own |-> win.own]
    BY <2>1 DEF Write, Model!Idle
  <2>3. CASE atts' = atts /\ (win' = [win EXCEPT !.op = "settle"] \/ win' = Model!Idle)
    <3>1. win' \in Write /\ win'.op \in {"settle", "idle"}
      <4>1. CASE win' = [op |-> "settle", own |-> win.own]
        BY <2>2, <4>1 DEF Write
      <4>2. CASE win' = Model!Idle
        BY <4>2 DEF Write, Model!Idle
      <4> QED BY <2>2, <2>3, <4>1, <4>2
    <3>2. ModelTypes'
      BY <1>1, <2>1, <2>3, <3>1 DEF ModelTypes
    <3>3. WriteInv'
      BY <2>1, <2>3, <3>1 DEF WriteInv, Model!Pending, LastIntent
    <3> QED BY <2>1, <2>3, <3>2, <3>3, BesideStep
  <2>4. CASE /\ Model!needs_patch(atts[ptr.n]) /\ atts' = [atts EXCEPT ![ptr.n].marker = TRUE]
             /\ win' = [win EXCEPT !.op = "patch"]
    <3>1. PICK b : b = [LastIntent EXCEPT !.marker = TRUE]
      OBVIOUS
    <3>2. /\ b \in Attempt /\ b.source = LastIntent.source /\ b.target = LastIntent.target /\ b.reset = LastIntent.reset
          /\ b.boundary = LastIntent.boundary /\ b.ev = LastIntent.ev /\ b.record = LastIntent.record
          /\ b.patches = LastIntent.patches /\ b.marker = TRUE
      BY <1>2, <2>1, <3>1 DEF Attempt
    <3>3. atts' = [atts EXCEPT ![ptr.n] = b]
      BY <1>2, <2>1, <2>4, <3>1
    <3>4. ~LastIntent.reset /\ LastIntent.marker = FALSE /\ LastIntent.record = "none"
      BY <1>2, <2>1, <2>4 DEF Model!needs_patch, Attempt
    <3>5. LastIntent.patches = 0
      BY <1>2, <2>1, <3>4 DEF ModelInv, PatchInv
    <3>6. win' \in Write /\ win'.op = "patch"
      BY <2>2, <2>4 DEF Write
    <3>7. ao' \in Settings /\ late' \subseteq Nat
      BY <1>1, <2>1 DEF ModelTypes
    <3>8. /\ ~b.reset /\ b.patches = 0 /\ b.record = "none" /\ b.marker
          /\ b.patches <= (IF b.reset THEN 0 ELSE 1) /\ (~b.marker => b.patches = 0)
      BY <3>2, <3>4, <3>5
    <3>9. UNCHANGED <<start, turns, spec, res, pol, apps, ptr, app, qual, cand, drift>>
      BY <2>1
    <3> QED BY <2>1, <3>2, <3>3, <3>6, <3>7, <3>8, <3>9, RewriteStep
  <2> QED BY <1>8, <2>1, <2>3, <2>4 DEF Model!_advance
<1>9. CASE Model!PATCH
  <2>1. /\ Model!Pending /\ win.op = "patch" /\ win \in Write /\ LastIntent = atts[ptr.n]
        /\ LastIntent.patches = 0 /\ ~LastIntent.reset /\ LastIntent.record = "none" /\ LastIntent.marker
        /\ UNCHANGED <<start, turns, spec, res, pol, apps, ptr, app, qual, cand, drift>>
    BY <1>2, <1>9 DEF Model!PATCH, Model!room, ModelInv, WriteInv, ModelTypes
  <2>2. win.own \in BOOLEAN /\ win' = [op |-> "settle", own |-> win.own]
    BY <1>9, <2>1 DEF Write, Model!Idle, Model!PATCH
  <2>3. PICK m : m = LastIntent.target.model
    OBVIOUS
  <2>4. m \in Nat
    BY <1>2, <2>1, <2>3 DEF Attempt, Selection
  <2>5. ao' \in Settings /\ late' \subseteq Nat
    <3>1. ao' = ao \/ ao' = [ao EXCEPT !.settings = m]
      BY <1>9, <2>1, <2>3 DEF Model!PATCH
    <3>2. late' = late \/ late' = late \cup {m}
      BY <1>9, <2>1, <2>3 DEF Model!PATCH
    <3> QED BY <1>1, <2>4, <3>1, <3>2 DEF ModelTypes, Settings
  <2>6. PICK b : b = [LastIntent EXCEPT !.patches = 1]
    OBVIOUS
  <2>7. /\ b \in Attempt /\ b.source = LastIntent.source /\ b.target = LastIntent.target /\ b.reset = LastIntent.reset
        /\ b.boundary = LastIntent.boundary /\ b.ev = LastIntent.ev /\ b.record = "none"
        /\ b.patches = 1 /\ b.marker
    BY <1>2, <2>1, <2>6 DEF Attempt
  <2>8. atts' = [atts EXCEPT ![ptr.n] = b]
    BY <1>2, <1>9, <2>1, <2>6 DEF Model!PATCH
  <2>9. win' \in Write /\ win'.op = "settle"
    BY <2>2 DEF Write
  <2>10. ~b.reset /\ b.patches <= (IF b.reset THEN 0 ELSE 1) /\ (~b.marker => b.patches = 0)
    BY <2>1, <2>7
  <2>11. Model!Pending /\ UNCHANGED <<start, turns, spec, res, pol, apps, ptr, app, qual, cand, drift>>
    BY <2>1
  <2> QED BY <2>5, <2>7, <2>8, <2>9, <2>10, <2>11, RewriteStep
<1>10. CASE Model!_settle
  <2>1. /\ Model!Pending /\ win.op = "settle" /\ win \in Write /\ LastIntent = atts[ptr.n]
        /\ LastIntent.record # "abandoned"
        /\ UNCHANGED <<start, turns, spec, res, pol, apps, ptr, app, ao, late, qual, cand, drift>>
    BY <1>2, <1>10 DEF Model!_settle, Model!room, Model!beside, ModelInv, WriteInv, ModelTypes
  <2>2. win.own \in BOOLEAN
    BY <2>1 DEF Write, Model!Idle
  <2>3. CASE win' = Model!Idle /\ atts' = atts
    <3>1. ModelTypes'
      BY <1>1, <2>1, <2>3 DEF ModelTypes, Write
    <3>2. WriteInv'
      BY <2>3 DEF WriteInv, Model!Idle
    <3> QED BY <2>1, <2>3, <3>1, <3>2, BesideStep
  <2>4. CASE /\ Model!observed_after(LastIntent)
             /\ atts' = [atts EXCEPT ![ptr.n].record = "committed", ![ptr.n].observed = ao]
             /\ win' = [op |-> "record", own |-> win.own, state |-> "committed"]
    <3>1. ao \in Settings /\ ao' = ao /\ late' \subseteq Nat
      BY <1>1, <2>1 DEF ModelTypes
    <3>2. PICK b : b = [LastIntent EXCEPT !.record = "committed", !.observed = ao]
      OBVIOUS
    <3>3. /\ b \in Attempt /\ b.source = LastIntent.source /\ b.target = LastIntent.target /\ b.reset = LastIntent.reset
          /\ b.boundary = LastIntent.boundary /\ b.ev = LastIntent.ev /\ b.record = "committed" /\ b.observed = ao
          /\ b.patches = LastIntent.patches /\ b.marker = LastIntent.marker
      BY <1>2, <2>1, <3>1, <3>2 DEF Attempt
    <3>4. atts' = [atts EXCEPT ![ptr.n] = b]
      BY <1>2, <2>1, <2>4, <3>2
    <3>5. LastIntent.reset => LastIntent.ev.settings = LastIntent.target.model
      BY <1>2, <2>1 DEF ModelInv, IntentInv
    <3>6. ao = [settings |-> LastIntent.target.model, gen |-> LastIntent.ev.gen, up |-> TRUE]
      BY <2>4, <3>5 DEF Model!observed_after
    <3>7. ao.settings = LastIntent.target.model
      BY <3>6
    <3>8. win' \in Write /\ win'.op = "record" /\ win'.state = "committed"
      BY <2>2, <2>4 DEF Write
    <3>9. /\ LastIntent.patches <= (IF LastIntent.reset THEN 0 ELSE 1)
          /\ ~LastIntent.marker => LastIntent.patches = 0
      BY <1>2, <2>1 DEF ModelInv, PatchInv
    <3> QED BY <2>1, <3>1, <3>3, <3>4, <3>6, <3>7, <3>8, <3>9, RewriteStep
  <2> QED BY <1>10, <2>1, <2>3, <2>4 DEF Model!_settle
<1>11. CASE Model!_abandon_locked
  <2>1. /\ Model!Pending /\ LastIntent = atts[ptr.n] /\ ao.settings = LastIntent.ev.settings
        /\ win' = [op |-> "record", own |-> FALSE, state |-> "abandoned"]
        /\ UNCHANGED <<start, turns, spec, res, pol, apps, ptr, app, ao, late, qual, cand, drift>>
    BY <1>2, <1>11 DEF Model!_abandon_locked, Model!abandonable, Model!room, Model!beside
  <2>2. win' \in Write /\ win'.op = "record" /\ win'.state = "abandoned"
    BY <2>1 DEF Write
  <2>3. CASE LastIntent.record = "abandoned" /\ atts' = atts
    <3>1. ModelTypes'
      BY <1>1, <2>1, <2>2, <2>3 DEF ModelTypes
    <3>2. WriteInv'
      BY <2>1, <2>2, <2>3 DEF WriteInv, Model!Pending, LastIntent
    <3> QED BY <2>1, <2>3, <3>1, <3>2, BesideStep
  <2>4. CASE atts' = [atts EXCEPT ![ptr.n].record = "abandoned", ![ptr.n].observed = ao]
    <3>1. ao \in Settings /\ ao' = ao /\ late' \subseteq Nat
      BY <1>1, <2>1 DEF ModelTypes
    <3>2. PICK b : b = [LastIntent EXCEPT !.record = "abandoned", !.observed = ao]
      OBVIOUS
    <3>3. /\ b \in Attempt /\ b.source = LastIntent.source /\ b.target = LastIntent.target /\ b.reset = LastIntent.reset
          /\ b.boundary = LastIntent.boundary /\ b.ev = LastIntent.ev /\ b.record = "abandoned" /\ b.observed = ao
          /\ b.patches = LastIntent.patches /\ b.marker = LastIntent.marker
      BY <1>2, <2>1, <3>1, <3>2 DEF Attempt
    <3>4. atts' = [atts EXCEPT ![ptr.n] = b]
      BY <1>2, <2>1, <2>4, <3>2
    <3>5. /\ LastIntent.patches <= (IF LastIntent.reset THEN 0 ELSE 1)
          /\ ~LastIntent.marker => LastIntent.patches = 0
      BY <1>2, <2>1 DEF ModelInv, PatchInv
    <3> QED BY <2>1, <2>2, <3>1, <3>3, <3>4, <3>5, RewriteStep
  <2> QED BY <1>11, <2>1, <2>3, <2>4 DEF Model!_abandon_locked
<1> QED BY <1>3, <1>4, <1>5, <1>6, <1>7, <1>8, <1>9, <1>10, <1>11, PublishStep

\* Everything else in the room.
LEMMA RoomSteps ==
    ASSUME ModelInv,
           \/ Model!_claim_pending_resolution \/ Model!adopt_resolution \/ Model!adopt_resolution_save
           \/ Model!freeze_request \/ Model!sync \/ Model!spec_put
    PROVE  ModelInv'
<1>1. /\ ModelTypes /\ DOMAIN turns = 1 .. Len(turns) /\ Len(turns) \in Nat /\ win \in Write
  BY LenProperties DEF ModelInv, ModelTypes
<1>2. /\ Model!_chain /\ ~Model!Pending => ~Unfinished
      /\ Model!settled(FALSE) => Model!_chain /\ ~Model!Pending
  BY DEF Model!_chain, Unfinished, Model!settled, Model!journal
<1>3. UNCHANGED <<start, atts, ptr>> =>
        /\ Model!committed' = Model!committed
        /\ \A i \in Nat : Model!epoch_for_order(i)' = Model!epoch_for_order(i)
        /\ Model!Pending' = Model!Pending /\ (Unfinished' <=> Unfinished)
  BY IntentsStay
<1>4. UNCHANGED <<start, atts, ptr, turns>> => Model!EpochsFrozen'
  <2> SUFFICES ASSUME UNCHANGED <<start, atts, ptr, turns>> PROVE Model!EpochsFrozen'
    OBVIOUS
  <2> QED BY <1>1, <1>3 DEF ModelInv, Model!EpochsFrozen, Model!_frozen
<1>5. \A i : i \in DOMAIN turns => i \in Nat /\ turns[i] \in EngineerTurn
  BY <1>1 DEF ModelTypes
<1>6. CASE Model!_claim_pending_resolution
  <2>1. /\ ~Unfinished /\ UNCHANGED <<start, turns, atts, ptr, ao, drift, spec, pol, apps, app, late, qual, cand>>
        /\ win' = win /\ win = Model!Idle /\ res' = [res EXCEPT !.named = TRUE]
    BY <1>2, <1>6 DEF Model!_claim_pending_resolution, Model!journal, Model!beside
  <2>2. ModelTypes' /\ ~Model!pending_resolution'
    BY <1>1, <2>1 DEF ModelTypes, Model!pending_resolution
  <2>3. WriteInv'
    BY <2>1 DEF WriteInv, Model!Idle
  <2> QED BY <1>1, <1>4, <2>1, <2>2, <2>3, RoomStep
<1>7. CASE Model!adopt_resolution
  <2>1. /\ ~Unfinished /\ UNCHANGED <<start, turns, atts, ptr, ao, drift, spec, pol, apps, app, late, qual, cand>>
        /\ win' = [op |-> "resolution", own |-> TRUE] /\ res' = [res EXCEPT !.file = TRUE]
        /\ Model!unresolved
    BY <1>2, <1>7 DEF Model!adopt_resolution, Model!admitted, Model!beside
  <2>2. ModelTypes'
    BY <1>1, <2>1 DEF ModelTypes, Write
  <2>3. WriteInv'
    BY <1>3, <2>1 DEF WriteInv
  <2>4. Model!committed = {}
    BY <2>1, FirstUnqualified DEF ModelInv, Model!unresolved, Model!Alias
  <2> QED BY <1>1, <1>4, <2>1, <2>2, <2>3, <2>4, RoomStep
<1>8. CASE Model!adopt_resolution_save
  <2>1. /\ win.op = "resolution" /\ win' = Model!Idle /\ res' = [res EXCEPT !.named = TRUE] /\ app' = None
        /\ UNCHANGED <<start, turns, atts, ptr, ao, drift, spec, pol, apps, late, qual, cand>>
    BY <1>8 DEF Model!adopt_resolution_save, Model!beside
  <2>2. ~Unfinished
    BY <2>1 DEF ModelInv, WriteInv
  <2>3. ModelTypes' /\ ~Model!pending_resolution'
    BY <1>1, <2>1 DEF ModelTypes, Write, Model!pending_resolution
  <2>4. WriteInv'
    BY <2>1 DEF WriteInv, Model!Idle
  <2> QED BY <1>1, <1>4, <2>1, <2>2, <2>3, <2>4, RoomStep
<1>9. CASE Model!freeze_request
  <2>1. /\ ~Unfinished /\ UNCHANGED <<start, atts, ptr, ao, drift, spec, res, pol, apps, late, qual, cand, win>>
        /\ app' = None /\ win = Model!Idle
        /\ turns' = Append(turns, [model |-> Model!current.model, expected |-> Model!_frozen(Model!current),
                                   state |-> "active"])
    BY <1>2, <1>9 DEF Model!freeze_request, Model!admitted, Model!beside
  <2>2. Model!current \in Selection
    BY CurrentType DEF ModelInv
  <2>3. PICK turn : turn = [model |-> Model!current.model, expected |-> Model!_frozen(Model!current), state |-> "active"]
    OBVIOUS
  <2>4. turn \in EngineerTurn /\ turn.model = Model!current.model /\ turn.expected = Model!_frozen(Model!current)
    BY <2>2, <2>3 DEF EngineerTurn, Selection, Model!_frozen
  <2>5. /\ turns' \in Seq(EngineerTurn) /\ Len(turns') = Len(turns) + 1 /\ turns'[Len(turns) + 1] = turn
        /\ \A i \in 1 .. Len(turns) : turns'[i] = turns[i]
        /\ DOMAIN turns' = 1 .. Len(turns) + 1
    BY <1>1, <2>1, <2>3, <2>4, AppendProperties, LenProperties DEF ModelTypes
  <2>6. ModelTypes'
    BY <1>1, <2>1, <2>5 DEF ModelTypes
  <2>7. WriteInv'
    BY <2>1 DEF WriteInv, Model!Idle
  <2>8. Model!epoch_for_order(Len(turns) + 1) = Model!current
    <3>1. ASSUME NEW k \in Model!epochs PROVE k = 0 \/ Model!epoch(k).from <= Len(turns) + 1
      <4>1. CASE k # 0
        <5>1. k \in DOMAIN atts
          BY <4>1, EpochTypes DEF ModelInv
        <5>2. atts[k].boundary <= Len(turns)
          BY <5>1 DEF ModelInv, BoundaryInv
        <5>3. atts[k].boundary \in Nat
          BY <5>1, EpochTypes DEF ModelInv, Attempt
        <5> QED BY <1>1, <4>1, <5>2, <5>3 DEF Model!epoch
      <4> QED BY <4>1
    <3>2. {k \in Model!epochs : k = 0 \/ Model!epoch(k).from <= Len(turns) + 1} = Model!epochs
      BY <3>1
    <3> QED BY <3>2 DEF Model!epoch_for_order, Model!current
  <2>9. Model!EpochsFrozen'
    <3>1. ASSUME NEW i \in DOMAIN turns'
          PROVE  turns'[i].model = Model!epoch_for_order(i).model /\ turns'[i].expected = Model!_frozen(Model!epoch_for_order(i))
      <4>1. CASE i = Len(turns) + 1
        BY <2>4, <2>5, <2>8, <4>1
      <4>2. CASE i # Len(turns) + 1
        <5>1. i \in DOMAIN turns /\ turns'[i] = turns[i]
          BY <1>1, <2>5, <3>1, <4>2
        <5> QED BY <5>1 DEF ModelInv, Model!EpochsFrozen
      <4> QED BY <4>1, <4>2
    <3>2. \A i \in DOMAIN turns' : i \in Nat
      BY <1>1, <2>5
    <3> QED BY <1>3, <2>1, <3>1, <3>2 DEF Model!EpochsFrozen, Model!_frozen
  <2>10. Model!pending_resolution' => Model!committed = {}
    BY <2>1 DEF ModelInv, Model!pending_resolution
  <2> QED BY <1>1, <2>1, <2>5, <2>6, <2>7, <2>9, <2>10, RoomStep
<1>10. CASE Model!sync
  <2>1. PICK i \in DOMAIN turns : turns[i].state = "active" /\ turns' = [turns EXCEPT ![i].state = "completed"]
    BY <1>10 DEF Model!sync
  <2>2. UNCHANGED <<start, atts, ptr, ao, drift, spec, res, pol, apps, app, late, qual, cand, win>> /\ win = Model!Idle
    BY <1>10 DEF Model!sync, Model!beside
  <2>3. ~Unfinished
    BY <2>1 DEF ModelInv, IntentInv, Model!finished
  <2>4. PICK turn : turn = [turns[i] EXCEPT !.state = "completed"]
    OBVIOUS
  <2>5. turn \in EngineerTurn /\ turn.model = turns[i].model /\ turn.expected = turns[i].expected
    BY <1>5, <2>4 DEF EngineerTurn
  <2>6. turns' = [turns EXCEPT ![i] = turn]
    BY <2>1, <2>4
  <2>7. /\ turns' \in Seq(EngineerTurn) /\ Len(turns') = Len(turns) /\ DOMAIN turns' = DOMAIN turns
        /\ \A k \in DOMAIN turns : turns'[k].model = turns[k].model /\ turns'[k].expected = turns[k].expected
    BY <1>1, <2>5, <2>6, ExceptSeq DEF ModelTypes
  <2>8. ModelTypes'
    BY <1>1, <2>2, <2>7 DEF ModelTypes
  <2>9. WriteInv'
    BY <2>2 DEF WriteInv, Model!Idle
  <2>10. Model!EpochsFrozen'
    BY <1>3, <1>5, <2>2, <2>7 DEF ModelInv, Model!EpochsFrozen, Model!_frozen
  <2>11. Model!pending_resolution' => Model!committed = {}
    BY <2>2 DEF ModelInv, Model!pending_resolution
  <2> QED BY <1>1, <2>2, <2>3, <2>7, <2>8, <2>9, <2>10, <2>11, RoomStep
<1>11. CASE Model!spec_put
  <2>1. /\ ~Unfinished /\ UNCHANGED <<start, turns, atts, ptr, ao, drift, res, pol, apps, app, late, qual, cand, win>>
        /\ win = Model!Idle /\ spec' = spec + 1
    BY <1>2, <1>11 DEF Model!spec_put, Model!beside
  <2>2. ModelTypes'
    BY <1>1, <2>1 DEF ModelTypes
  <2>3. WriteInv'
    BY <2>1 DEF WriteInv, Model!Idle
  <2>4. Model!pending_resolution' => Model!committed = {}
    BY <2>1 DEF ModelInv, Model!pending_resolution
  <2> QED BY <1>1, <1>4, <2>1, <2>2, <2>3, <2>4, RoomStep
<1> QED BY <1>6, <1>7, <1>8, <1>9, <1>10, <1>11

\* The standing policy, the operator, AO and the death of a controller.
LEMMA BesideSteps ==
    ASSUME ModelInv,
           \/ \E action \in {"set", "revoke"} : Model!record(action)
           \/ Model!record_save \/ Model!apply \/ Model!_write_application \/ Model!send_refused
           \/ Model!Edit \/ Model!Qualify \/ Model!Crash
    PROVE  ModelInv'
<1>1. ModelTypes /\ win \in Write
  BY DEF ModelInv, ModelTypes
<1>2. UNCHANGED <<start, turns, spec, res, atts, ptr, ao, drift, late>>
  BY DEF Model!record, Model!record_save, Model!apply, Model!_write_application, Model!send_refused,
     Model!Edit, Model!Qualify, Model!Crash, Model!Outside, Model!room, Model!beside
<1>3. CASE \E action \in {"set", "revoke"} : Model!record(action)
  <2>1. /\ pol' = [pol EXCEPT !.files = @ + 1] /\ UNCHANGED <<apps, app, qual, cand>>
        /\ win' \in Write /\ win'.op = "policy"
    BY <1>3 DEF Model!record, Model!beside, Write
  <2>2. ModelTypes' /\ WriteInv'
    BY <1>1, <1>2, <2>1 DEF ModelTypes, WriteInv
  <2> QED BY <1>2, <2>2, BesideStep
<1>4. CASE Model!record_save
  <2>1. win.op = "policy" /\ pol' = [pol EXCEPT !.head = pol.files, !.active = win.active]
        /\ UNCHANGED <<apps, app, qual, cand>> /\ win' = Model!Idle
    BY <1>4 DEF Model!record_save, Model!beside
  <2>2. win.active \in BOOLEAN
    BY <1>1, <2>1 DEF Write, Model!Idle
  <2>3. ModelTypes' /\ WriteInv'
    BY <1>1, <1>2, <2>1, <2>2 DEF ModelTypes, WriteInv, Model!Idle, Write
  <2> QED BY <1>2, <2>3, BesideStep
<1>5. CASE Model!apply
  <2>1. UNCHANGED <<pol, win, qual, cand>> /\ win = Model!Idle
    BY <1>5 DEF Model!apply, Model!beside
  <2>2. \/ apps' = apps /\ app' = [stage |-> "audit", pol |-> pol.head, from |-> Model!current.model, to |-> qual]
        \/ apps' = apps + 1 /\ app' = [stage |-> "send"]
    <3>1. CASE Model!finished /\ Model!journal(TRUE) /\ ~Model!Pending /\ Model!follows
      BY <1>5, <3>1 DEF Model!apply
    <3>2. CASE ~(Model!finished /\ Model!journal(TRUE) /\ ~Model!Pending /\ Model!follows)
      BY <1>5, <3>2 DEF Model!apply
    <3> QED BY <3>1, <3>2
  <2>3. apps' \in Nat /\ app' \in Application
    <3>1. Model!current.model \in Nat /\ pol.head \in Nat /\ qual \in Nat /\ apps \in Nat
      BY <1>1, CurrentType DEF ModelInv, ModelTypes, Selection
    <3>2. apps' \in Nat
      BY <2>2, <3>1
    <3>3. CASE app' = [stage |-> "send"]
      BY <3>2, <3>3 DEF Application
    <3>4. CASE app' = [stage |-> "audit", pol |-> pol.head, from |-> Model!current.model, to |-> qual]
      BY <3>1, <3>2, <3>4 DEF Application
    <3> QED BY <2>2, <3>3, <3>4
  <2>4. ModelTypes' /\ WriteInv'
    BY <1>1, <1>2, <2>1, <2>3 DEF ModelTypes, WriteInv, Model!Idle
  <2> QED BY <1>2, <2>4, BesideStep
<1>6. CASE Model!_write_application \/ Model!send_refused
  <2>1. UNCHANGED <<pol, win, qual, cand>> /\ win = Model!Idle /\ apps' \in Nat
    BY <1>1, <1>6 DEF Model!_write_application, Model!send_refused, Model!beside, Model!room, ModelTypes
  <2>2. app' \in {None} \cup Application
    BY <1>6 DEF Model!_write_application, Model!send_refused, Application
  <2>3. ModelTypes' /\ WriteInv'
    BY <1>1, <1>2, <2>1, <2>2 DEF ModelTypes, WriteInv, Model!Idle
  <2> QED BY <1>2, <2>3, BesideStep
<1>7. CASE Model!Edit \/ Model!Qualify
  <2>1. UNCHANGED <<pol, win, apps, app>> /\ qual' \in Nat /\ cand' \in 0..1
    BY <1>1, <1>7 DEF Model!Edit, Model!Qualify, Model!Outside, Model!room, ModelTypes
  <2>2. ModelTypes'
    BY <1>1, <1>2, <2>1 DEF ModelTypes
  <2>3. WriteInv'
    BY <1>2, <2>1 DEF ModelInv, WriteInv, Model!Pending, LastIntent, Unfinished
  <2> QED BY <1>2, <2>2, <2>3, BesideStep
<1>8. CASE Model!Crash
  <2>1. UNCHANGED <<pol, apps, qual, cand>> /\ win' = Model!Idle /\ app' \in {app, None}
    BY <1>8 DEF Model!Crash, Model!room, Model!beside
  <2>2. ModelTypes' /\ WriteInv'
    BY <1>1, <1>2, <2>1 DEF ModelTypes, WriteInv, Model!Idle, Write
  <2> QED BY <1>2, <2>2, BesideStep
<1> QED BY <1>3, <1>4, <1>5, <1>6, <1>7, <1>8

\* What AO does by itself, and what arrives there late or by hand.
LEMMA NativeSteps ==
    ASSUME ModelInv,
           \/ Model!Stop \/ Model!Start
           \/ \E m \in Model!Models : Model!Hand(m) \/ Model!Arrive(m)
    PROVE  ModelInv'
<1>1. ModelTypes /\ ao \in Settings /\ Model!Models \subseteq Nat
  BY AmendmentBounds DEF ModelInv, ModelTypes, Model!Models, Model!Alias
<1>2. UNCHANGED <<start, turns, spec, res, pol, apps, atts, ptr, app, win, qual, cand>>
  BY DEF Model!Stop, Model!Start, Model!Hand, Model!Arrive, Model!Outside, Model!room
<1>3. CASE Model!Stop \/ Model!Start
  <2>1. ao' \in Settings /\ ao'.settings = ao.settings /\ drift' = drift /\ late' = late
    <3>1. PICK n \in Nat : n = ao.gen + 1
      BY <1>1 DEF Settings
    <3>2. CASE Model!Start
      <4>1. ao' = [ao EXCEPT !.up = TRUE, !.gen = n] /\ drift' = drift /\ late' = late
        BY <1>1, <3>1, <3>2 DEF Model!Start, Settings
      <4> QED BY <1>1, <4>1 DEF Settings
    <3>3. CASE Model!Stop
      BY <1>1, <3>3 DEF Model!Stop, Settings
    <3> QED BY <1>3, <3>2, <3>3
  <2>2. ModelTypes'
    BY <1>1, <1>2, <2>1 DEF ModelTypes
  <2> QED BY <1>2, <2>1, <2>2, NativeStep
<1>4. ASSUME NEW m \in Model!Models, Model!Hand(m) \/ Model!Arrive(m) PROVE ModelInv'
  <2>1. m \in Nat /\ ao' = [ao EXCEPT !.settings = m] /\ late' \subseteq late
        /\ (drift' = drift \/ drift' = (drift \/ (m # ao.settings /\ Model!Unwatched)))
        /\ (m = ao.settings \/ drift' = (drift \/ Model!Unwatched))
    BY <1>1, <1>4 DEF Model!Hand, Model!Arrive, Model!Changed
  <2>2. ao' \in Settings /\ ao'.settings = m
    BY <1>1, <2>1 DEF Settings
  <2>3. drift' \in BOOLEAN
    BY <1>1, <2>1 DEF ModelTypes
  <2>4. ModelTypes'
    BY <1>1, <1>2, <2>1, <2>2, <2>3 DEF ModelTypes
  <2>5. Model!Unwatched \/ (Model!Pending /\ LastIntent.record = "none")
    BY DEF Model!Unwatched, ModelInv, ClaimInv, LastIntent
  <2>6. \/ drift' \/ (ao'.settings = ao.settings /\ drift' = drift)
        \/ Model!Pending /\ LastIntent.record = "none"
    BY <1>1, <2>1, <2>2, <2>5 DEF ModelTypes
  <2> QED BY <1>2, <2>4, <2>6, NativeStep
<1> QED BY <1>3, <1>4

\* A room starts with no intent, AO at its selection.
LEMMA ModelStarts ==
    ASSUME Model!Init
    PROVE  ModelInv
<1>1. /\ atts = <<>> /\ ptr = [n |-> 0, state |-> "none"] /\ win = Model!Idle /\ apps = 0 /\ spec = 1 /\ qual = 1
      /\ res = [file |-> FALSE, named |-> FALSE] /\ app = None /\ late = {} /\ cand = 0 /\ drift = FALSE
      /\ ao = [settings |-> start.model, gen |-> 0, up |-> TRUE]
  BY DEF Model!Init
<1>2. PICK first : first = [model |-> 0, expected |-> None, state |-> "completed"]
  OBVIOUS
<1>3. \/ start = [model |-> 1, qual |-> None] /\ turns = <<>>
      \/ start = [model |-> 0, qual |-> None] /\ turns = <<first>>
  BY <1>2 DEF Model!Init, Model!Target, Model!Alias
<1>4. start \in Selection /\ first \in EngineerTurn
  BY <1>2, <1>3 DEF Selection, EngineerTurn
<1>5. turns \in Seq(EngineerTurn)
  <2>1. <<first>> \in Seq(EngineerTurn)
    BY <1>4
  <2>2. CASE turns = <<>>
    BY <2>2
  <2> QED BY <1>3, <2>1, <2>2
<1>6. pol \in [files : Nat, head : Nat, active : BOOLEAN]
  <2>1. PICK p : p = (start.model # 0)
    OBVIOUS
  <2>2. p \in BOOLEAN
    BY <2>1
  <2>3. pol \in {[files |-> 0, head |-> 0, active |-> FALSE]} \cup
               {[files |-> 1, head |-> 1, active |-> q] : q \in Policies \cap {p}}
    BY <2>1 DEF Model!Init, Model!Alias
  <2>4. pol = [files |-> 0, head |-> 0, active |-> FALSE] \/ pol = [files |-> 1, head |-> 1, active |-> p]
    BY <2>3
  <2>5. CASE pol = [files |-> 1, head |-> 1, active |-> p]
    <3>1. CASE p = TRUE
      <4>1. pol = [files |-> 1, head |-> 1, active |-> TRUE]
        BY <2>5, <3>1
      <4> QED BY <4>1
    <3>2. CASE p = FALSE
      <4>1. pol = [files |-> 1, head |-> 1, active |-> FALSE]
        BY <2>5, <3>2
      <4> QED BY <4>1
    <3> QED BY <2>2, <3>1, <3>2
  <2>6. CASE pol = [files |-> 0, head |-> 0, active |-> FALSE]
    BY <2>6
  <2> QED BY <2>4, <2>5, <2>6
<1>7. ModelTypes
  <2>1. win \in Write
    BY <1>1 DEF Write
  <2>2. ao \in Settings /\ late \subseteq Nat /\ app \in {None} \cup Application
    BY <1>1, <1>4 DEF Settings, Selection
  <2>3. atts \in Seq(Attempt)
    BY <1>1
  <2>4. ptr \in [n : Nat, state : {"none", "pending", "committed", "abandoned"}]
        /\ res \in [file : BOOLEAN, named : BOOLEAN]
    BY <1>1
  <2>5. spec \in Nat /\ apps \in Nat /\ qual \in Nat /\ cand \in 0..1
    BY <1>1
  <2>6. drift \in BOOLEAN
    BY <1>1
  <2> QED BY <1>4, <1>5, <1>6, <2>1, <2>2, <2>3, <2>4, <2>5, <2>6 DEF ModelTypes
<1>8. ~Model!Pending /\ ~Unfinished /\ Len(atts) = 0 /\ DOMAIN atts = {} /\ Model!committed = {}
  BY <1>1 DEF Model!Pending, Unfinished, Model!committed
<1>9. ClaimInv /\ IntentInv /\ BoundaryInv /\ PatchInv /\ WriteInv
  <2>1. ClaimInv
    BY <1>1, <1>8 DEF ClaimInv
  <2>2. IntentInv /\ BoundaryInv /\ PatchInv
    BY <1>8 DEF IntentInv, BoundaryInv, PatchInv
  <2>3. WriteInv
    BY <1>1 DEF WriteInv, Model!Idle
  <2> QED BY <2>1, <2>2, <2>3
<1>10. Model!epochs = {0} /\ Model!Max({0}) = 0 /\ Model!epoch(0).target = start
  <2>1. Model!Max({0}) = 0
    BY LastNumber
  <2> QED BY <1>8, <2>1 DEF Model!epochs, Model!epoch
<1>11. Model!current = start
  BY <1>10 DEF Model!current
<1>12. SettledInv
  BY <1>1, <1>8, <1>11 DEF SettledInv
<1>13. Model!EpochsFrozen
  <2>1. SUFFICES ASSUME NEW i \in DOMAIN turns
                 PROVE  /\ turns[i].model = Model!epoch_for_order(i).model
                        /\ turns[i].expected = Model!_frozen(Model!epoch_for_order(i))
    BY DEF Model!EpochsFrozen
  <2>2. {k \in Model!epochs : k = 0 \/ Model!epoch(k).from <= i} = {0}
    BY <1>10
  <2>3. Model!epoch_for_order(i) = start
    BY <1>10, <2>2 DEF Model!epoch_for_order
  <2>4. turns = <<first>> /\ start = [model |-> 0, qual |-> None] /\ i = 1
    BY <1>3
  <2> QED BY <1>2, <2>3, <2>4 DEF Model!_frozen, Model!Alias
<1> QED BY <1>7, <1>8, <1>9, <1>12, <1>13 DEF ModelInv

\* Every step keeps the invariant.
LEMMA ModelSteps ==
    ASSUME ModelInv, [Model!Next]_(Model!vars)
    PROVE  ModelInv'
<1>1. CASE UNCHANGED Model!vars
  <2>1. UNCHANGED <<start, turns, spec, res, pol, apps, atts, ptr, app, win, ao, late, qual, cand, drift>>
    BY <1>1 DEF Model!vars, Model!room
  <2>2. ModelTypes'
    BY <2>1 DEF ModelInv, ModelTypes
  <2>3. WriteInv'
    BY <2>1 DEF ModelInv, WriteInv, Model!Pending, LastIntent, Unfinished
  <2> QED BY <2>1, <2>2, <2>3, BesideStep
<1>2. CASE Model!Next
  BY <1>2, TransitionStep, RoomSteps, BesideSteps, NativeSteps DEF Model!Next
<1> QED BY <1>1, <1>2

\* The invariant of the engineer's model holds.
THEOREM ModelInvariant == Model!Spec => []ModelInv
<1>1. Model!Init => ModelInv
  BY ModelStarts
<1>2. ModelInv /\ [Model!Next]_(Model!vars) => ModelInv'
  BY ModelSteps
<1> QED BY <1>1, <1>2, PTL DEF Model!Spec

\* Every request keeps the model and the expectation of its epoch, one request changes AO at
\* most once, and outside a transition AO is at the epoch in force (check_request, _advance,
\* _settle).
THEOREM SettingsOfEpoch == Model!Spec => []SettingsFollowEpoch
<1>1. ModelInv => SettingsFollowEpoch
  <2>1. SUFFICES ASSUME ModelInv PROVE SettingsFollowEpoch
    OBVIOUS
  <2>2. Model!PatchedOnce
    BY <2>1 DEF ModelInv, PatchInv, Model!PatchedOnce
  <2>3. Model!SettingsFollowEpoch
    BY <2>1 DEF ModelInv, SettledInv, Model!SettingsFollowEpoch
  <2> QED BY <2>1, <2>2, <2>3 DEF ModelInv, SettingsFollowEpoch
<1> QED BY <1>1, ModelInvariant, PTL

\* The evidence of an unfinished intent is the room's, if the standing policy wrote nothing since.
LEMMA SameDigest ==
    ASSUME ModelInv, Unfinished, Model!NoneSince(LastIntent)
    PROVE  Model!_state_digest = LastIntent.ev.state
<1>1. LastIntent \in Attempt
  <2>1. Len(atts) \in Nat /\ Len(atts) # 0
    BY EpochTypes DEF ModelInv, ClaimInv, Unfinished, Model!Pending
  <2> QED BY <2>1, EpochTypes DEF ModelInv, LastIntent
<1>2. PICK s : s = LastIntent.ev.state
  OBVIOUS
<1>3. s \in Seq(EngineerTurn) \X Nat \X BOOLEAN \X Nat \X BOOLEAN \X Nat
  BY <1>1, <1>2 DEF Attempt, Audit
<1>4. s = <<s[1], s[2], s[3], s[4], s[5], s[6]>>
  BY <1>3
<1>5. SubSeq(s, 4, 6) = <<s[4], s[5], s[6]>>
  <2> DEFINE S == {s[i] : i \in 1..6}
             t == SubSeq(s, 4, 6)
  <2>1. \A i \in 4..6 : s[i] \in S
    OBVIOUS
  <2>2. t \in Seq(S) /\ Len(t) = 3 /\ \A i \in 1..3 : t[i] = s[4 + i - 1]
    <3> HIDE DEF S
    <3> QED BY <2>1, SubSeqProperties
  <2> HIDE DEF S, t
  <2>3. t = <<t[1], t[2], t[3]>>
    BY <2>2
  <2>4. t[1] = s[4] /\ t[2] = s[5] /\ t[3] = s[6]
    BY <2>2
  <2> QED BY <2>3, <2>4 DEF t
<1>6. pol.head = s[4] /\ pol.active = s[5] /\ apps = s[6]
  BY <1>2, <1>5 DEF Model!NoneSince
<1>7. turns = s[1] /\ spec = s[2] /\ res.named = s[3]
  BY <1>2 DEF ModelInv, IntentInv
<1> QED BY <1>2, <1>4, <1>6, <1>7 DEF Model!_state_digest

\* No crash leaves a transition that neither its request nor an abandonment can close
\* (_claim, _settle, _abandon_locked).
THEOREM TransitionsClosable == Model!Spec => []TransitionClosable
<1>1. ASSUME ModelInv PROVE TransitionClosable
  <2>1. Model!_resolutions
    BY <1>1 DEF ModelInv, Model!_resolutions
  <2>2. ASSUME Len(atts) = ptr.n + 1, Model!NoneSince(atts[Len(atts)])
        PROVE  Model!_state_digest = atts[Len(atts)].ev.state
    <3>1. Unfinished
      BY <1>1, <2>2, EpochTypes DEF ModelInv, Unfinished
    <3> QED BY <1>1, <2>2, <3>1, SameDigest DEF LastIntent
  <2>3. ASSUME Model!Pending, NEW a, a = atts[ptr.n], Model!NoneSince(a), cand = a.ev.cand,
               ao.up, ao.gen = a.ev.gen,
               IF a.record = "none" THEN ao.settings \in {a.ev.settings, a.target.model}
               ELSE ao.settings = a.observed.settings
        PROVE  Model!settled(TRUE) /\ ((Model!observed_after(a) /\ Model!frozen(a)) \/ Model!abandonable(a))
    <3>1. Unfinished /\ a = LastIntent /\ Len(atts) = ptr.n /\ ao \in Settings
      BY <1>1, <2>3 DEF ModelInv, ModelTypes, ClaimInv, Unfinished, LastIntent
    <3>2. a \in Attempt
      <4>1. ptr.n # 0 /\ ptr.n \in Nat /\ ptr.n = Len(atts)
        BY <1>1, <2>3, <3>1, EpochTypes DEF ModelInv, ClaimInv, Model!Pending
      <4>2. ptr.n \in 1 .. Len(atts)
        BY <4>1
      <4> QED BY <1>1, <2>3, <4>2, EpochTypes DEF ModelInv
    <3>3. Model!frozen(a)
      BY <1>1, <2>3, <3>1, SameDigest DEF Model!frozen, Model!evidence
    <3>4. Model!settled(TRUE)
      BY <1>1, <2>1, <3>1 DEF ModelInv, IntentInv, Model!settled, Model!journal, Model!_chain
    <3>5. /\ a.reset => a.target.model = a.ev.settings
          /\ a.record = "committed" => a.observed.settings = a.target.model
          /\ a.record = "abandoned" => a.observed.settings = a.ev.settings
          /\ a.record \in {"none", "committed", "abandoned"}
      BY <1>1, <3>1, <3>2 DEF ModelInv, IntentInv, Attempt
    <3>6. ao = [settings |-> ao.settings, gen |-> ao.gen, up |-> TRUE]
      BY <2>3, <3>1 DEF Settings
    <3>7. CASE ao.settings = a.target.model
      <4>1. ao = [settings |-> IF a.reset THEN a.ev.settings ELSE a.target.model, gen |-> a.ev.gen, up |-> TRUE]
        BY <2>3, <3>5, <3>6, <3>7
      <4> QED BY <3>3, <3>4, <4>1 DEF Model!observed_after
    <3>8. CASE ao.settings = a.ev.settings /\ a.record # "committed"
      BY <3>3, <3>4, <3>8 DEF Model!abandonable
    <3>9. ao.settings = a.target.model \/ (ao.settings = a.ev.settings /\ a.record # "committed")
      BY <2>3, <3>5
    <3> QED BY <3>7, <3>8, <3>9
  <2> QED BY <2>1, <2>2, <2>3 DEF TransitionClosable, Model!TransitionClosable, Model!Closable
<1> QED BY <1>1, ModelInvariant, PTL
=============================================================================
