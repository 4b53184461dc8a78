---------------------------- MODULE ChangesetBatch ----------------------------
(***************************************************************************)
(* What the change-set tool promises about the batches it applies to one   *)
(* workspace (docs/reference/changesets.md): a committed batch holds the   *)
(* workspace until it is completed, each of its targets is replaced once,  *)
(* and it is completed only when all of them are replaced.                 *)
(***************************************************************************)
CONSTANTS Plans, Files

VARIABLES phase,    \* per batch: "idle", "open" after its commit, "done"
          pending   \* per batch: the targets it still has to replace

vars == <<phase, pending>>

Init ==
    /\ phase = [p \in Plans |-> "idle"]
    /\ pending = [p \in Plans |-> {}]

\* The prepared journal is the commit point; a batch waits for an open one.
Commit(p, S) ==
    /\ \A q \in Plans : phase[q] # "open"
    /\ phase[p] = "idle"
    /\ phase' = [phase EXCEPT ![p] = "open"]
    /\ pending' = [pending EXCEPT ![p] = S]

Replace(p, f) ==
    /\ phase[p] = "open"
    /\ f \in pending[p]
    /\ pending' = [pending EXCEPT ![p] = @ \ {f}]
    /\ UNCHANGED phase

Complete(p) ==
    /\ phase[p] = "open"
    /\ pending[p] = {}
    /\ phase' = [phase EXCEPT ![p] = "done"]
    /\ UNCHANGED pending

Next ==
    \E p \in Plans :
        \/ \E S \in SUBSET Files : Commit(p, S)
        \/ \E f \in Files : Replace(p, f)
        \/ Complete(p)

Spec == Init /\ [][Next]_vars
===============================================================================
