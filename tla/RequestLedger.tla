--------------------------- MODULE RequestLedger ---------------------------
(***************************************************************************)
(* What the dispatch of an AO room promises, whatever is lost and whoever  *)
(* crashes: a request is claimed while no other is open, reaches AO at     *)
(* most once, and is settled only when nobody works on it any more.  A     *)
(* request whose delivery cannot be established stays open, and the room   *)
(* with it: nothing promises that it is ever settled.                      *)
(***************************************************************************)
CONSTANT Requests

VARIABLES
    phase,   \* "new", "claimed", "posted" or "done"
    working  \* requests on their way to a native session or answered there

vars == <<phase, working>>

Init ==
    /\ phase = [r \in Requests |-> "new"]
    /\ working = {}

Open == {r \in Requests : phase[r] \in {"claimed", "posted"}}

Claim(r) ==
    /\ phase[r] = "new"
    /\ Open = {}
    /\ phase' = [phase EXCEPT ![r] = "claimed"]
    /\ UNCHANGED working

Dispatch(r) ==
    /\ phase[r] = "claimed"
    /\ phase' = [phase EXCEPT ![r] = "posted"]
    /\ working' = working \cup {r}

\* The POST is lost, or the native turn ends.
Stop(r) ==
    /\ r \in working
    /\ working' = working \ {r}
    /\ UNCHANGED phase

Settle(r) ==
    /\ phase[r] = "posted"
    /\ r \notin working
    /\ phase' = [phase EXCEPT ![r] = "done"]
    /\ UNCHANGED working

Next == \E r \in Requests : Claim(r) \/ Dispatch(r) \/ Stop(r) \/ Settle(r)

Spec == Init /\ [][Next]_vars
=============================================================================
