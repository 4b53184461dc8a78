---------------------------- MODULE MCDelegates ----------------------------
(* Instances for TLC of the two delegates.  A behaviour explores one of them; *)
(* the invariants of DeepSeekJobs are those of both.  Liveness is checked,   *)
(* so there is no symmetry.                                                  *)
EXTENDS DeepSeekJobs

CONSTANTS Profiles, MaxEdits

VARIABLES of,   \* the delegate this behaviour explores
          profile, serves, ran, edits

FirstRoom == CHOOSE room \in Rooms : TRUE

\* One room: what two rooms do to each other is explored with the other one.
Text == INSTANCE TextDelegate WITH
    Contents <- Payloads, Rooms <- {FirstRoom}, max_retained_bytes <- 3

\* None is apart from the rows of the text delegate too.
ASSUME TextNone == None \notin Text!Job!Row

extra == <<profile, serves, ran, edits>>

\* The versions of the profile are interchangeable.
MCInit ==
    /\ of \in {"deepseek", "text"}
    /\ Init /\ Text!Init
    /\ profile = CHOOSE p \in Profiles : TRUE

Deepseek(A) == of = "deepseek" /\ A /\ UNCHANGED <<of, extra>>
TextOnly(A) == of = "text" /\ A /\ UNCHANGED of

\* The rooms are interchangeable too: the first job is of the first one.
FirstOfFirstRoom == jobs'[1] # None => jobs'[1].room = FirstRoom

MCNext ==
    \/ Deepseek(Next) /\ FirstOfFirstRoom
    \/ TextOnly(Text!Next)

MCvars == <<of, vars, extra>>

MCSpec ==
    /\ MCInit /\ [][MCNext]_MCvars
    /\ WF_MCvars(\E j \in Jobs : Deepseek(Submission(j)) \/ TextOnly(Text!Submission(j)))
    /\ WF_MCvars(\E j \in Jobs : Deepseek(run_worker(j)) \/ TextOnly(Text!run_worker(j)))
    /\ WF_MCvars(Deepseek(Refresh) \/ TextOnly(Text!_refresh))

\* A delegate stays inside what it was granted: whatever dies, the files of its jobs stay in
\* the quota, and a text delegate sends under the profile its job was admitted with.
WithinGrant ==
    /\ of = "deepseek" => WithinQuota
    /\ of = "text" => Text!SentUnderOwnProfile
=============================================================================
