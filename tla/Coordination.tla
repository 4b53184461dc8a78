---------------------------- MODULE Coordination ----------------------------
(***************************************************************************)
(* Two-room coordination (ao_coordination.py): an owner room lends some of *)
(* its paths to an assignment room of the same repository and later        *)
(* records that the assignment's accepted result was imported.             *)
(*                                                                         *)
(* Each assignment has an immutable lineage and a lifecycle; the two rooms *)
(* point to it from their state.json.  The four operations hold the        *)
(* adapter lock exclusively, so only a crash separates their writes; the   *)
(* operator's Git commands and the rooms' own work hold nothing.           *)
(*                                                                         *)
(* Handbacks, preflights and imports are files named by the digest of      *)
(* their content, written before the lifecycle that names them, and an     *)
(* identical record is reused: a crash in between changes nothing that a   *)
(* later call could tell apart, and the files are left out.  So are the    *)
(* refusal log, tampered files and account profiles (admission only).      *)
(* A commit is a tree and its ancestors; an owned path covers itself.      *)
(* The rooms' own lifecycle is in AoLifecycle, here with the least that    *)
(* coordination reads.                                                     *)
(***************************************************************************)
EXTENDS Naturals, Sequences, FiniteSets, FiniteSetsExt, SequencesExt

CONSTANTS Rooms, Assignments, Paths,
          MaxTurns,    \* bound: requests of a room
          MaxCommits,  \* bound: commits beyond the baseline
          MaxEffort,   \* bound: requests, commits, admissions and disturbances together
          None

ASSUME BoundsAssumption == {MaxTurns, MaxCommits, MaxEffort} \subseteq Nat

VARIABLES
    commits,      \* the shared repository: commits in creation order
    head,         \* HEAD of each room's worktree
    dirty,        \* each worktree: uncommitted changes?
    spec,         \* state.json: the registered revision
    handoff,      \* state.json: the revision handed off and its baseline commit
    turns,        \* state.json: requests in creation order
    checkpoint,   \* state.json: the current passed checkpoint, or None
    checks,       \* state.json: the number of the last checkpoint ever passed
    acceptances,  \* state.json: the accepted reviews
    coordination, \* state.json: the pointer to assignments
    lineage,      \* lineage.json of each assignment, or None
    lifecycle,    \* state.json of each assignment, or None
    answer,       \* what the last import_preflight of each assignment returned
    opens,        \* admissions that wrote anything
    crashes,      \* admissions among them that died
    disturbed     \* spec revisions, resets and dirty worktrees

git == <<commits, head, dirty>>
work == <<spec, handoff, turns, checkpoint, checks, acceptances>>
assignment == <<coordination, lineage, lifecycle, answer>>
vars == <<git, work, assignment, opens, crashes, disturbed>>

\* n more of what is bounded may still happen.
Within(n) ==
    2 * opens + crashes + 3 * disturbed + Len(commits) - 1 + MapThenSumSet(LAMBDA r : Len(turns[r]), Rooms) + n <= MaxEffort

-----------------------------------------------------------------------------
(***************************************************************************)
(* Git.                                                                    *)
(***************************************************************************)
_is_ancestor(base, commit) == base \in commits[commit].ancestors \cup {commit}
_changed(base, commit) == {p \in Paths : commits[base].tree[p] # commits[commit].tree[p]}
Identical(p, one, two) == commits[one].tree[p] = commits[two].tree[p]
Candidate(r) == [head |-> head[r], dirty |-> dirty[r]]

(***************************************************************************)
(* The two records of an assignment.                                       *)
(***************************************************************************)
ENGAGED == {"active", "handback_recorded"}
_new_lifecycle ==
    [state |-> "active", latest |-> None, preflights |-> <<>>, import |-> None]

\* A lineage without its lifecycle is a reservation.
State(a) == IF lifecycle[a] # None THEN lifecycle[a].state
            ELSE IF lineage[a] # None THEN "active" ELSE None
Engaged(a) == State(a) \in ENGAGED
Ids(r) == ToSet(coordination[r].ids)
Names(r, role, a) == coordination[r].role = role /\ a \in Ids(r)

Init ==
    /\ commits = <<[tree |-> [p \in Paths |-> 1], ancestors |-> {}]>>
    /\ head = [r \in Rooms |-> 1]
    /\ dirty = [r \in Rooms |-> FALSE]
    /\ spec = [r \in Rooms |-> 1]
    /\ handoff = [r \in Rooms |-> [spec |-> 1, baseline |-> 1]]
    /\ turns = [r \in Rooms |-> <<>>]
    /\ checkpoint = [r \in Rooms |-> None]
    /\ checks = [r \in Rooms |-> 0]
    /\ acceptances = [r \in Rooms |-> {}]
    /\ coordination = [r \in Rooms |-> [role |-> None, ids |-> <<>>]]
    /\ lineage = [a \in Assignments |-> None]
    /\ lifecycle = [a \in Assignments |-> None]
    /\ answer = [a \in Assignments |-> None]
    /\ opens = 0 /\ crashes = 0 /\ disturbed = 0

-----------------------------------------------------------------------------
(***************************************************************************)
(* The work of a room, as far as coordination reads it.                    *)
(***************************************************************************)
settled(r) == \A i \in DOMAIN turns[r] : turns[r][i].state = "completed"
HandedOff(r) == handoff[r].spec = spec[r]
\* The latest implementation or correction; 0 when there is none.
latest(r) == LET E == {i \in DOMAIN turns[r] : turns[r][i].role = "engineer"}
             IN  IF E = {} THEN 0 ELSE CHOOSE i \in E : \A j \in E : j <= i
engineering_ready(r) ==
    /\ HandedOff(r) /\ latest(r) # 0
    /\ turns[r][latest(r)].result = Candidate(r)
    /\ turns[r][latest(r)].spec = spec[r]
Current(r) == checkpoint[r] # None /\ checkpoint[r].candidate = Candidate(r)

Disturb == Within(3) /\ disturbed' = disturbed + 1

spec_put(r) ==
    /\ settled(r) /\ Disturb
    /\ spec' = [spec EXCEPT ![r] = @ + 1]
    /\ checkpoint' = [checkpoint EXCEPT ![r] = None]
    /\ UNCHANGED <<git, handoff, turns, checks, acceptances, assignment, opens, crashes>>

\* The agreement that precedes it is part of this step.
hand_off(r) ==
    /\ settled(r) /\ ~HandedOff(r)
    /\ handoff' = [handoff EXCEPT ![r] = [spec |-> spec[r], baseline |-> head[r]]]
    /\ checkpoint' = [checkpoint EXCEPT ![r] = None]
    /\ UNCHANGED <<git, spec, turns, checks, acceptances, assignment, opens, crashes, disturbed>>

\* An engineering request, or a review of the current checkpoint.
send(r, role) ==
    /\ settled(r) /\ Len(turns[r]) < MaxTurns /\ Within(1)
    /\ IF role = "engineer" THEN HandedOff(r) ELSE engineering_ready(r) /\ Current(r)
    /\ turns' = [turns EXCEPT ![r] = Append(@,
         [role |-> role, state |-> "active", spec |-> spec[r], result |-> None,
          review |-> IF role = "engineer" THEN None ELSE checkpoint[r]])]
    /\ UNCHANGED <<git, spec, handoff, checkpoint, checks, acceptances, assignment, opens, crashes, disturbed>>

\* It completes; the result of an engineering request is captured with it.
complete(r) ==
    /\ turns[r] # <<>> /\ Last(turns[r]).state = "active"
    /\ turns' = [turns EXCEPT ![r][Len(turns[r])] =
         [@ EXCEPT !.state = "completed",
                   !.result = IF Last(turns[r]).role = "engineer" THEN Candidate(r) ELSE None]]
    /\ UNCHANGED <<git, spec, handoff, checkpoint, checks, acceptances, assignment, opens, crashes, disturbed>>

verify(r) ==
    /\ settled(r) /\ engineering_ready(r) /\ ~Current(r)
    /\ checks' = [checks EXCEPT ![r] = @ + 1]
    /\ checkpoint' = [checkpoint EXCEPT ![r] =
         [id |-> checks[r] + 1, candidate |-> Candidate(r), spec |-> spec[r]]]
    /\ UNCHANGED <<git, spec, handoff, turns, acceptances, assignment, opens, crashes, disturbed>>

-----------------------------------------------------------------------------
(***************************************************************************)
(* The operator's Git commands.  A commit takes each path from the         *)
(* worktree's own history or from a handback at hand, or writes it anew; a *)
(* merge also takes the handback's ancestry.  Commits of a room's own work *)
(* come from an engineering request under way.                             *)
(***************************************************************************)
AtHand(r) == {lifecycle[a].latest.commit : a \in {b \in Assignments :
                 lineage[b] # None /\ lifecycle[b] # None
                 /\ lineage[b].owner = r /\ lifecycle[b].latest # None}}

commit(r) ==
    /\ Len(commits) <= MaxCommits /\ Within(1)
    /\ AtHand(r) # {} \/ (~settled(r) /\ Last(turns[r]).role = "engineer")
    /\ \E merged \in SUBSET AtHand(r), tree \in [Paths -> {Len(commits) + 1} \cup DOMAIN commits] :
         /\ \A p \in Paths : tree[p] \in {Len(commits) + 1, commits[head[r]].tree[p]}
                                          \cup {commits[c].tree[p] : c \in AtHand(r)}
         /\ tree # commits[head[r]].tree
         /\ commits' = Append(commits,
              [tree |-> tree,
               ancestors |-> UNION {commits[c].ancestors \cup {c} : c \in merged \cup {head[r]}}])
    /\ head' = [head EXCEPT ![r] = Len(commits) + 1]
    /\ dirty' = [dirty EXCEPT ![r] = FALSE]
    /\ UNCHANGED <<work, assignment, opens, crashes, disturbed>>

reset(r) ==
    /\ Disturb
    /\ \/ \E c \in commits[head[r]].ancestors : head' = [head EXCEPT ![r] = c] /\ UNCHANGED dirty
       \/ dirty' = [dirty EXCEPT ![r] = ~@] /\ UNCHANGED head
    /\ UNCHANGED <<commits, work, assignment, opens, crashes>>

-----------------------------------------------------------------------------
(***************************************************************************)
(* Admission.                                                              *)
(***************************************************************************)
\* Mutated form: a lineage still without a lifecycle reserves nothing.
_scan_recorded(o, owned, exclude) ==
    \A a \in Assignments \ exclude :
       lifecycle[a] # None /\ Engaged(a) => lineage[a].owned \cap owned = {} /\ lineage[a].owner # o

\* No other engaged assignment overlaps, and the owner has none.
_scan(o, owned, exclude) ==
    \A a \in Assignments \ exclude :
       Engaged(a) => lineage[a].owned \cap owned = {} /\ lineage[a].owner # o

terminal_repair(a) == lifecycle[a] # None /\ ~Engaged(a)

Supersedable(o, b, old) ==
    /\ lineage[old] # None /\ lifecycle[old] # None
    /\ lineage[old].owner = o /\ lineage[old].room = b
    /\ Engaged(old) /\ settled(b)

\* Mutated form: a repeated admission asks nothing of what the room points to.
Unengaged_first(b, a, old) ==
    /\ coordination[b].role \in {None, "assignment"}
    /\ lineage[a] = None =>
          \A prior \in Ids(b) \ {a, old} :
             lifecycle[prior] # None /\ (Engaged(prior) => terminal_repair(a))

\* The assignment room takes part in nothing else that is still engaged.
Unengaged(b, a, old) ==
    /\ coordination[b].role \in {None, "assignment"}
    /\ \A prior \in Ids(b) \ {a, old} :
          lifecycle[prior] # None /\ (Engaged(prior) => terminal_repair(a))

_new_lineage(o, b, owned, old) ==
    [owner |-> o, room |-> b, owner_spec |-> spec[o], handoff |-> handoff[o],
     spec |-> spec[b], owned |-> owned, supersedes |-> old,
     start |-> [requests |-> Len(turns[b]), checkpoint |-> checks[b]]]

Pointed(r, role, a) ==
    [role |-> role,
     ids |-> IF a \in Ids(r) THEN coordination[r].ids ELSE Append(coordination[r].ids, a)]

\* The writes of an admission, the first k of them when the controller dies.
Writes(o, b, a, new, old, k) ==
    LET supersede == lineage[a] = None /\ old # None
    IN  /\ lineage' = IF lineage[a] = None THEN [lineage EXCEPT ![a] = new] ELSE lineage
        /\ lifecycle' = [x \in Assignments |->
              IF x = a /\ lifecycle[a] = None /\ k >= 2 THEN _new_lifecycle
              ELSE IF x = old /\ supersede /\ k >= 3 THEN [lifecycle[x] EXCEPT !.state = "superseded"]
              ELSE lifecycle[x]]
        /\ coordination' = [r \in Rooms |->
              IF r = o /\ k >= 4 THEN Pointed(o, "owner", a)
              ELSE IF r = b /\ k = 5 THEN Pointed(b, "assignment", a)
              ELSE coordination[r]]

assignment_open(o, b, a, owned, old) ==
    /\ o # b
    /\ coordination[o].role \in {None, "owner"}
    /\ HandedOff(o)
    /\ old # None => Supersedable(o, b, old)
    /\ Unengaged(b, a, old)
    /\ LET new == _new_lineage(o, b, owned, old)
       IN  \* A repeated admission differs in nothing but where it started.
           /\ lineage[a] # None => lineage[a] = [new EXCEPT !.start = lineage[a].start]
           /\ terminal_repair(a) \/ _scan(o, owned, {a, old})
           /\ opens' = opens + 1
           /\ \E k \in 1..5 :
                 /\ Within(IF k < 5 THEN 3 ELSE 2)
                 /\ crashes' = IF k < 5 THEN crashes + 1 ELSE crashes
                 /\ Writes(o, b, a, new, old, k)
    /\ UNCHANGED <<git, work, answer, disturbed>>
    /\ <<lineage, lifecycle, coordination>>' # <<lineage, lifecycle, coordination>>

-----------------------------------------------------------------------------
(***************************************************************************)
(* Handback.                                                               *)
(***************************************************************************)
\* Mutated form: the age of the latest engineering result is not looked at.
AfterAdmission_review_only(a, b, i) ==
    LET start == lineage[a].start
    IN  /\ i > start.requests
        /\ start.checkpoint # 0 => checks[b] # start.checkpoint

\* Nothing of the evidence predates the admission.
AfterAdmission(a, b, i) ==
    LET start == lineage[a].start
    IN  /\ i > start.requests
        /\ start.checkpoint # 0 => checks[b] # start.checkpoint
        /\ latest(b) > start.requests

InScope(a, c) ==
    LET base == lineage[a].handoff.baseline
    IN  /\ c # base /\ _is_ancestor(base, c)
        /\ _changed(base, c) # {} /\ _changed(base, c) \subseteq lineage[a].owned

handback_record(b, a, i) ==
    /\ lineage[a] # None /\ lifecycle[a] # None
    /\ Engaged(a) /\ lineage[a].room = b /\ Names(b, "assignment", a)
    /\ spec[b] = lineage[a].spec
    /\ Current(b)
    /\ \E acc \in acceptances[b] : acc.request = i /\ acc.checkpoint = checkpoint[b]
    /\ AfterAdmission(a, b, i)
    /\ head[b] = checkpoint[b].candidate.head /\ ~dirty[b]
    /\ InScope(a, head[b])
    /\ LET record == [commit |-> head[b], request |-> i, checkpoint |-> checkpoint[b]]
       IN  /\ record # lifecycle[a].latest
           /\ lifecycle' = [lifecycle EXCEPT ![a].latest = record, ![a].state = "handback_recorded"]
    /\ UNCHANGED <<git, work, coordination, lineage, answer, opens, crashes, disturbed>>

-----------------------------------------------------------------------------
(***************************************************************************)
(* Import: preflight, the operator's own merge, record.                    *)
(***************************************************************************)
\* owner_spec_changed, assignment_spec_changed, owner_baseline_changed, owner_busy
_authority_blockers(a) ==
    LET L == lineage[a]
    IN  \/ spec[L.owner] # L.owner_spec
        \/ spec[L.room] # L.spec
        \/ ~HandedOff(L.owner) \/ handoff[L.owner].baseline # L.handoff.baseline
        \/ ~settled(L.owner)

\* Merging changes nothing both sides changed differently.
Clean(h, a) ==
    LET base == lineage[a].handoff.baseline
    IN  \A p \in _changed(base, h) \cap _changed(base, lifecycle[a].latest.commit) :
           Identical(p, h, lifecycle[a].latest.commit)

import_preflight(o, a) ==
    /\ lineage[a] # None /\ lineage[a].owner = o
    /\ State(a) = "handback_recorded" /\ Names(o, "owner", a)
    /\ LET h == head[o]
           blocked == dirty[o] \/ _authority_blockers(a)
           clean == _is_ancestor(lineage[a].handoff.baseline, h) /\ Clean(h, a)
           record == [handback |-> lifecycle[a].latest, before |-> h, blocked |-> blocked,
                      ready |-> ~blocked /\ clean]
           known == \E i \in DOMAIN lifecycle[a].preflights : lifecycle[a].preflights[i] = record
       IN  /\ lifecycle' = [lifecycle EXCEPT ![a].preflights = IF known THEN @ ELSE Append(@, record)]
           /\ answer' = [answer EXCEPT ![a] = record]
           /\ <<lifecycle, answer>>' # <<lifecycle, answer>>
    /\ UNCHANGED <<git, work, coordination, lineage, opens, crashes, disturbed>>

\* Every handback path arrived, or was already there; and something did.
Incorporated(before, now, handback, base) ==
    LET there == _changed(base, handback)
        moved == _changed(before, now)
    IN  /\ there \cap moved # {} \/ _is_ancestor(handback, now)
        /\ \A p \in there \ moved : Identical(p, handback, now)

Faithful(before, now, handback, base) ==
    /\ _changed(before, now) \subseteq _changed(base, handback)
    /\ \A p \in _changed(before, now) : Identical(p, handback, now)

\* With resolution the operator explains what differs.
import_record(o, a, resolution) ==
    /\ lineage[a] # None /\ lineage[a].owner = o
    /\ State(a) = "handback_recorded" /\ Names(o, "owner", a)
    /\ lifecycle[a].preflights # <<>>
    /\ LET preflight == Last(lifecycle[a].preflights)
           handback == preflight.handback
           base == lineage[a].handoff.baseline
       IN  /\ ~preflight.blocked
           /\ handback = lifecycle[a].latest
           /\ ~_authority_blockers(a)
           /\ head[o] # preflight.before /\ _is_ancestor(preflight.before, head[o])
           /\ Incorporated(preflight.before, head[o], handback.commit, base)
           /\ resolution = (~preflight.ready \/ ~Faithful(preflight.before, head[o], handback.commit, base))
           /\ lifecycle' = [lifecycle EXCEPT ![a].state = "imported",
                 ![a].import = [handback |-> handback, after |-> head[o], requests |-> Len(turns[o])]]
    /\ UNCHANGED <<git, work, coordination, lineage, answer, opens, crashes, disturbed>>

-----------------------------------------------------------------------------
(***************************************************************************)
(* Acceptance, with the two checks coordination adds.                      *)
(***************************************************************************)
before_owner_accept(o) ==
    coordination[o].role = "owner" =>
    \A a \in Ids(o) :
       LET base == lineage[a].handoff.baseline
           import == lifecycle[a].import
       IN  /\ Engaged(a) => _changed(base, head[o]) \cap lineage[a].owned = {}
           /\ State(a) = "imported" =>
                 /\ _is_ancestor(import.after, head[o])
                 /\ latest(o) > import.requests

\* Of several engaged assignments only the one the room points to last is looked at.
before_assignment_accept(b) ==
    LET engaged == SelectSeq(coordination[b].ids, Engaged)
        last == lineage[Last(engaged)]
    IN  coordination[b].role = "assignment" /\ engaged # <<>> =>
           /\ _is_ancestor(last.handoff.baseline, head[b])
           /\ _changed(last.handoff.baseline, head[b]) \subseteq last.owned

accept(r, i) ==
    /\ settled(r) /\ engineering_ready(r) /\ Current(r)
    /\ before_owner_accept(r) /\ before_assignment_accept(r)
    /\ turns[r][i].role = "reviewer" /\ turns[r][i].review = checkpoint[r]
    /\ acceptances' = [acceptances EXCEPT ![r] = @ \cup {[request |-> i, checkpoint |-> checkpoint[r]]}]
    /\ acceptances' # acceptances
    /\ UNCHANGED <<git, spec, handoff, turns, checkpoint, checks, assignment, opens, crashes, disturbed>>

Next ==
    \/ \E r \in Rooms :
          \/ spec_put(r) \/ hand_off(r) \/ complete(r) \/ verify(r) \/ commit(r) \/ reset(r)
          \/ \E role \in {"engineer", "reviewer"} : send(r, role)
          \/ \E i \in DOMAIN turns[r] : accept(r, i)
    \/ \E o, b \in Rooms, a \in Assignments :
          \E owned \in SUBSET Paths \ {{}}, old \in (Assignments \ {a}) \cup {None} :
             assignment_open(o, b, a, owned, old)
    \/ \E r \in Rooms, a \in Assignments :
          \/ \E i \in DOMAIN turns[r] : handback_record(r, a, i)
          \/ import_preflight(r, a)
          \/ \E resolution \in BOOLEAN : import_record(r, a, resolution)

Spec == Init /\ [][Next]_vars

-----------------------------------------------------------------------------
(***************************************************************************)
(* The records of the state, and their types.                              *)
(***************************************************************************)
Commit == [tree : [Paths -> Nat], ancestors : SUBSET Nat]
Worktree == [head : Nat, dirty : BOOLEAN]
Handoff == [spec : Nat, baseline : Nat]
Check == [id : Nat, candidate : Worktree, spec : Nat]
Turn == [role : {"engineer", "reviewer"}, state : {"active", "completed"}, spec : Nat,
         result : Worktree \cup {None}, review : Check \cup {None}]
Acceptance == [request : Nat, checkpoint : Check]
Handback == [commit : Nat, request : Nat, checkpoint : Check]
Preflight == [handback : Handback, before : Nat, blocked : BOOLEAN, ready : BOOLEAN]
Import == [handback : Handback, after : Nat, requests : Nat]
Lineage == [owner : Rooms, room : Rooms, owner_spec : Nat, handoff : Handoff, spec : Nat,
            owned : SUBSET Paths, supersedes : Assignments \cup {None},
            start : [requests : Nat, checkpoint : Nat]]
STATES == ENGAGED \cup {"imported", "superseded"}
Lifecycle == [state : STATES, latest : Handback \cup {None},
              preflights : Seq(Preflight), import : Import \cup {None}]

\* None is no record, no state and no assignment.
ASSUME NoneAssumption ==
    /\ None \notin Worktree /\ None \notin Check /\ None \notin Handback
    /\ None \notin Import /\ None \notin Lineage /\ None \notin Lifecycle
    /\ None \notin STATES \cup {"owner", "assignment"} /\ None \notin Assignments

TypeOK ==
    /\ commits \in Seq(Commit) /\ head \in [Rooms -> Nat] /\ dirty \in [Rooms -> BOOLEAN]
    /\ spec \in [Rooms -> Nat] /\ handoff \in [Rooms -> Handoff]
    /\ turns \in [Rooms -> Seq(Turn)]
    /\ checkpoint \in [Rooms -> Check \cup {None}] /\ checks \in [Rooms -> Nat]
    /\ acceptances \in [Rooms -> SUBSET Acceptance]
    /\ coordination \in [Rooms -> [role : {None, "owner", "assignment"}, ids : Seq(Assignments)]]
    /\ lineage \in [Assignments -> Lineage \cup {None}]
    /\ lifecycle \in [Assignments -> Lifecycle \cup {None}]
    /\ answer \in [Assignments -> Preflight \cup {None}]
    /\ {opens, crashes, disturbed} \subseteq Nat

(***************************************************************************)
(* Two assignments engaged at once overlap in no path, share no owner and  *)
(* are not both pointed to by one assignment room, unless one was admitted *)
(* to supersede the other and the controller died before the other was     *)
(* marked: whatever admissions, retries, releases and crashes between      *)
(* their writes preceded (_scan, assignment_open).                         *)
(***************************************************************************)
EngagedApart ==
    \A a, b \in Assignments :
       a # b /\ Engaged(a) /\ Engaged(b) =>
          \/ /\ lineage[a].owned \cap lineage[b].owned = {} /\ lineage[a].owner # lineage[b].owner
             /\ \A r \in Rooms : ~(Names(r, "assignment", a) /\ Names(r, "assignment", b))
          \/ lineage[a].supersedes = b \/ lineage[b].supersedes = a

(***************************************************************************)
(* What an owner records as imported is the assignment's latest handback,  *)
(* verified and accepted in the assignment room after the admission and    *)
(* under the pinned specification, with an engineering request sent since; *)
(* it is a candidate some engineering result of that room captured, and    *)
(* changes owned paths only (handback_record, import_record).              *)
(***************************************************************************)
Earned(a, h) ==
    LET L == lineage[a]
        T == turns[L.room]
    IN  /\ \E acc \in acceptances[L.room] :
              acc.request = h.request /\ acc.checkpoint = h.checkpoint
        /\ h.request > L.start.requests
        /\ h.checkpoint.id > L.start.checkpoint /\ h.checkpoint.spec = L.spec
        /\ \E e \in L.start.requests + 1 .. Len(T) : T[e].role = "engineer"
        /\ \E e \in DOMAIN T : T[e].role = "engineer" /\ T[e].result = h.checkpoint.candidate
        /\ h.commit = h.checkpoint.candidate.head
        /\ _changed(L.handoff.baseline, h.commit) \subseteq L.owned
ImportHonest ==
    \A a \in Assignments :
       State(a) = "imported" =>
          /\ lifecycle[a].import.handback = lifecycle[a].latest
          /\ Earned(a, lifecycle[a].latest)

(***************************************************************************)
(* An assignment once imported or superseded engages its paths never       *)
(* again, and its import stays what it was, however often an admission is  *)
(* repeated to repair a pointer (terminal_repair in assignment_open).      *)
(***************************************************************************)
ReleasedForGood ==
    [][\A a \in Assignments :
          State(a) \in {"imported", "superseded"} =>
             lifecycle'[a].state = lifecycle[a].state /\ lifecycle'[a].import = lifecycle[a].import]_vars

(***************************************************************************)
(* An owner accepts a candidate after an import only when an engineering   *)
(* result obtained after that import judged this very candidate, which     *)
(* descends from the imported HEAD (before_owner_accept with               *)
(* engineering_ready), though the review itself may be older.              *)
(***************************************************************************)
AcceptedAfterImport ==
    [][\A r \in Rooms : acceptances'[r] # acceptances[r] =>
          \A a \in Assignments :
             lineage[a] # None /\ lineage[a].owner = r /\ State(a) = "imported" =>
                LET I == lifecycle[a].import
                IN  /\ \E e \in I.requests + 1 .. Len(turns[r]) :
                          turns[r][e].role = "engineer" /\ turns[r][e].result = Candidate(r)
                    /\ _is_ancestor(I.after, head[r])]_vars

(***************************************************************************)
(* Of docs/guides/two-room-coordination.md: the handback refuses evidence  *)
(* that predates the admission (engineering_predates_assignment), "a       *)
(* reused room's terminal history never stands in for work done under the  *)
(* new assignment": a result obtained since is what is handed back.        *)
(***************************************************************************)
EngineeredSinceAdmission ==
    \A a \in Assignments :
       State(a) = "handback_recorded" =>
          LET L == lineage[a]
          IN  \E e \in L.start.requests + 1 .. Len(turns[L.room]) :
                 turns[L.room][e].result = lifecycle[a].latest.checkpoint.candidate

=============================================================================
