-------------------------- MODULE AoDispatch_proof --------------------------
(***************************************************************************)
(* For any requests, turns and roles: a request is POSTed at most once, no *)
(* two are given the same turn, what is completed stays completed, and as  *)
(* long as no human types the bytes of a request, each is given its own    *)
(* turn, at most one is being worked on, and the dispatch implements       *)
(* RequestLedger.                                                          *)
(***************************************************************************)
EXTENDS AoDispatch, FiniteSetTheorems, TLAPS

Done(r) == req[r].state \in {"completed", "settled_failure"}
OpenRequests == {r \in Sent : ~Done(r)}

\* A send in progress belongs to the open request whose intent it saved.
WinInv ==
    /\ win.step # "idle" => win.req \in OpenRequests /\ req[win.req].turn = None
    /\ win.step = "post" => posts[win.req] = 0

\* A POST in flight, or the one turn started for it, accounts for every POST.
PostInv ==
    \A r \in Requests :
        /\ posts[r] \in {0, 1} /\ flight[r] \in {0, 1}
        /\ posts[r] # 0 => req[r] # None
        /\ posts[r] = 0 => flight[r] = 0
        /\ \A t \in Turns : turn[t].req = r => posts[r] = 1 /\ flight[r] = 0

TurnInv ==
    \A t \in Turns :
        /\ turn[t].role # None => turn[t].st # "unborn"
        /\ turn[t].req # None => /\ turn[t].st # "unborn"
                                 /\ turn[t].role = req[turn[t].req].role
        /\ \A u \in Turns : turn[t].req # None /\ turn[t].req = turn[u].req => t = u

\* The open request is alone, and whatever is outstanding belongs to it unless a
\* human typed the bytes of a request.
OpenInv ==
    /\ \A r, q \in OpenRequests : r = q
    /\ Copied \/ Outstanding \subseteq OpenRequests

\* Every turn of another request was there before the open request was sent, unless
\* a human's copy settled that request before its POST was delivered.
BaselineInv ==
    \/ Copied
    \/ \A r \in OpenRequests, t \in Turns :
          turn[t].req \notin {None, r} /\ turn[t].role = req[r].role => t \in req[r].baseline

\* The baseline of a request holds older turns only, and the turn of every other
\* request that was given one; a settled request was given one.
GivenInv ==
    \A r \in Sent :
        /\ \A t \in req[r].baseline : turn[t].st # "unborn" /\ turn[t].req # r
        /\ Done(r) => req[r].turn # None
        /\ req[r].turn # None => turn[req[r].turn].role = req[r].role
        /\ ~Done(r) => \A q \in Sent \ {r} :
              req[q].turn # None /\ req[q].role = req[r].role => req[q].turn \in req[r].baseline

DispatchInv ==
    TypeOK /\ WinInv /\ PostInv /\ TurnInv /\ OpenInv /\ BaselineInv /\ GivenInv /\ OwnTurn

-----------------------------------------------------------------------------
(***************************************************************************)
(* Types.                                                                  *)
(***************************************************************************)
\* What _observe makes of an attributable result is an outcome record.
LEMMA ObservedType ==
    ASSUME TypeOK, NEW r \in Sent, NEW explicit \in BOOLEAN, Attributable(r)
    PROVE  Observed(r, explicit) \in Outcome
<1>1. req[r] \in Record /\ req[r].receipt \in Ended /\ req[r].turn \in Turns
  BY DEF TypeOK, Sent, Record, Attributable, Ended, sent_message, turn_ids
<1>2. /\ turn[req[r].turn].ev.kind \in Kinds
      /\ turn[req[r].turn].ev.native \in BOOLEAN
  <2>1. Evidence \subseteq [kind : Kinds, native : BOOLEAN]
    BY DEF Evidence
  <2>2. turn[req[r].turn] \in Turn
    BY <1>1 DEF TypeOK
  <2> QED
    BY <2>1, <2>2 DEF Turn
<1>3. \A res \in Nat : Fresh(r, res) \in Outcome
  BY <1>1, <1>2 DEF Fresh, Outcome
<1>4. req[r].outcome # None => req[r].outcome \in Outcome
  BY <1>1 DEF Record
<1>5. ASSUME NEW value \in Outcome, req[r].outcome # None
      PROVE  /\ Resolution(req[r].outcome, value, explicit) \in Nat
             /\ Noted(value, req[r].outcome) \in Outcome
             /\ [value EXCEPT !.kind = req[r].outcome.kind] \in Outcome
  <2>1. Resolution(req[r].outcome, value, explicit) \in Nat
    BY <1>4, <1>5 DEF Resolution, Outcome
  <2>2. \A v \in Outcome, k \in Kinds : [v EXCEPT !.kind = k] \in Outcome
    BY DEF Outcome
  <2>3. \A v \in Outcome, k \in Kinds : [v EXCEPT !.kind = k, !.noted = TRUE] \in Outcome
    BY DEF Outcome
  <2>4. req[r].outcome.kind \in Kinds
    BY <1>4, <1>5 DEF Outcome
  <2> QED
    BY <2>1, <2>2, <2>3, <2>4 DEF Noted
<1>6. CASE req[r].outcome = None
  BY <1>3, <1>6 DEF Observed
<1>7. CASE req[r].outcome # None
  <2> DEFINE value == Fresh(r, Resolution(req[r].outcome, Fresh(r, 0), explicit))
  <2>1. value \in Outcome
    BY <1>3, <1>5, <1>7
  <2>2. Observed(r, explicit) \in {Noted(value, req[r].outcome), req[r].outcome, value,
                                  [value EXCEPT !.kind = req[r].outcome.kind]}
    BY <1>7, <2>1 DEF Observed
  <2> QED
    BY <1>4, <1>5, <1>7, <2>1, <2>2
<1> QED
  BY <1>6, <1>7

\* The record of a request with a new outcome, reroute flag or release.
LEMMA RecordUpdates ==
    ASSUME TypeOK, NEW r \in Sent
    PROVE  /\ req[r] \in Record
           /\ \A o \in Outcome : [req[r] EXCEPT !.outcome = o] \in Record
           /\ [req[r] EXCEPT !.model_reroute = TRUE] \in Record
<1>1. req[r] \in Record
  BY DEF TypeOK, Sent
<1>2. \A x \in Record, o \in Outcome : [x EXCEPT !.outcome = o] \in Record
  BY DEF Record
<1>3. \A x \in Record : [x EXCEPT !.model_reroute = TRUE] \in Record
  BY DEF Record
<1> QED
  BY <1>1, <1>2, <1>3

\* A native turn that is accepted, ends, or changes its evidence.
LEMMA TurnUpdates ==
    ASSUME NEW x \in Turn
    PROVE  /\ [x EXCEPT !.provider = TRUE] \in Turn
           /\ \A ev \in Evidence : [x EXCEPT !.ev = ev] \in Turn
           /\ \A st \in Ended, ev \in Evidence : [x EXCEPT !.st = st, !.ev = ev] \in Turn
           /\ [x EXCEPT !.st = "completed", !.provider = TRUE] \in Turn
<1>1. [x EXCEPT !.provider = TRUE] \in Turn
  BY DEF Turn
<1>2. ASSUME NEW ev \in Evidence PROVE [x EXCEPT !.ev = ev] \in Turn
  BY DEF Turn
<1>3. ASSUME NEW st \in Ended, NEW ev \in Evidence PROVE [x EXCEPT !.st = st, !.ev = ev] \in Turn
  BY DEF Turn, Ended
<1>4. [x EXCEPT !.st = "completed", !.provider = TRUE] \in Turn
  BY DEF Turn, Ended
<1> QED
  BY <1>1, <1>2, <1>3, <1>4

\* The empty room has the shape every variable keeps.
LEMMA TypeInit == Init => TypeOK
<1> SUFFICES ASSUME Init PROVE TypeOK
  OBVIOUS
<1>1. Unborn \in Turn
  BY DEF Unborn, Turn, Texts, Evidence, Kinds, RESUMABLE, Ended
<1> QED
  BY <1>1 DEF Init, TypeOK, Idle

\* A record that takes over what AO says of its turn.
LEMMA NativeUpdate ==
    ASSUME NEW x \in Record, NEW t \in Turns, NEW p \in BOOLEAN,
           NEW c \in Ended \cup {None}, NEW b \in Ended \cup {"running"},
           NEW o \in Outcome \cup {None}, NEW s \in {"completed", "uncertain", "running"}
    PROVE  [x EXCEPT !.turn = t, !.observed = b, !.provider = p, !.receipt = c, !.outcome = o, !.state = s]
             \in Record
<1>1. [x EXCEPT !.turn = t, !.observed = b] \in Record
  BY DEF Record
<1>2. \A y \in Record : [y EXCEPT !.provider = p, !.receipt = c] \in Record
  BY DEF Record
<1>3. \A y \in Record : [y EXCEPT !.outcome = o, !.state = s] \in Record
  BY DEF Record
<1>4. [x EXCEPT !.turn = t, !.observed = b, !.provider = p, !.receipt = c, !.outcome = o, !.state = s]
        = [[[x EXCEPT !.turn = t, !.observed = b] EXCEPT !.provider = p, !.receipt = c]
             EXCEPT !.outcome = o, !.state = s]
  BY DEF Record
<1> QED
  BY <1>1, <1>2, <1>3, <1>4

\* A completion weighed at once has an outcome, which counts no resolution.
LEMMA FirstOutcomeType ==
    ASSUME TypeOK, NEW r \in Sent, NEW t \in Turns
    PROVE  /\ FirstOutcome(r, t) \in Outcome \cup {None}
           /\ req[r].outcome # None => FirstOutcome(r, t) = req[r].outcome
<1>1. turn[t].ev \in Evidence /\ req[r].outcome \in Outcome \cup {None}
  BY RecordUpdates DEF TypeOK, Turn, Record
<1>2. turn[t].ev.kind \in Kinds /\ turn[t].ev.native \in BOOLEAN
  BY <1>1 DEF Evidence
<1> QED BY <1>1, <1>2 DEF FirstOutcome, Outcome, Ended

\* What a sync makes of a record is a record.
LEMMA SyncType ==
    ASSUME TypeOK, TurnInv, NEW r \in Sent PROVE Synced(r) \in Record
<1>1. ASSUME NEW t \in Turns, sent_message(r) = {t} PROVE Reconciled(r, t) \in Record
  <2>1. /\ turn[t].st \in Ended \cup {"running"}
        /\ turn[t].provider \in BOOLEAN
    <3>1. turn[t].role = req[r].role /\ req[r].role # None /\ turn[t] \in Turn
      <4>1. t \in sent_message(r)
        BY <1>1
      <4>2. turn[t].role = req[r].role
        BY <4>1 DEF sent_message, turn_ids
      <4>3. req[r].role \in Roles
        BY RecordUpdates DEF Record
      <4> QED BY <4>2, <4>3, NoneAssumption DEF TypeOK
    <3>2. turn[t].st # "unborn"
      BY <3>1 DEF TurnInv
    <3>3. turn[t].st \in Ended \cup {"unborn", "running"} /\ turn[t].provider \in BOOLEAN
      BY <3>1 DEF Turn
    <3> QED BY <3>2, <3>3
  <2> QED
    <3> DEFINE delivered == req[r].provider \/ turn[t].provider
               st == turn[t].st
    <3>1. req[r].provider \in BOOLEAN /\ req[r].receipt \in Ended \cup {None}
      BY RecordUpdates DEF Record
    <3>2. Receipt(r, st) \in Ended \cup {None}
      BY <2>1, <3>1 DEF Receipt
    <3> DEFINE state == IF turn[t].provider /\ st = "completed" THEN "completed"
                        ELSE IF st \in Ended THEN "uncertain" ELSE "running"
    <3>3. delivered \in BOOLEAN /\ state \in {"completed", "uncertain", "running"}
      BY <2>1, <3>1
    <3>4. st \in Ended \cup {"running"} /\ req[r] \in Record
      BY <2>1, RecordUpdates
    <3>5. Reconciled(r, t)
            = [req[r] EXCEPT !.turn = t, !.observed = st, !.provider = delivered,
                             !.receipt = Receipt(r, st), !.outcome = FirstOutcome(r, t), !.state = state]
      BY DEF Reconciled
    <3> HIDE DEF delivered, st, state
    <3>6. [req[r] EXCEPT !.turn = t, !.observed = st, !.provider = delivered,
                         !.receipt = Receipt(r, st), !.outcome = FirstOutcome(r, t), !.state = state] \in Record
      BY <1>1, <3>2, <3>3, <3>4, FirstOutcomeType, NativeUpdate, ZenonT(30)
    <3> QED
      BY <3>5, <3>6
<1>2. CASE Attributable(r)
  BY <1>1, <1>2, ObservedType, RecordUpdates DEF Synced
<1> QED
  BY <1>1, <1>2, RecordUpdates DEF Synced

\* Every step keeps the types.
LEMMA TypeStep == DispatchInv /\ [Next]_vars => TypeOK'
<1> SUFFICES ASSUME DispatchInv, [Next]_vars PROVE TypeOK'
  OBVIOUS
<1> TypeOK /\ WinInv /\ PostInv /\ TurnInv
  BY DEF DispatchInv
<1>1. ASSUME NEW o \in Roles, SendRefused(o) PROVE TypeOK'
  <2>1. PICK r \in latest_for_role(o) : Attributable(r) /\ req' = SaveOutcome(r, FALSE)
    BY <1>1 DEF SendRefused
  <2>2. r \in Sent
    BY DEF latest_for_role
  <2>3. [req[r] EXCEPT !.outcome = Observed(r, FALSE)] \in Record
    BY <2>1, <2>2, ObservedType, RecordUpdates
  <2>4. req' \in [Requests -> Record \cup {None}]
    BY <2>1, <2>2, <2>3 DEF SaveOutcome, TypeOK, Sent
  <2> QED
    BY <1>1, <2>4 DEF SendRefused, TypeOK, aoVars
<1>2. ASSUME NEW o \in Roles, NEW n \in Requests, SendIntent(o, n) PROVE TypeOK'
  <2>1. Intent(o) \in Record
    <3>1. turn_ids(o) \subseteq Turns
      BY DEF turn_ids
    <3>2. Cardinality(Sent) + 1 \in Nat
      BY FiniteAssumption, FS_Subset, FS_CardinalityType DEF Sent
    <3> QED
      BY <3>1, <3>2 DEF Intent, Record
  <2>2. \A q \in latest_for_role(o) : [req[q] EXCEPT !.outcome = Observed(q, FALSE)] \in Record
    BY <1>2, ObservedType, RecordUpdates DEF SendIntent, latest_for_role
  <2>3. req' \in [Requests -> Record \cup {None}]
    BY <1>2, <2>1, <2>2 DEF SendIntent, TypeOK
  <2> QED
    BY <1>2, <2>3 DEF SendIntent, TypeOK, aoVars
<1>3. CASE Post
  BY <1>3 DEF Post, TypeOK, WinInv, OpenRequests, Sent, aoVars
<1>4. CASE Acknowledge
  <2>1. PICK t \in Turns : req' = [req EXCEPT ![win.req].turn = t, ![win.req].state = "submitted"]
    BY <1>4 DEF Acknowledge
  <2>2. win.req \in Sent
    BY <1>4 DEF Acknowledge, WinInv, OpenRequests
  <2>3. [req[win.req] EXCEPT !.turn = t, !.state = "submitted"] \in Record
    BY <2>2, RecordUpdates, ZenonT(60) DEF Record
  <2>4. req' \in [Requests -> Record \cup {None}]
    BY <2>1, <2>2, <2>3 DEF TypeOK, Sent
  <2> QED
    BY <1>4, <2>4 DEF Acknowledge, Idle, TypeOK, aoVars
<1>5. CASE DeliveryError
  BY <1>5 DEF DeliveryError, Idle, TypeOK, aoVars
<1>6. CASE Sync
  BY <1>6, SyncType DEF Sync, TypeOK, aoVars
<1>7. CASE SyncConflict
  <2>1. PICK r \in Conflicts : req' = [req EXCEPT ![r].model_reroute = TRUE]
    BY <1>7 DEF SyncConflict
  <2>2. r \in Sent
    BY DEF Conflicts
  <2>3. req' \in [Requests -> Record \cup {None}]
    BY <2>1, <2>2, RecordUpdates DEF TypeOK, Sent
  <2> QED
    BY <1>7, <2>3 DEF SyncConflict, TypeOK, aoVars
<1>8. ASSUME NEW r \in Requests, Audit(r) PROVE TypeOK'
  <2>1. [req[r] EXCEPT !.outcome = Observed(r, TRUE)] \in Record
    BY <1>8, ObservedType, RecordUpdates DEF Audit, Auditable
  <2>2. req' \in [Requests -> Record \cup {None}]
    BY <1>8, <2>1 DEF Audit, SaveOutcome, TypeOK
  <2> QED
    BY <1>8, <2>2 DEF Audit, TypeOK, aoVars
<1>9. ASSUME NEW r \in Requests, NEW n \in Requests, Resume(r, n) PROVE TypeOK'
  <2> DEFINE o == Observed(r, FALSE)
             st == IF req[r].state = "completed" THEN "completed" ELSE "settled_failure"
  <2>1. r \in Sent /\ o \in Outcome
    BY <1>9, ObservedType DEF Resume, Continuable, Auditable
  <2>2. [req[r] EXCEPT !.outcome = o, !.release = [resume |-> n, outcome |-> o], !.state = st] \in Record
    BY <2>1, RecordUpdates, ZenonT(60) DEF Record
  <2>3. req' = [req EXCEPT ![r] =
                  [req[r] EXCEPT !.outcome = o, !.release = [resume |-> n, outcome |-> o], !.state = st]]
    BY <1>9, <2>1, RecordUpdates DEF Resume, TypeOK, Record, Sent
  <2>4. req' \in [Requests -> Record \cup {None}]
    BY <2>2, <2>3 DEF TypeOK
  <2> QED
    BY <1>9, <2>4 DEF Resume, TypeOK, aoVars
<1>9a. ASSUME NEW r \in Requests, NEW n \in Requests, ResumeRefused(r, n) PROVE TypeOK'
  <2>1. [req[r] EXCEPT !.outcome = Observed(r, FALSE)] \in Record
    BY <1>9a, ObservedType, RecordUpdates DEF ResumeRefused, Continuable, Auditable
  <2>2. req' \in [Requests -> Record \cup {None}]
    BY <1>9a, <2>1 DEF ResumeRefused, SaveOutcome, TypeOK
  <2> QED
    BY <1>9a, <2>2 DEF ResumeRefused, TypeOK, aoVars
<1>10. CASE Crash
  BY <1>10, BoundsAssumption DEF Crash, Idle, TypeOK, aoVars
<1>11. ASSUME NEW r \in Requests, Lose(r) PROVE TypeOK'
  BY <1>11 DEF Lose, TypeOK, aoVars
<1>12. ASSUME NEW r \in Requests, NEW t \in Turns, Deliver(r, t) PROVE TypeOK'
  <2>1. r \in Sent
    BY <1>12 DEF Deliver, PostInv, Sent
  <2>2. [Unborn EXCEPT !.role = req[r].role, !.req = r, !.text = "same", !.st = "running"] \in Turn
    BY <1>12, <2>1, RecordUpdates DEF Unborn, Turn, Texts, Evidence, Kinds, RESUMABLE, Record
  <2>3. turn' \in [Turns -> Turn]
    BY <1>12, <2>2 DEF Deliver, TypeOK
  <2> QED
    BY <1>12, <2>3 DEF Deliver, TypeOK
<1>13. ASSUME NEW t \in Turns, Accept(t) PROVE TypeOK'
  <2>1. turn' \in [Turns -> Turn]
    BY <1>13, TurnUpdates DEF Accept, TypeOK
  <2> QED
    BY <1>13, <2>1 DEF Accept, TypeOK
<1>14. ASSUME NEW t \in Turns, NEW st \in Ended, NEW ev \in Seen, End(t, st, ev) PROVE TypeOK'
  <2>1. turn' \in [Turns -> Turn]
    BY <1>14, SeenAssumption, TurnUpdates DEF End, TypeOK
  <2> QED
    BY <1>14, <2>1 DEF End, TypeOK
<1>15. ASSUME NEW t \in Turns, CompleteLate(t) PROVE TypeOK'
  <2>1. turn' \in [Turns -> Turn]
    BY <1>15, TurnUpdates DEF CompleteLate, TypeOK
  <2> QED
    BY <1>15, <2>1 DEF CompleteLate, TypeOK
<1>16. ASSUME NEW t \in Turns, NEW ev \in Seen, ChangeEvidence(t, ev) PROVE TypeOK'
  <2>1. turn' \in [Turns -> Turn]
    BY <1>16, SeenAssumption, TurnUpdates DEF ChangeEvidence, TypeOK
  <2> QED
    BY <1>16, <2>1 DEF ChangeEvidence, TypeOK
<1>17. ASSUME NEW o \in Roles, NEW t \in Turns \cup {Unattributed, None}, Reroute(o, t) PROVE TypeOK'
  BY <1>17 DEF Reroute, TypeOK
<1>18. ASSUME NEW o \in Roles, NEW text \in HumanTexts, NEW t \in Turns, Foreign(o, text, t) PROVE TypeOK'
  <2>1. [Unborn EXCEPT !.role = o, !.text = text, !.st = "running"] \in Turn
    BY TextsAssumption DEF Unborn, Turn, Texts, Evidence, Kinds, RESUMABLE
  <2>2. turn' \in [Turns -> Turn]
    BY <1>18, <2>1 DEF Foreign, TypeOK
  <2> QED
    BY <1>18, <2>2 DEF Foreign, TypeOK
<1>19. CASE UNCHANGED vars
  BY <1>19 DEF vars, TypeOK
<1> QED
  BY <1>1, <1>2, <1>3, <1>4, <1>5, <1>6, <1>7, <1>8, <1>9, <1>9a, <1>10, <1>11, <1>12, <1>13, <1>14,
     <1>15, <1>16, <1>17, <1>18, <1>19 DEF Next, Controller, Native

-----------------------------------------------------------------------------
(***************************************************************************)
(* Two shapes cover every step but four: the controller saves what it      *)
(* observed while the native side stands still, or the native side moves   *)
(* while state.json stands still.                                          *)
(***************************************************************************)
\* The record of r keeps its identity and its settlement.  It is given a turn once:
\* the one started for it, or one that carries its bytes and is newer than its send.
Given(r) ==
    LET t == req'[r].turn IN
    /\ ~Done(r) /\ req[r].turn = None
    /\ t \in Turns /\ turn[t].role = req[r].role
    /\ \/ turn[t].req = r
       \/ t \notin req[r].baseline /\ turn[t].text = "same"

Advanced(r) ==
    /\ req'[r] = None <=> req[r] = None
    /\ req[r] # None =>
          /\ req'[r].role = req[r].role /\ req'[r].baseline = req[r].baseline
          /\ req'[r].turn # req[r].turn => Given(r)
          /\ Done(r) => req'[r].state = req[r].state
          /\ ~Done(r) /\ Done(r)' =>
                /\ req'[r].turn \in Turns /\ turn[req'[r].turn].st \notin Live
                /\ Copied \/ turn[req'[r].turn].req = r
          /\ req'[r].state = "completed" /\ req[r].state # "completed" =>
                turn[req'[r].turn].st = "completed" /\ turn[req'[r].turn].provider

ControllerStep ==
    /\ UNCHANGED <<flight, posts, turn>>
    /\ \A r \in Requests : Advanced(r)
    /\ win'.step = "idle"

NativeStep ==
    /\ UNCHANGED <<req, win, posts>>
    /\ \A r \in Requests : flight'[r] \in {0, flight[r]}
    /\ \A t \in Turns :
          /\ turn'[t].req = turn[t].req /\ turn'[t].role = turn[t].role /\ turn'[t].text = turn[t].text
          /\ turn'[t].st \in Live => turn[t].st \in Live
          /\ turn'[t].st = "unborn" <=> turn[t].st = "unborn"

\* A message found for the open request is on the turn started for it, unless a human
\* typed the same bytes.
LEMMA OpenMessage ==
    ASSUME DispatchInv, NEW r \in OpenRequests, NEW t \in sent_message(r)
    PROVE  t \in Turns /\ (Copied \/ turn[t].req = r)
BY DEF DispatchInv, BaselineInv, Copied, sent_message, turn_ids

\* A request that is given a turn shares it with nobody; if the turn was started for
\* another request, that one had been given a wrong turn.
LEMMA GivenTurn ==
    ASSUME DispatchInv, NEW r \in Sent, Given(r), NEW q \in Sent, q # r
    PROVE  /\ Done(q)
           /\ req[q].turn # req'[r].turn
           /\ turn[req'[r].turn].req = q => Displaced(q) /\ Copied
<1> DEFINE t == req'[r].turn
<1>1. r \in OpenRequests /\ Done(q)
  BY DEF Given, OpenRequests, DispatchInv, OpenInv
<1>1a. /\ ~Done(r) /\ t \in Turns /\ t # None /\ turn[t].role = req[r].role
       /\ turn[t].req = r \/ t \notin req[r].baseline
  BY NoneAssumption DEF Given
<1>1b. \A u \in req[r].baseline : turn[u].req # r
  BY DEF DispatchInv, GivenInv
<1> HIDE DEF t
<1>2. ASSUME req[q].turn = t PROVE FALSE
  <2>1. turn[t].role = req[q].role
    BY <1>1a, <1>2 DEF DispatchInv, GivenInv
  <2>2. t \in req[r].baseline
    BY <1>1a, <1>2, <2>1 DEF DispatchInv, GivenInv
  <2> QED BY <1>1a, <1>1b, <2>2
<1>3. ASSUME turn[t].req = q PROVE Displaced(q) /\ Copied
  <2>1. t \in Turns /\ q # None /\ turn[t].role = req[r].role /\ t \notin req[r].baseline
    BY <1>1a, <1>1b, <1>3, NoneAssumption DEF Sent
  <2>2. req[q].turn # None /\ req[q].turn \in Turns
    BY <1>1, RecordUpdates DEF DispatchInv, GivenInv, Record
  <2>3. turn[req[q].turn].req # q
    BY <1>2, <1>3, <2>1, <2>2 DEF DispatchInv, TurnInv
  <2>4. Copied
    BY <1>1, <1>3, <2>1, NoneAssumption DEF DispatchInv, BaselineInv, Sent
  <2> QED BY <2>2, <2>3, <2>4 DEF Displaced
<1> QED BY <1>1, <1>2, <1>3 DEF t

\* A controller step that only saves what it observed keeps the invariant.
LEMMA ControllerKeeps == DispatchInv /\ TypeOK' /\ ControllerStep => DispatchInv'
<1> SUFFICES ASSUME DispatchInv, TypeOK', ControllerStep PROVE DispatchInv'
  OBVIOUS
<1>0. UNCHANGED <<flight, posts, turn>> /\ win'.step = "idle" /\ (Copied' <=> Copied)
  BY DEF ControllerStep, Copied
<1>1. Sent' = Sent /\ OpenRequests' \subseteq OpenRequests /\ Outstanding' = Outstanding
  BY DEF ControllerStep, Advanced, Sent, OpenRequests, Outstanding, Done
<1>2. WinInv'
  BY <1>0 DEF WinInv
<1>3. PostInv'
  BY DEF ControllerStep, Advanced, DispatchInv, PostInv
<1>4. TurnInv'
  <2>1. \A t \in Turns : turn[t].req # None => turn[t].req \in Sent
    BY DEF DispatchInv, PostInv, TypeOK, Turn, Sent
  <2> QED
    BY <2>1 DEF ControllerStep, Advanced, DispatchInv, TurnInv, Sent
<1>5. OpenInv'
  <2>1. ASSUME ~Copied, NEW r \in Outstanding PROVE r \in OpenRequests'
    <3>1. r \in OpenRequests /\ r \in Requests /\ r # None
      BY <2>1, NoneAssumption DEF DispatchInv, OpenInv, OpenRequests, Sent
    <3>2. ASSUME NEW t \in Turns, turn[t].req = r PROVE turn[t].st \in Live
      BY <2>1, <3>1, <3>2 DEF Outstanding, DispatchInv, PostInv, TurnInv
    <3> QED
      BY <1>1, <2>1, <3>1, <3>2 DEF ControllerStep, Advanced, OpenRequests, Done, Sent
  <2> QED
    BY <1>0, <1>1, <2>1 DEF DispatchInv, OpenInv
<1>6. BaselineInv'
  BY <1>0, <1>1 DEF ControllerStep, Advanced, DispatchInv, BaselineInv, OpenRequests, Sent
<1>7. ASSUME NEW r \in Sent
      PROVE  /\ r \in Requests /\ req'[r].role = req[r].role /\ req'[r].baseline = req[r].baseline
             /\ req'[r].turn # req[r].turn => Given(r)
             /\ Done(r) => Done(r)' /\ req'[r].turn = req[r].turn
             /\ Done(r)' /\ ~Done(r) => req'[r].turn \in Turns
  BY DEF ControllerStep, Advanced, Given, Done, Sent
<1>8. GivenInv'
  <2> SUFFICES ASSUME NEW r \in Sent
               PROVE  /\ \A t \in req'[r].baseline : turn'[t].st # "unborn" /\ turn'[t].req # r
                      /\ Done(r)' => req'[r].turn # None
                      /\ req'[r].turn # None => turn'[req'[r].turn].role = req'[r].role
                      /\ ~Done(r)' => \A q \in Sent \ {r} :
                            req'[q].turn # None /\ req'[q].role = req'[r].role => req'[q].turn \in req'[r].baseline
    BY <1>1 DEF GivenInv
  <2>1. \A t \in req'[r].baseline : turn'[t].st # "unborn" /\ turn'[t].req # r
    BY <1>0, <1>7 DEF DispatchInv, GivenInv
  <2>2. Done(r)' => req'[r].turn # None
    BY <1>7, NoneAssumption DEF DispatchInv, GivenInv
  <2>3. req'[r].turn # None => turn'[req'[r].turn].role = req'[r].role
    BY <1>0, <1>7 DEF DispatchInv, GivenInv, Given
  <2>4. ASSUME ~Done(r)', NEW q \in Sent \ {r}, req'[q].turn # None, req'[q].role = req'[r].role
        PROVE  req'[q].turn \in req'[r].baseline
    <3>1. ~Done(r) /\ r \in OpenRequests
      BY <1>7, <2>4 DEF OpenRequests
    <3>2. Done(q)
      BY <3>1, <2>4 DEF DispatchInv, OpenInv, OpenRequests
    <3> QED BY <1>7, <2>4, <3>1, <3>2 DEF DispatchInv, GivenInv
  <2> QED BY <2>1, <2>2, <2>3, <2>4
<1>9. OwnTurn'
  <2>1. ASSUME NEW r \in Sent, NEW q \in Sent, req'[r].turn # None, req'[r].turn = req'[q].turn, r # q
        PROVE  FALSE
    <3>1. CASE req'[r].turn # req[r].turn
      BY <1>7, <2>1, <3>1, GivenTurn
    <3>2. CASE req'[q].turn # req[q].turn
      BY <1>7, <2>1, <3>2, GivenTurn
    <3> QED BY <2>1, <3>1, <3>2 DEF DispatchInv, OwnTurn
  <2>2. ASSUME NEW r \in Sent, req'[r].turn # None, turn[req'[r].turn].req # r,
               NEW w, w = turn[req'[r].turn].req
        PROVE  Copied /\ (w # None => w \in Sent /\ Displaced(w))
    <3>1. CASE req'[r].turn = req[r].turn
      BY <2>2, <3>1 DEF Displaced, DispatchInv, OwnTurn
    <3>2. CASE req'[r].turn # req[r].turn
      <4>1. Given(r) /\ req'[r].turn \in Turns
        BY <1>7, <3>2 DEF Given
      <4>2. CASE w = None
        BY <2>2, <4>1, <4>2 DEF Copied, Given
      <4>3. CASE w # None
        <5>1. w \in Sent
          BY <2>2, <4>1, <4>3 DEF DispatchInv, PostInv, TypeOK, Turn, Sent
        <5> QED BY <2>2, <4>1, <5>1, GivenTurn
      <4> QED BY <4>2, <4>3
    <3> QED BY <3>1, <3>2
  <2>3. ASSUME NEW w \in Sent, Displaced(w) PROVE req'[w].turn # None /\ turn[req'[w].turn].req # w
    BY <1>7, <2>3 DEF Displaced, Given
  <2>4. ASSUME NEW r \in Sent, req'[r].turn # None, turn'[req'[r].turn].req # r,
               NEW w, w = turn'[req'[r].turn].req
        PROVE  Copied' /\ (w # None => w \in Sent' /\ req'[w].turn # None /\ turn'[req'[w].turn].req # w)
    BY <1>0, <1>1, <2>2, <2>3, <2>4
  <2>5. \A r \in Sent' : Displaced(r)' =>
           /\ Copied'
           /\ \A w : w = turn'[req'[r].turn].req /\ w # None =>
                 w \in Sent' /\ req'[w].turn # None /\ turn'[req'[w].turn].req # w
    BY <1>1, <2>4 DEF Displaced
  <2> QED BY <1>1, <2>1, <2>5 DEF OwnTurn, Displaced
<1> QED
  BY <1>2, <1>3, <1>4, <1>5, <1>6, <1>8, <1>9 DEF DispatchInv

\* What a turn was given for stays, as long as the turns keep their owners.
LEMMA OwnTurnStays ==
    ASSUME DispatchInv, UNCHANGED req, Copied => Copied',
           \A r \in Sent : req[r].turn # None => turn'[req[r].turn].req = turn[req[r].turn].req
    PROVE  OwnTurn'
<1>1. Sent' = Sent
  BY DEF Sent
<1>2. ASSUME NEW r \in Sent, req'[r].turn # None, turn'[req'[r].turn].req # r,
             NEW w, w = turn'[req'[r].turn].req
      PROVE  Copied' /\ (w # None => w \in Sent /\ req'[w].turn # None /\ turn'[req'[w].turn].req # w)
  <2>1. Copied /\ (w # None => w \in Sent /\ Displaced(w))
    BY <1>2 DEF DispatchInv, OwnTurn, Displaced
  <2> QED BY <2>1 DEF Displaced
<1>3. \A r, q \in Sent : req[r].turn # None /\ req[r].turn = req[q].turn => r = q
  BY DEF DispatchInv, OwnTurn
<1>4. \A r \in Sent' : Displaced(r)' =>
         /\ Copied'
         /\ \A w : w = turn'[req'[r].turn].req /\ w # None =>
               w \in Sent' /\ req'[w].turn # None /\ turn'[req'[w].turn].req # w
  BY <1>1, <1>2 DEF Displaced
<1> QED BY <1>1, <1>3, <1>4 DEF OwnTurn, Displaced

\* A native step under an unchanged state.json keeps the invariant.
LEMMA NativeKeeps == DispatchInv /\ TypeOK' /\ NativeStep => DispatchInv'
<1> SUFFICES ASSUME DispatchInv, TypeOK', NativeStep PROVE DispatchInv'
  OBVIOUS
<1> USE DEF NativeStep
<1>1. Sent' = Sent /\ OpenRequests' = OpenRequests /\ Outstanding' \subseteq Outstanding
  BY DEF Sent, OpenRequests, Outstanding, Done, DispatchInv, PostInv
<1>1a. Copied' <=> Copied
  BY DEF Copied
<1>2. WinInv'
  BY <1>1 DEF DispatchInv, WinInv
<1>3. PostInv'
  BY DEF DispatchInv, PostInv
<1>4. TurnInv'
  BY DEF DispatchInv, TurnInv
<1>5. OpenInv'
  BY <1>1, <1>1a DEF DispatchInv, OpenInv
<1>6. BaselineInv'
  BY <1>1, <1>1a DEF DispatchInv, BaselineInv
<1>7. \A r \in Sent : req[r].turn \in Turns \cup {None} /\ req[r].baseline \subseteq Turns
  BY RecordUpdates DEF DispatchInv, Record
<1>8. GivenInv'
  BY <1>1, <1>7 DEF DispatchInv, GivenInv, Done
<1>9. OwnTurn'
  BY <1>1a, <1>7, OwnTurnStays
<1> QED
  BY <1>2, <1>3, <1>4, <1>5, <1>6, <1>8, <1>9 DEF DispatchInv

-----------------------------------------------------------------------------
(***************************************************************************)
(* Which steps have which shape.                                           *)
(***************************************************************************)
\* A record rewritten in its outcome, release or reroute flag has advanced.
LEMMA Untouched ==
    ASSUME NEW r \in Requests, req[r] # None => /\ req'[r].role = req[r].role
                                                /\ req'[r].baseline = req[r].baseline
                                                /\ req'[r].turn = req[r].turn
                                                /\ req'[r].state = req[r].state,
           req'[r] = None <=> req[r] = None
    PROVE  Advanced(r)
BY DEF Advanced, Done

\* Saving an outcome (ao_outcomes._observe) leaves the request's delivery and
\* settlement as they were.
LEMMA OutcomeSaved ==
    ASSUME TypeOK, NEW r \in Sent, NEW e \in BOOLEAN, Attributable(r), req' = SaveOutcome(r, e)
    PROVE  \A q \in Requests : Advanced(q)
<1>1. ASSUME NEW q \in Requests, q # r PROVE req'[q] = req[q]
  BY <1>1 DEF SaveOutcome, TypeOK
<1>2. req'[r] = [req[r] EXCEPT !.outcome = Observed(r, e)]
  BY DEF SaveOutcome, TypeOK, Sent
<1>3. req[r] \in Record /\ req'[r] \in Record
  BY <1>2, ObservedType, RecordUpdates
<1>4. /\ req'[r].role = req[r].role /\ req'[r].baseline = req[r].baseline
      /\ req'[r].turn = req[r].turn /\ req'[r].state = req[r].state
  BY <1>2, <1>3 DEF Record
<1>5. req'[r] # None /\ req[r] # None
  BY <1>3, RecordAssumption
<1> QED
  BY <1>1, <1>4, <1>5, Untouched

\* Refused sends and continuations, audits, a recorded substitution, a failed
\* POST and a crash settle nothing.
LEMMA ObservingSteps ==
    ASSUME DispatchInv,
           \/ \E o \in Roles : SendRefused(o)
           \/ \E r \in Requests : Audit(r) \/ \E n \in Requests : ResumeRefused(r, n)
           \/ SyncConflict \/ DeliveryError \/ Crash
    PROVE  ControllerStep
<1> TypeOK
  BY DEF DispatchInv
<1>1. ASSUME NEW o \in Roles, SendRefused(o) PROVE ControllerStep
  <2>1. PICK r \in latest_for_role(o) : Attributable(r) /\ req' = SaveOutcome(r, FALSE)
    BY <1>1 DEF SendRefused
  <2>2. r \in Sent
    BY DEF latest_for_role
  <2> QED
    BY <1>1, <2>1, <2>2, OutcomeSaved DEF SendRefused, ControllerStep, aoVars, quiet, Sent
<1>2. ASSUME NEW r \in Requests, Audit(r) PROVE ControllerStep
  <2>1. r \in Sent /\ Attributable(r) /\ req' = SaveOutcome(r, TRUE)
    BY <1>2 DEF Audit, Auditable
  <2> QED
    BY <1>2, <2>1, OutcomeSaved DEF Audit, Auditable, quiet, ControllerStep, aoVars, Sent
<1>2a. ASSUME NEW r \in Requests, NEW n \in Requests, ResumeRefused(r, n) PROVE ControllerStep
  <2>1. r \in Sent /\ Attributable(r) /\ req' = SaveOutcome(r, FALSE)
    BY <1>2a DEF ResumeRefused, Continuable, Auditable
  <2> QED
    BY <1>2a, <2>1, OutcomeSaved DEF ResumeRefused, Continuable, Auditable, quiet, ControllerStep, aoVars, Sent
<1>3. CASE SyncConflict
  <2>1. PICK r \in Sent : req' = [req EXCEPT ![r].model_reroute = TRUE]
    BY <1>3 DEF SyncConflict, Conflicts
  <2>2. ASSUME NEW q \in Requests PROVE Advanced(q)
    <3>1. CASE q # r
      BY <2>1, <3>1, Untouched DEF TypeOK
    <3>2. CASE q = r
      <4>1. req'[r] = [req[r] EXCEPT !.model_reroute = TRUE] /\ req[r] \in Record /\ req'[r] \in Record
        BY <2>1, RecordUpdates DEF TypeOK, Sent
      <4>2. /\ req'[r].role = req[r].role /\ req'[r].baseline = req[r].baseline
            /\ req'[r].turn = req[r].turn /\ req'[r].state = req[r].state
        BY <4>1 DEF Record
      <4> QED
        BY <3>2, <4>1, <4>2, Untouched, RecordAssumption
    <3> QED
      BY <3>1, <3>2
  <2> QED
    BY <1>3, <2>2 DEF SyncConflict, ControllerStep, aoVars, Sent
<1>4. CASE DeliveryError \/ Crash
  BY <1>4, Untouched DEF DeliveryError, Crash, ControllerStep, Idle, aoVars
<1> QED
  BY <1>1, <1>2, <1>2a, <1>3, <1>4

\* AO's acknowledgement gives the request in progress its own turn.
LEMMA AcknowledgeAdvances == DispatchInv /\ Acknowledge => ControllerStep
<1> SUFFICES ASSUME DispatchInv, Acknowledge PROVE ControllerStep
  OBVIOUS
<1>0. PICK r \in Requests : r = win.req
  BY DEF DispatchInv, WinInv, Acknowledge, OpenRequests, Sent
<1>1. PICK t \in Turns : /\ turn[t].req = r
                         /\ req' = [req EXCEPT ![r].turn = t, ![r].state = "submitted"]
  BY <1>0 DEF Acknowledge
<1>2. r \in OpenRequests /\ r \in Sent /\ TypeOK /\ req[r].turn = None
  BY <1>0 DEF DispatchInv, WinInv, Acknowledge, OpenRequests
<1>3. req'[r] = [req[r] EXCEPT !.turn = t, !.state = "submitted"] /\ req[r] \in Record
  BY <1>1, <1>2, RecordUpdates DEF TypeOK, Sent
<1>4. /\ req'[r].role = req[r].role /\ req'[r].baseline = req[r].baseline
      /\ req'[r].turn = t /\ req'[r].state = "submitted" /\ req'[r] \in Record
  BY <1>3 DEF Record
<1>5. Given(r)
  BY <1>1, <1>2, <1>4, NoneAssumption DEF Given, OpenRequests, Sent, DispatchInv, TurnInv
<1>5a. Advanced(r)
  BY <1>2, <1>4, <1>5, RecordAssumption DEF Advanced, Done, OpenRequests, Sent
<1>6. \A q \in Requests : q # r => Advanced(q)
  BY <1>1, <1>2, Untouched DEF TypeOK
<1> QED
  BY <1>5a, <1>6 DEF Acknowledge, ControllerStep, Idle, aoVars

\* A sync completes a request only on the native completion of its own turn.
LEMMA SyncAdvances == DispatchInv /\ Sync => ControllerStep
<1> SUFFICES ASSUME DispatchInv, Sync PROVE ControllerStep
  OBVIOUS
<1> TypeOK
  BY DEF DispatchInv
<1>1. ASSUME NEW r \in Requests PROVE Advanced(r)
  <2>1. CASE r \notin Sent
    BY <2>1, Untouched DEF Sync, Sent
  <2>2. CASE r \in Sent /\ Done(r)
    <3>1. req'[r] = req[r] \/ (Attributable(r) /\ req'[r] = [req[r] EXCEPT !.outcome = Observed(r, FALSE)])
      BY <2>2 DEF Sync, Synced, Done
    <3>2. req[r] \in Record /\ req'[r] \in Record
      BY <2>2, <3>1, ObservedType, RecordUpdates
    <3>3. /\ req'[r].role = req[r].role /\ req'[r].baseline = req[r].baseline
          /\ req'[r].turn = req[r].turn /\ req'[r].state = req[r].state
      BY <3>1, <3>2 DEF Record
    <3> QED
      BY <3>2, <3>3, Untouched, RecordAssumption
  <2>3. CASE r \in OpenRequests
    <3>1. CASE req'[r] = req[r]
      BY <3>1, Untouched
    <3>2. CASE \E t \in Turns : sent_message(r) = {t} /\ req'[r] = Reconciled(r, t)
      <4>1. PICK t \in Turns : sent_message(r) = {t} /\ req'[r] = Reconciled(r, t)
        BY <3>2
      <4>2. (Copied \/ turn[t].req = r) /\ req[r] \in Record
        BY <2>3, <4>1, OpenMessage, RecordUpdates DEF OpenRequests
      <4>3. /\ req'[r].role = req[r].role /\ req'[r].baseline = req[r].baseline
            /\ req'[r].turn = t
            /\ req'[r].state = IF turn[t].provider /\ turn[t].st = "completed" THEN "completed"
                               ELSE IF turn[t].st \in Ended THEN "uncertain" ELSE "running"
            /\ req'[r] = Reconciled(r, t)
        BY <4>1, <4>2 DEF Reconciled, Record
      <4>4. req'[r] # None
        BY <2>3, SyncType, RecordAssumption DEF OpenRequests, Sync, DispatchInv
      <4>5. req'[r].turn # req[r].turn => Given(r)
        BY <2>3, <4>1, <4>3 DEF Given, sent_message, turn_ids, OpenRequests
      <4> QED
        BY <2>3, <4>1, <4>2, <4>3, <4>4, <4>5 DEF Advanced, Done, OpenRequests, Live, Ended, Sent
    <3> QED
      BY <2>3, <3>1, <3>2 DEF Sync, Synced, OpenRequests, Done
  <2> QED
    BY <2>1, <2>2, <2>3 DEF OpenRequests
<1> QED
  BY <1>1 DEF Sync, ControllerStep, aoVars

\* A continuation settles a failed request whose own turn has ended.
LEMMA ResumeAdvances ==
    ASSUME DispatchInv, NEW r \in Requests, NEW n \in Requests, Resume(r, n)
    PROVE  ControllerStep
<1> DEFINE o == Observed(r, FALSE)
           st == IF req[r].state = "completed" THEN "completed" ELSE "settled_failure"
<1>1. r \in Sent /\ Attributable(r) /\ TypeOK
  BY DEF Resume, Continuable, Auditable, DispatchInv
<1>2. req[r] \in Record
  BY <1>1, RecordUpdates
<1>3. req' = [req EXCEPT ![r] =
                [req[r] EXCEPT !.outcome = o, !.release = [resume |-> n, outcome |-> o], !.state = st]]
  BY <1>1, <1>2 DEF Resume, TypeOK, Record
<1>4. /\ req'[r].role = req[r].role /\ req'[r].baseline = req[r].baseline
      /\ req'[r].turn = req[r].turn /\ req'[r].state = st
      /\ req'[r] # None
  <2>1. req'[r] = [req[r] EXCEPT !.outcome = o, !.release = [resume |-> n, outcome |-> o], !.state = st]
    BY <1>1, <1>3 DEF TypeOK
  <2>2. o \in Outcome
    BY <1>1, ObservedType
  <2>3. [req[r] EXCEPT !.outcome = o, !.release = [resume |-> n, outcome |-> o], !.state = st] \in Record
    BY <1>2, <2>2 DEF Record
  <2>4. req'[r] \in Record
    BY <2>1, <2>3
  <2> QED
    BY <1>2, <2>1, <2>4, RecordAssumption DEF Record
<1>5. ~Done(r) => /\ req[r].turn \in Turns /\ turn[req[r].turn].st \notin Live
                  /\ Copied \/ turn[req[r].turn].req = r
  <2>1. req[r].turn \in sent_message(r) /\ turn[req[r].turn].st \notin Live
    BY <1>1 DEF Attributable, Live
  <2> QED
    BY <1>1, <2>1, OpenMessage DEF OpenRequests
<1>6. Advanced(r)
  BY <1>1, <1>4, <1>5 DEF Advanced, Done, Sent
<1>7. \A q \in Requests : q # r => Advanced(q)
  BY <1>3, Untouched DEF TypeOK
<1>8. win.step = "idle"
  BY DEF Resume, Continuable, Auditable, quiet
<1> QED
  BY <1>6, <1>7, <1>8 DEF Resume, ControllerStep, aoVars

\* What AO and the native sessions do, except starting a turn.
LEMMA NativeSteps ==
    ASSUME DispatchInv,
           \/ \E r \in Requests : Lose(r)
           \/ \E t \in Turns : \/ Accept(t)
                               \/ \E st \in Ended, ev \in Seen : End(t, st, ev)
                               \/ CompleteLate(t)
                               \/ \E ev \in Seen : ChangeEvidence(t, ev)
           \/ \E o \in Roles, t \in Turns \cup {Unattributed, None} : Reroute(o, t)
    PROVE  NativeStep
<1> USE DEF NativeStep
<1> TypeOK
  BY DEF DispatchInv
<1>1. ASSUME NEW r \in Requests, Lose(r) PROVE NativeStep
  BY <1>1 DEF Lose, DispatchInv, PostInv, TypeOK, aoVars
<1>2. ASSUME NEW t \in Turns, Accept(t) PROVE NativeStep
  BY <1>2 DEF Accept, TypeOK, Turn
<1>3. ASSUME NEW t \in Turns, NEW st \in Ended, NEW ev \in Seen, End(t, st, ev) PROVE NativeStep
  BY <1>3 DEF End, TypeOK, Turn, Live, Ended
<1>4. ASSUME NEW t \in Turns, CompleteLate(t) PROVE NativeStep
  BY <1>4 DEF CompleteLate, TypeOK, Turn, Live
<1>5. ASSUME NEW t \in Turns, NEW ev \in Seen, ChangeEvidence(t, ev) PROVE NativeStep
  BY <1>5 DEF ChangeEvidence, TypeOK, Turn
<1>6. ASSUME NEW o \in Roles, NEW t \in Turns \cup {Unattributed, None}, Reroute(o, t) PROVE NativeStep
  BY <1>6 DEF Reroute
<1> QED
  BY <1>1, <1>2, <1>3, <1>4, <1>5, <1>6

-----------------------------------------------------------------------------
(***************************************************************************)
(* The four steps that change who is claimed, posted or working.           *)
(***************************************************************************)
\* The send of n leaves every other record but its outcome as it was.
LEMMA IntentRecords ==
    ASSUME DispatchInv, NEW o \in Roles, NEW n \in Requests, SendIntent(o, n), NEW q \in Requests, q # n
    PROVE  /\ req'[q] = None <=> req[q] = None
           /\ req[q] # None => /\ req'[q].role = req[q].role
                               /\ req'[q].baseline = req[q].baseline
                               /\ req'[q].turn = req[q].turn
                               /\ req'[q].state = req[q].state
<1>1. \/ req'[q] = req[q]
      \/ q \in Sent /\ Attributable(q) /\ req'[q] = [req[q] EXCEPT !.outcome = Observed(q, FALSE)]
  BY DEF SendIntent, latest_for_role
<1>2. CASE q \in Sent /\ Attributable(q) /\ req'[q] = [req[q] EXCEPT !.outcome = Observed(q, FALSE)]
  <2>1. req[q] \in Record /\ req'[q] \in Record
    BY <1>2, ObservedType, RecordUpdates DEF DispatchInv
  <2> QED
    BY <1>2, <2>1, RecordAssumption DEF Record
<1> QED
  BY <1>1, <1>2

\* An intent is saved while no other request is open, and opens exactly one.
LEMMA IntentKeeps ==
    ASSUME DispatchInv, TypeOK', NEW o \in Roles, NEW n \in Requests, SendIntent(o, n)
    PROVE  /\ DispatchInv' /\ OpenRequests = {} /\ OpenRequests' = {n}
           /\ Outstanding' = Outstanding /\ (Copied \/ Outstanding = {})
           /\ Copied' <=> Copied
<1> TypeOK
  BY DEF DispatchInv
<1>1. OpenRequests = {} /\ win.step = "idle"
  BY DEF SendIntent, quiet, settled, OpenRequests, Done, Sent
<1>2. req[n] = None /\ req'[n] = Intent(o) /\ req'[n] # None /\ UNCHANGED <<flight, posts, turn>>
  <2>1. req'[n] = Intent(o)
    BY DEF SendIntent
  <2>2. Intent(o) # None
    <3>1. Intent(o).state = "uncertain" /\ turn_ids(o) \subseteq Turns
      BY DEF Intent, turn_ids
    <3>2. Cardinality(Sent) + 1 \in Nat
      BY FiniteAssumption, FS_Subset, FS_CardinalityType DEF Sent
    <3>3. Intent(o) \in Record
      BY <3>1, <3>2 DEF Intent, Record
    <3> QED
      BY <3>3, RecordAssumption
  <2> QED
    BY <2>1, <2>2 DEF SendIntent, aoVars
<1>3. \A q \in Requests : q # n =>
         /\ req'[q] = None <=> req[q] = None
         /\ req[q] # None => /\ req'[q].role = req[q].role
                             /\ req'[q].baseline = req[q].baseline
                             /\ req'[q].turn = req[q].turn
                             /\ req'[q].state = req[q].state
  BY IntentRecords
<1>4. /\ Sent' = Sent \cup {n} /\ OpenRequests' = {n} /\ ~Done(n)'
      /\ Outstanding' = Outstanding /\ (Copied \/ Outstanding = {}) /\ (Copied' <=> Copied)
  <2>1. ~Done(n)'
    BY <1>2 DEF Done, Intent
  <2>2. Outstanding' = Outstanding /\ (Copied \/ Outstanding = {}) /\ (Copied' <=> Copied)
    BY <1>1, <1>2 DEF DispatchInv, OpenInv, Outstanding, Copied
  <2> QED
    BY <1>1, <1>2, <1>3, <2>1, <2>2 DEF OpenRequests, Sent, Done
<1>5. WinInv'
  BY <1>2, <1>4 DEF SendIntent, Intent, WinInv, DispatchInv, PostInv
<1>6. PostInv'
  BY <1>2, <1>3 DEF DispatchInv, PostInv
<1>7. TurnInv'
  <2>1. \A t \in Turns : turn[t].req # None => turn[t].req \in Sent /\ turn[t].req # n
    BY <1>2 DEF DispatchInv, PostInv, TypeOK, Turn, Sent
  <2> QED
    BY <1>2, <1>3, <2>1 DEF DispatchInv, TurnInv, Sent
<1>8. OpenInv'
  BY <1>4 DEF OpenInv
<1>9. BaselineInv'
  <2>1. req'[n].role = o /\ req'[n].baseline = turn_ids(o)
    BY <1>2 DEF Intent
  <2> QED
    BY <1>2, <1>4, <2>1 DEF BaselineInv, turn_ids
<1>9a. GivenInv'
  <2>1. req'[n].role = o /\ req'[n].baseline = turn_ids(o) /\ req'[n].turn = None
    BY <1>2 DEF Intent
  <2>2. \A q \in Sent : /\ q \in Requests /\ q # n /\ Done(q) /\ Done(q)'
                        /\ req'[q].role = req[q].role /\ req'[q].baseline = req[q].baseline
                        /\ req'[q].turn = req[q].turn /\ req[q].turn \in Turns \cup {None}
    BY <1>1, <1>2, <1>3, RecordUpdates DEF Sent, OpenRequests, Done, Record
  <2>3. ASSUME NEW q \in Sent
        PROVE  /\ \A t \in req'[q].baseline : turn'[t].st # "unborn" /\ turn'[t].req # q
               /\ req'[q].turn # None
               /\ turn'[req'[q].turn].role = req'[q].role
               /\ req'[q].role = o => req'[q].turn \in req'[n].baseline
    BY <1>2, <2>1, <2>2 DEF DispatchInv, GivenInv, turn_ids
  <2>4. \A t \in req'[n].baseline : turn'[t].st # "unborn" /\ turn'[t].req # n
    BY <1>2, <2>1, NoneAssumption DEF DispatchInv, TurnInv, PostInv, turn_ids
  <2> QED BY <1>4, <2>1, <2>2, <2>3, <2>4 DEF GivenInv
<1>10. OwnTurn'
  <2>1. req'[n].turn = None
    BY <1>2 DEF Intent
  <2>2. \A q \in Sent : q # n /\ req'[q].turn = req[q].turn
    BY <1>2, <1>3 DEF Sent
  <2>3. ASSUME NEW r \in Sent, req'[r].turn # None, turn'[req'[r].turn].req # r,
               NEW w, w = turn'[req'[r].turn].req
        PROVE  Copied' /\ (w # None => w \in Sent' /\ req'[w].turn # None /\ turn'[req'[w].turn].req # w)
    <3>1. Copied /\ (w # None => w \in Sent /\ Displaced(w))
      BY <1>2, <2>2, <2>3 DEF DispatchInv, OwnTurn, Displaced
    <3> QED BY <1>2, <1>4, <2>2, <3>1 DEF Displaced
  <2>4. \A r \in Sent' : Displaced(r)' =>
           /\ Copied'
           /\ \A w : w = turn'[req'[r].turn].req /\ w # None =>
                 w \in Sent' /\ req'[w].turn # None /\ turn'[req'[w].turn].req # w
    BY <1>4, <2>1, <2>3 DEF Displaced
  <2>5. \A r, q \in Sent' : req'[r].turn # None /\ req'[r].turn = req'[q].turn => r = q
    BY <1>4, <2>1, <2>2 DEF DispatchInv, OwnTurn
  <2> QED
    BY <2>4, <2>5 DEF OwnTurn, Displaced
<1> QED
  BY <1>1, <1>4, <1>5, <1>6, <1>7, <1>8, <1>9, <1>9a, <1>10 DEF DispatchInv

\* The POST that leaves is the first of the one open request.
LEMMA PostKeeps ==
    ASSUME DispatchInv, TypeOK', Post
    PROVE  /\ DispatchInv'
           /\ win.req \in OpenRequests /\ posts[win.req] = 0 /\ posts'[win.req] = 1
           /\ Outstanding' = Outstanding \cup {win.req} /\ (Copied \/ Outstanding = {})
           /\ Copied' <=> Copied
<1> TypeOK
  BY DEF DispatchInv
<1>1. win.req \in OpenRequests /\ win.req \in Requests /\ posts[win.req] = 0 /\ flight[win.req] = 0
  BY DEF Post, DispatchInv, WinInv, PostInv, OpenRequests, Sent
<1>2. OpenRequests = {win.req} /\ OpenRequests' = {win.req} /\ Sent' = Sent
  BY <1>1 DEF Post, DispatchInv, OpenInv, OpenRequests, Sent, Done
<1>3. /\ posts'[win.req] = 1 /\ flight'[win.req] = 1
      /\ \A q \in Requests : q # win.req => posts'[q] = posts[q] /\ flight'[q] = flight[q]
      /\ UNCHANGED <<req, turn>>
  BY <1>1 DEF Post, TypeOK, aoVars
<1>4. \A t \in Turns : turn[t].req # win.req
  BY <1>1 DEF DispatchInv, PostInv
<1>5. /\ Outstanding' = Outstanding \cup {win.req} /\ (Copied \/ Outstanding = {})
      /\ Copied' <=> Copied
  <2>1. win.req \notin Outstanding
    BY <1>1, <1>4 DEF Outstanding
  <2>2. Copied \/ Outstanding = {}
    BY <1>2, <2>1 DEF DispatchInv, OpenInv
  <2>3. \A q \in Requests : q # win.req => (q \in Outstanding' <=> q \in Outstanding)
    BY <1>3 DEF Outstanding
  <2>4. win.req \in Outstanding'
    BY <1>1, <1>3 DEF Outstanding
  <2> QED
    BY <1>3, <2>2, <2>3, <2>4 DEF Outstanding, Copied
<1>6. WinInv'
  BY <1>1, <1>2 DEF Post, DispatchInv, WinInv
<1>7. PostInv'
  BY <1>1, <1>3, <1>4 DEF DispatchInv, PostInv, OpenRequests, Sent
<1>8. TurnInv'
  BY <1>3 DEF DispatchInv, TurnInv
<1>9. OpenInv'
  BY <1>2, <1>5 DEF OpenInv
<1>10. BaselineInv' /\ GivenInv'
  BY <1>2, <1>3, <1>5 DEF DispatchInv, BaselineInv, GivenInv, Done
<1>11. OwnTurn'
  BY <1>3, <1>5, OwnTurnStays
<1> QED
  BY <1>1, <1>3, <1>5, <1>6, <1>7, <1>8, <1>9, <1>10, <1>11 DEF DispatchInv

\* No request was given a turn that is still to start, and no baseline holds one.
LEMMA UnbornTurn ==
    ASSUME DispatchInv, NEW t \in Turns, turn[t].st = "unborn", NEW r \in Sent
    PROVE  req[r].turn # t /\ t \notin req[r].baseline /\ req[r].turn \in Turns \cup {None}
           /\ req[r].baseline \subseteq Turns
<1>1. req[r] \in Record
  BY RecordUpdates DEF DispatchInv
<1>2. req[r].turn = t => turn[t].role = req[r].role /\ req[r].role # None
  BY <1>1, NoneAssumption DEF DispatchInv, GivenInv, Record
<1> QED BY <1>1, <1>2 DEF DispatchInv, GivenInv, TurnInv, Record

\* A delivery turns a POST in flight into the one turn of its request.
LEMMA DeliverKeeps ==
    ASSUME DispatchInv, TypeOK', NEW r \in Requests, NEW t \in Turns, Deliver(r, t)
    PROVE  DispatchInv' /\ Outstanding' = Outstanding /\ (Copied' <=> Copied)
<1> TypeOK
  BY DEF DispatchInv
<1>1. r \in Sent /\ posts[r] = 1 /\ flight[r] = 1 /\ flight'[r] = 0 /\ \A u \in Turns : turn[u].req # r
  BY DEF Deliver, DispatchInv, PostInv, TypeOK, Sent
<1>2. /\ turn'[t].req = r /\ turn'[t].role = req[r].role /\ turn'[t].st = "running"
      /\ turn[t].req = None /\ turn[t].st = "unborn" /\ turn[t].text = "other"
      /\ \A u \in Turns : u # t => turn'[u] = turn[u]
  BY DEF Deliver, TypeOK, Unborn
<1>3. /\ \A q \in Requests : q # r => flight'[q] = flight[q]
      /\ UNCHANGED <<req, win, posts>>
  BY DEF Deliver, TypeOK
<1>4. Sent' = Sent /\ OpenRequests' = OpenRequests
  BY <1>3 DEF Sent, OpenRequests, Done
<1>5. Outstanding' = Outstanding
  <2>1. r \in Outstanding /\ r \in Outstanding'
    BY <1>1, <1>2 DEF Outstanding, Live
  <2>2. ASSUME NEW q \in Requests, q # r PROVE q \in Outstanding' <=> q \in Outstanding
    <3>1. \A u \in Turns : turn'[u].req = q <=> turn[u].req = q
      BY <1>2, <2>2, NoneAssumption
    <3>2. \A u \in Turns : turn[u].req = q => turn'[u] = turn[u]
      BY <1>2, <2>2, NoneAssumption
    <3> QED
      BY <1>3, <2>2, <3>1, <3>2 DEF Outstanding
  <2> QED
    BY <2>1, <2>2 DEF Outstanding
<1>5a. Copied' <=> Copied
  BY <1>1, <1>2, NoneAssumption DEF Copied, Sent
<1>6. Copied \/ (r \in OpenRequests /\ \A q \in OpenRequests : q = r)
  BY <1>1 DEF DispatchInv, OpenInv, Outstanding
<1>7. WinInv'
  BY <1>3, <1>4 DEF DispatchInv, WinInv
<1>8. PostInv'
  BY <1>1, <1>2, <1>3 DEF DispatchInv, PostInv
<1>9. TurnInv'
  BY <1>1, <1>2, <1>3 DEF DispatchInv, TurnInv
<1>10. OpenInv'
  BY <1>4, <1>5, <1>5a DEF DispatchInv, OpenInv
<1>11. BaselineInv'
  BY <1>2, <1>3, <1>4, <1>5a, <1>6 DEF DispatchInv, BaselineInv
<1>11a. GivenInv'
  BY <1>2, <1>3, <1>4, UnbornTurn DEF DispatchInv, GivenInv, Done
<1>12. OwnTurn'
  BY <1>2, <1>3, <1>5a, UnbornTurn, OwnTurnStays
<1> QED
  BY <1>5, <1>5a, <1>7, <1>8, <1>9, <1>10, <1>11, <1>11a, <1>12 DEF DispatchInv

\* A human turn belongs to no request, whatever its text.
LEMMA ForeignKeeps ==
    ASSUME DispatchInv, TypeOK', NEW o \in Roles, NEW text \in HumanTexts, NEW t \in Turns, Foreign(o, text, t)
    PROVE  DispatchInv' /\ Outstanding' = Outstanding /\ (Copied => Copied')
<1> TypeOK
  BY DEF DispatchInv
<1>1. /\ turn'[t].req = None /\ turn'[t].st # "unborn"
      /\ turn[t].req = None /\ turn[t].st = "unborn" /\ turn[t].text = "other"
      /\ \A u \in Turns : u # t => turn'[u] = turn[u]
      /\ UNCHANGED <<req, win, flight, posts>>
  BY DEF Foreign, TypeOK, Unborn
<1>2. Sent' = Sent /\ OpenRequests' = OpenRequests /\ Outstanding' = Outstanding
  BY <1>1, NoneAssumption DEF Sent, OpenRequests, Done, Outstanding
<1>2a. Copied => Copied'
  BY <1>1 DEF Copied
<1>3. WinInv' /\ OpenInv'
  BY <1>1, <1>2, <1>2a DEF DispatchInv, WinInv, OpenInv
<1>4. PostInv'
  BY <1>1, NoneAssumption DEF DispatchInv, PostInv
<1>5. TurnInv'
  BY <1>1 DEF DispatchInv, TurnInv
<1>6. BaselineInv'
  BY <1>1, <1>2, <1>2a DEF DispatchInv, BaselineInv
<1>7. GivenInv'
  <2>1. \A r \in Sent : r # None
    BY NoneAssumption DEF Sent
  <2> QED BY <1>1, <1>2, <2>1, UnbornTurn DEF DispatchInv, GivenInv, Done
<1>8. OwnTurn'
  BY <1>1, <1>2a, UnbornTurn, OwnTurnStays
<1> QED
  BY <1>2, <1>2a, <1>3, <1>4, <1>5, <1>6, <1>7, <1>8 DEF DispatchInv

-----------------------------------------------------------------------------
(***************************************************************************)
(* The invariant, and what it establishes.                                 *)
(***************************************************************************)
LEMMA InitInv == Init => DispatchInv
<1> SUFFICES ASSUME Init PROVE DispatchInv
  OBVIOUS
<1>1. Sent = {} /\ OpenRequests = {} /\ Outstanding = {}
  BY DEF Init, Sent, OpenRequests, Outstanding, Unborn, Live
<1> QED
  BY <1>1, TypeInit, NoneAssumption
     DEF Init, DispatchInv, WinInv, PostInv, TurnInv, OpenInv, BaselineInv, GivenInv, OwnTurn, Idle, Unborn

\* Every step is one of the two shapes, or one of four.
LEMMA StepShapes ==
    ASSUME DispatchInv, [Next]_vars
    PROVE  \/ ControllerStep \/ NativeStep
           \/ \E o \in Roles, n \in Requests : SendIntent(o, n)
           \/ Post
           \/ \E r \in Requests, t \in Turns : Deliver(r, t)
           \/ \E o \in Roles, text \in HumanTexts, t \in Turns : Foreign(o, text, t)
<1>1. CASE UNCHANGED vars
  BY <1>1 DEF vars, NativeStep
<1>2. CASE Controller
  BY <1>2, ObservingSteps, AcknowledgeAdvances, SyncAdvances, ResumeAdvances DEF Controller
<1>3. CASE Native
  BY <1>3, NativeSteps DEF Native
<1> QED
  BY <1>1, <1>2, <1>3 DEF Next

\* Every step of the room, the backend and the crashes keeps the invariant.
LEMMA StepInv == DispatchInv /\ [Next]_vars => DispatchInv'
BY StepShapes, TypeStep, ControllerKeeps, NativeKeeps, IntentKeeps, PostKeeps, DeliverKeeps,
   ForeignKeeps

\* The inductive invariant of the dispatch, for any number of requests, turns,
\* roles, losses and crashes.
THEOREM DispatchInvariant == Spec => []DispatchInv
BY InitInv, StepInv, PTL DEF Spec

\* Every variable keeps its shape.
THEOREM TypeCorrect == Spec => []TypeOK
<1>1. DispatchInv => TypeOK
  BY DEF DispatchInv
<1> QED
  BY <1>1, DispatchInvariant, PTL

\* No request is POSTed twice, whatever was lost and whoever crashed.
THEOREM NeverPostedTwice == Spec => []PostedOnce
<1>1. DispatchInv => PostedOnce
  BY DEF DispatchInv, PostInv, PostedOnce
<1> QED
  BY <1>1, DispatchInvariant, PTL

\* At most one request of the room is on its way to AO or worked on, as long as no
\* human has typed the bytes of a request.
THEOREM OneRequestWorks == Spec => []SingleFlight
<1>1. DispatchInv => SingleFlight
  BY DEF DispatchInv, OpenInv, SingleFlight
<1> QED
  BY <1>1, DispatchInvariant, PTL

\* No two requests share a turn although all carry equal bytes, and the turn of another
\* request is only given after a human's copy had displaced that one (sent_message).
THEOREM TurnsNotConfused == Spec => []OwnTurn
<1>1. DispatchInv => OwnTurn
  BY DEF DispatchInv
<1> QED
  BY <1>1, DispatchInvariant, PTL

\* What sync finds is the message the request delivered, where no human types the bytes
\* of a request: the docstring of sent_message holds under that condition.
THEOREM DeliveredWithoutCopies == "same" \notin HumanTexts /\ Spec => []DeliveredMessage
<1> SUFFICES ASSUME "same" \notin HumanTexts PROVE Spec => []DeliveredMessage
  OBVIOUS
<1>1. Init => ~Copied
  BY DEF Init, Copied, Unborn
<1>2. DispatchInv /\ ~Copied /\ [Next]_vars => ~Copied'
  <2> SUFFICES ASSUME DispatchInv, ~Copied, [Next]_vars PROVE ~Copied'
    OBVIOUS
  <2>1. CASE ControllerStep \/ NativeStep
    BY <2>1 DEF ControllerStep, NativeStep, Copied
  <2>2. ASSUME NEW o \in Roles, NEW n \in Requests, SendIntent(o, n) PROVE ~Copied'
    BY <2>2 DEF SendIntent, aoVars, Copied
  <2>3. CASE Post
    BY <2>3 DEF Post, aoVars, Copied
  <2>4. ASSUME NEW r \in Requests, NEW t \in Turns, Deliver(r, t) PROVE ~Copied'
    BY <2>4, TypeStep, DeliverKeeps
  <2>5. ASSUME NEW o \in Roles, NEW text \in HumanTexts, NEW t \in Turns, Foreign(o, text, t) PROVE ~Copied'
    <3>1. \A u \in Turns : turn'[u] = turn[u] \/ turn'[u] = [Unborn EXCEPT !.role = o, !.text = text, !.st = "running"]
      BY <2>5 DEF Foreign, DispatchInv, TypeOK
    <3>2. [Unborn EXCEPT !.role = o, !.text = text, !.st = "running"].text = text /\ text # "same"
      BY DEF Unborn
    <3> QED BY <3>1, <3>2 DEF Copied
  <2> QED BY <2>1, <2>2, <2>3, <2>4, <2>5, StepShapes
<1>3. DispatchInv /\ ~Copied => DeliveredMessage
  BY DEF DispatchInv, OwnTurn, Displaced, DeliveredMessage
<1> QED
  BY <1>1, <1>2, <1>3, DispatchInvariant, PTL DEF Spec

\* A completion is only recorded on the native completion, and kept.
THEOREM CompletionKept == Spec => CompletionIsFinal
<1> DEFINE Kept ==
      \A r \in Sent :
          /\ req'[r].state = "completed" /\ req[r].state # "completed" =>
                turn[req'[r].turn].st = "completed" /\ turn[req'[r].turn].provider
          /\ req[r].state \in {"completed", "settled_failure"} =>
                req'[r].state = req[r].state /\ req'[r].turn = req[r].turn
<1>1. DispatchInv /\ [Next]_vars => [Kept]_vars
  <2> SUFFICES ASSUME DispatchInv, [Next]_vars PROVE Kept
    OBVIOUS
  <2>1. CASE ControllerStep
    BY <2>1 DEF ControllerStep, Advanced, Given, Done, Sent
  <2>2. CASE UNCHANGED req
    BY <2>2
  <2>3. ASSUME NEW o \in Roles, NEW n \in Requests, SendIntent(o, n) PROVE Kept
    BY <2>3, IntentRecords DEF SendIntent, Sent
  <2> QED
    BY <2>1, <2>2, <2>3, StepShapes DEF NativeStep, Post, Deliver, Foreign
<1> QED
  BY <1>1, DispatchInvariant, PTL DEF Spec, CompletionIsFinal

-----------------------------------------------------------------------------
(***************************************************************************)
(* Refinement of RequestLedger.                                            *)
(***************************************************************************)
\* The ledger's open requests are the open records of state.json.
LEMMA LedgerOpen ==
    ASSUME DispatchInv
    PROVE  /\ Ledger!Open = OpenRequests
           /\ \A r \in Requests : ledgerPhase[r] = "posted" <=> r \in OpenRequests /\ posts[r] = 1
           /\ \A r \in Requests : ledgerPhase[r] = "claimed" <=> r \in OpenRequests /\ posts[r] = 0
BY DEF Ledger!Open, ledgerPhase, OpenRequests, Done, Sent, DispatchInv, PostInv

\* The room's dispatch implements the ledger until a human types the bytes of a request:
\* what is claimed, posted, worked on and settled changes one request at a time, in that
\* order.
THEOREM LedgerRefined == Spec => ImplementsLedger
<1>1. Init => Ledger!Init
  BY DEF Init, Ledger!Init, ledgerPhase, Outstanding, Unborn, Live
<1>2. DispatchInv /\ DispatchInv' /\ [Next]_vars => [Copied' \/ Ledger!Next]_(Ledger!vars)
  <2> SUFFICES ASSUME DispatchInv, DispatchInv', [Next]_vars, ~Copied'
               PROVE  Ledger!Next \/ UNCHANGED <<ledgerPhase, Outstanding>>
    BY DEF Ledger!vars
  <2>0. ~Copied
    <3>1. CASE ControllerStep \/ NativeStep
      BY <3>1 DEF ControllerStep, NativeStep, Copied
    <3>2. CASE \E o \in Roles, n \in Requests : SendIntent(o, n)
      BY <3>2 DEF SendIntent, aoVars, Copied
    <3>3. CASE Post
      BY <3>3 DEF Post, aoVars, Copied
    <3> QED BY <3>1, <3>2, <3>3, TypeStep, DeliverKeeps, ForeignKeeps, StepShapes
  <2>1. CASE ControllerStep
    <3>1. Outstanding' = Outstanding /\ posts' = posts
      BY <2>1 DEF ControllerStep, Outstanding
    <3>2. ASSUME NEW r \in Requests, ledgerPhase'[r] # ledgerPhase[r]
          PROVE  r \in OpenRequests /\ ledgerPhase[r] = "posted" /\ r \notin Outstanding
                 /\ ledgerPhase'[r] = "done"
      <4>1. r \in OpenRequests /\ Done(r)' /\ req'[r] # None
        BY <2>1, <3>1, <3>2 DEF ledgerPhase, ControllerStep, Advanced, OpenRequests, Sent, Done
      <4>2. PICK t \in Turns : turn[t].req = r /\ turn[t].st \notin Live
        BY <2>0, <2>1, <4>1 DEF ControllerStep, Advanced, OpenRequests, Sent
      <4>3. posts[r] = 1 /\ flight[r] = 0
        BY <4>2 DEF DispatchInv, PostInv
      <4>4. r \notin Outstanding
        BY <4>2, <4>3, NoneAssumption DEF Outstanding, DispatchInv, TurnInv
      <4> QED
        BY <4>1, <4>3, <4>4, LedgerOpen DEF ledgerPhase, Done
    <3>3. CASE \E r \in Requests : ledgerPhase'[r] # ledgerPhase[r]
      <4>1. PICK r \in Requests : ledgerPhase'[r] # ledgerPhase[r]
        BY <3>3
      <4>2. \A q \in Requests : q # r => ledgerPhase'[q] = ledgerPhase[q]
        BY <3>2, <4>1 DEF DispatchInv, OpenInv
      <4>3. ledgerPhase' = [ledgerPhase EXCEPT ![r] = "done"]
        BY <3>2, <4>1, <4>2 DEF ledgerPhase
      <4> QED
        BY <3>1, <3>2, <4>1, <4>3 DEF Ledger!Next, Ledger!Settle
    <3>4. CASE \A r \in Requests : ledgerPhase'[r] = ledgerPhase[r]
      BY <3>1, <3>4 DEF ledgerPhase
    <3> QED
      BY <3>3, <3>4
  <2>2. CASE NativeStep
    <3>1. ledgerPhase' = ledgerPhase /\ Outstanding' \subseteq Outstanding
      BY <2>2 DEF NativeStep, ledgerPhase, Outstanding, DispatchInv, PostInv
    <3>2. CASE Outstanding' # Outstanding
      <4>1. PICK r \in Outstanding : r \notin Outstanding'
        BY <3>1, <3>2
      <4>2. Outstanding' = Outstanding \ {r} /\ r \in Requests
        BY <2>0, <3>1, <4>1 DEF DispatchInv, OpenInv, OpenRequests, Sent
      <4> QED
        BY <3>1, <4>1, <4>2 DEF Ledger!Next, Ledger!Stop
    <3> QED
      BY <3>1, <3>2
  <2>3. ASSUME NEW o \in Roles, NEW n \in Requests, SendIntent(o, n) PROVE Ledger!Next
    <3>1. /\ OpenRequests = {} /\ OpenRequests' = {n} /\ Outstanding' = {} /\ Outstanding = {}
          /\ posts' = posts /\ posts[n] = 0 /\ req[n] = None
      BY <2>0, <2>3, TypeStep, IntentKeeps DEF DispatchInv, OpenInv, SendIntent, PostInv
    <3>2. \A q \in Requests : q # n => ledgerPhase'[q] = ledgerPhase[q]
      BY <2>3, <3>1, IntentRecords DEF ledgerPhase
    <3>3. ledgerPhase[n] = "new" /\ ledgerPhase'[n] = "claimed"
      BY <3>1 DEF ledgerPhase, OpenRequests, Done, Sent
    <3>4. ledgerPhase' = [ledgerPhase EXCEPT ![n] = "claimed"]
      BY <3>2, <3>3 DEF ledgerPhase
    <3> QED
      BY <3>1, <3>3, <3>4, LedgerOpen DEF Ledger!Next, Ledger!Claim
  <2>4. CASE Post
    <3>1. /\ win.req \in OpenRequests /\ posts[win.req] = 0 /\ posts'[win.req] = 1
          /\ Outstanding = {} /\ Outstanding' = {win.req}
      BY <2>0, <2>4, TypeStep, PostKeeps
    <3>2. PICK r \in Requests : r = win.req
      BY <3>1 DEF OpenRequests, Sent
    <3>3. \A q \in Requests : q # r => posts'[q] = posts[q]
      BY <2>4, <3>2 DEF Post, DispatchInv, TypeOK
    <3>4. UNCHANGED req
      BY <2>4 DEF Post
    <3>5. ledgerPhase' = [ledgerPhase EXCEPT ![r] = "posted"] /\ ledgerPhase[r] = "claimed"
      BY <3>1, <3>2, <3>3, <3>4 DEF ledgerPhase, OpenRequests, Done, Sent
    <3> QED
      BY <3>1, <3>2, <3>5 DEF Ledger!Next, Ledger!Dispatch
  <2>5. ASSUME NEW r \in Requests, NEW t \in Turns, Deliver(r, t)
        PROVE  UNCHANGED <<ledgerPhase, Outstanding>>
    <3>1. Outstanding' = Outstanding
      BY <2>5, TypeStep, DeliverKeeps
    <3> QED
      BY <2>5, <3>1 DEF Deliver, ledgerPhase
  <2>6. ASSUME NEW o \in Roles, NEW text \in HumanTexts, NEW t \in Turns, Foreign(o, text, t)
        PROVE  UNCHANGED <<ledgerPhase, Outstanding>>
    <3>1. Outstanding' = Outstanding
      BY <2>6, TypeStep, ForeignKeeps
    <3> QED
      BY <2>6, <3>1 DEF Foreign, ledgerPhase
  <2> QED
    BY <2>1, <2>2, <2>3, <2>4, <2>5, <2>6, StepShapes
<1> QED
  BY <1>1, <1>2, DispatchInvariant, PTL DEF Spec, ImplementsLedger

-----------------------------------------------------------------------------
(***************************************************************************)
(* Outcomes and continuations: what an observation may make of a saved     *)
(* outcome, and which requests a step may weigh at all.                    *)
(***************************************************************************)
\* An observed failure stays one; resolving it while it is inconclusive counts up.
LEMMA ObservedFacts ==
    ASSUME TypeOK, NEW r \in Sent, NEW explicit \in BOOLEAN, Attributable(r), req[r].outcome # None
    PROVE  /\ req[r].outcome.kind \in RESUMABLE => Observed(r, explicit).kind \in RESUMABLE
           /\ Observed(r, explicit).res >= req[r].outcome.res
           /\ req[r].outcome.kind \in RESUMABLE /\ inconclusive(req[r].outcome)
                 /\ ~inconclusive(Observed(r, explicit))
              => Observed(r, explicit).res > req[r].outcome.res
<1> DEFINE old == req[r].outcome
           res == Resolution(old, Fresh(r, 0), explicit)
           value == Fresh(r, res)
<1>1. old \in Outcome
  BY RecordUpdates DEF Record
<1>2. turn[req[r].turn].ev \in [kind : Kinds, native : BOOLEAN] /\ req[r].receipt \in Ended
  <2>1. Evidence \subseteq [kind : Kinds, native : BOOLEAN]
    BY DEF Evidence
  <2>2. req[r].turn \in Turns /\ req[r].receipt \in Ended
    BY RecordUpdates DEF Record, Attributable, sent_message, turn_ids, Ended
  <2> QED BY <2>1, <2>2 DEF TypeOK, Turn
<1>3. /\ Fresh(r, 0) \in Outcome /\ ~Fresh(r, 0).noted
      /\ \A k \in Nat : /\ Fresh(r, k) \in Outcome /\ Fresh(r, k).res = k
                        /\ Fresh(r, k).kind = Fresh(r, 0).kind
                        /\ inconclusive(Fresh(r, k)) <=> inconclusive(Fresh(r, 0))
  BY <1>2 DEF Fresh, Outcome, inconclusive
<1>4. /\ res \in Nat /\ res >= old.res
      /\ old.kind \in RESUMABLE /\ inconclusive(old) /\ explicit /\ value.kind # "unknown" /\ ~inconclusive(value)
         => res > old.res
  <2>1. res \in {old.res, old.res + 1} /\ old.res \in Nat
    BY <1>1 DEF Resolution, Outcome
  <2>2. value.kind = Fresh(r, 0).kind /\ (inconclusive(value) <=> inconclusive(Fresh(r, 0)))
    BY <1>3, <2>1
  <2>3. old.kind \in RESUMABLE /\ inconclusive(old) /\ explicit /\ Fresh(r, 0).kind # "unknown"
        /\ ~inconclusive(Fresh(r, 0)) => res = old.res + 1
    BY DEF Resolution
  <2> QED BY <2>1, <2>2, <2>3
<1>5. value \in Outcome /\ value.res = res
  BY <1>3, <1>4
<1> HIDE DEF res, value
<1>6. /\ Noted(value, old).kind = old.kind /\ Noted(value, old).res = value.res /\ inconclusive(Noted(value, old))
      /\ [value EXCEPT !.kind = old.kind].kind = old.kind
      /\ [value EXCEPT !.kind = old.kind].res = value.res
      /\ inconclusive([value EXCEPT !.kind = old.kind]) <=> inconclusive(value)
  BY <1>5 DEF Noted, Outcome, inconclusive
<1>7. \/ Observed(r, explicit) = Noted(value, old)
      \/ /\ Observed(r, explicit) = [value EXCEPT !.kind = old.kind]
         /\ explicit /\ value.kind # "unknown"
      \/ /\ Observed(r, explicit) = old
         /\ ~(explicit /\ inconclusive(old)) /\ (old.kind \in RESUMABLE /\ inconclusive(old) => explicit)
      \/ /\ Observed(r, explicit) = value
         /\ old.kind \in RESUMABLE => /\ value.kind # "unknown" /\ (inconclusive(old) => explicit)
                                      /\ Hold(value.kind)
  <2>1. Observed(r, explicit) =
          CASE old = None -> Fresh(r, 0)
            [] old # None /\ old.kind \in RESUMABLE /\ value.kind = "unknown" -> Noted(value, old)
            [] old # None /\ old.kind \in RESUMABLE /\ value.kind # "unknown" /\ inconclusive(old) /\ ~explicit ->
                  Noted(value, old)
            [] old # None /\ ~Hold(value.kind) /\ ~(inconclusive(old) /\ ~explicit /\ old.kind \in RESUMABLE)
               /\ (old.kind \in RESUMABLE \/ (old.kind = "unknown" /\ ~explicit)) ->
                  IF explicit /\ inconclusive(old) THEN [value EXCEPT !.kind = old.kind] ELSE old
            [] OTHER -> value
    BY DEF Observed, value, res
  <2>2. ~Hold(value.kind) => value.kind # "unknown"
    BY DEF Hold
  <2> QED BY <2>1, <2>2
<1>8. value.kind \in Kinds
  BY <1>5 DEF Outcome
<1> HIDE DEF old
<1> QED BY <1>1, <1>4, <1>5, <1>6, <1>7, <1>8 DEF Kinds, Hold, Outcome, old

\* The outcome and the continuation of a request move only when its completion is
\* recorded, or an observation of the latest request of its role is saved; a continuation
\* rests on a failure.
Weighed(r) ==
    \/ req'[r].outcome = req[r].outcome /\ req'[r].release = req[r].release
    \/ /\ ~Done(r) /\ req[r].outcome = None /\ req'[r].release = req[r].release
       /\ \E t \in Turns : req'[r].outcome = FirstOutcome(r, t)
    \/ /\ r \in latest_for_role(req[r].role) /\ Attributable(r)
       /\ \E e \in BOOLEAN : req'[r].outcome = Observed(r, e)
       /\ \/ req'[r].release = req[r].release
          \/ /\ req'[r].release.outcome = req'[r].outcome
             /\ req'[r].outcome.kind \in RESUMABLE

Kept(r) ==
    /\ req'[r] # None /\ req'[r].role = req[r].role /\ req'[r].order = req[r].order
    /\ Weighed(r)

\* A saved observation weighs the one request it is about.
LEMMA SavedKept ==
    ASSUME TypeOK, NEW r \in Sent, NEW e \in BOOLEAN, Attributable(r), r \in latest_for_role(req[r].role),
           req' = SaveOutcome(r, e)
    PROVE  \A q \in Sent : Kept(q)
<1>1. Observed(r, e) \in Outcome /\ req[r] \in Record
  BY ObservedType, RecordUpdates
<1>2. req'[r] = [req[r] EXCEPT !.outcome = Observed(r, e)] /\ req'[r] \in Record
  BY <1>1, RecordUpdates DEF SaveOutcome, TypeOK, Sent
<1>3. /\ req'[r].role = req[r].role /\ req'[r].order = req[r].order
      /\ req'[r].release = req[r].release /\ req'[r].outcome = Observed(r, e)
  BY <1>1, <1>2 DEF Record
<1>4. Kept(r)
  BY <1>2, <1>3, RecordAssumption DEF Kept, Weighed
<1>5. ASSUME NEW q \in Sent, q # r PROVE Kept(q)
  BY <1>5 DEF SaveOutcome, TypeOK, Sent, Kept, Weighed
<1> QED BY <1>4, <1>5

LEMMA UnchangedKept ==
    ASSUME NEW r \in Sent, req'[r] = req[r]
    PROVE  Kept(r)
BY DEF Sent, Kept, Weighed

\* Every step keeps the requests that were sent, and weighs only the latest of a role.
LEMMA StepKept ==
    ASSUME DispatchInv, [Next]_vars
    PROVE  \A r \in Sent : Kept(r)
<1>0. TypeOK
  BY DEF DispatchInv
<1>1. ASSUME NEW o \in Roles, SendRefused(o) PROVE \A r \in Sent : Kept(r)
  <2>1. PICK r \in latest_for_role(o) : Attributable(r) /\ req' = SaveOutcome(r, FALSE)
    BY <1>1 DEF SendRefused
  <2>2. r \in Sent /\ req[r].role = o
    BY DEF latest_for_role
  <2> QED BY <1>0, <2>1, <2>2, SavedKept
<1>2. ASSUME NEW o \in Roles, NEW n \in Requests, SendIntent(o, n) PROVE \A r \in Sent : Kept(r)
  <2> SUFFICES ASSUME NEW r \in Sent PROVE Kept(r)
    OBVIOUS
  <2>1. r # n /\ r \in Requests
    BY <1>2 DEF SendIntent, Sent
  <2>2. CASE r \in latest_for_role(o)
    <3>1. Attributable(r) /\ req[r].role = o /\ req'[r] = [req[r] EXCEPT !.outcome = Observed(r, FALSE)]
      BY <1>2, <2>1, <2>2 DEF SendIntent, latest_for_role
    <3>2. req[r] \in Record /\ req'[r] \in Record
      BY <1>0, <3>1, ObservedType, RecordUpdates
    <3>3. /\ req'[r].role = req[r].role /\ req'[r].order = req[r].order
          /\ req'[r].release = req[r].release /\ req'[r].outcome = Observed(r, FALSE)
      BY <3>1, <3>2 DEF Record
    <3> QED BY <2>2, <3>1, <3>2, <3>3, RecordAssumption DEF Kept, Weighed
  <2>3. CASE r \notin latest_for_role(o)
    BY <1>2, <2>1, <2>3, UnchangedKept DEF SendIntent
  <2> QED BY <2>2, <2>3
<1>3. CASE Acknowledge
  <2> SUFFICES ASSUME NEW r \in Sent PROVE Kept(r)
    OBVIOUS
  <2>1. PICK t \in Turns : req' = [req EXCEPT ![win.req].turn = t, ![win.req].state = "submitted"]
    BY <1>3 DEF Acknowledge
  <2>2. req[r] \in Record
    BY <1>0, RecordUpdates
  <2>3. CASE r = win.req
    <3>1. req'[r] = [req[r] EXCEPT !.turn = t, !.state = "submitted"]
      BY <1>0, <2>1, <2>3 DEF TypeOK, Sent
    <3>2. req'[r] \in Record /\ req'[r].role = req[r].role /\ req'[r].order = req[r].order
          /\ req'[r].outcome = req[r].outcome /\ req'[r].release = req[r].release
      BY <2>2, <3>1 DEF Record
    <3> QED BY <3>2, RecordAssumption DEF Kept, Weighed
  <2>4. CASE r # win.req
    BY <1>0, <2>1, <2>4, UnchangedKept DEF TypeOK, Sent
  <2> QED BY <2>3, <2>4
<1>4. CASE Sync
  <2> SUFFICES ASSUME NEW r \in Sent PROVE Kept(r)
    OBVIOUS
  <2>1. req'[r] = Synced(r) /\ req'[r] \in Record /\ req[r] \in Record
    BY <1>0, <1>4, SyncType, RecordUpdates DEF Sync, Sent, DispatchInv
  <2>2. CASE req'[r] = req[r]
    BY <2>2, UnchangedKept
  <2>3. CASE r \in latest_for_role(req[r].role) /\ Attributable(r)
             /\ req'[r] = [req[r] EXCEPT !.outcome = Observed(r, FALSE)]
    <3>1. /\ req'[r].role = req[r].role /\ req'[r].order = req[r].order
          /\ req'[r].release = req[r].release /\ req'[r].outcome = Observed(r, FALSE)
      BY <2>1, <2>3 DEF Record
    <3> QED BY <2>1, <2>3, <3>1, RecordAssumption DEF Kept, Weighed
  <2>4. ASSUME NEW t \in Turns, ~Done(r), req'[r] = Reconciled(r, t) PROVE Kept(r)
    <3>1. /\ req'[r].role = req[r].role /\ req'[r].order = req[r].order
          /\ req'[r].outcome = FirstOutcome(r, t) /\ req'[r].release = req[r].release
      BY <2>1, <2>4 DEF Reconciled, Record
    <3>2. req[r].outcome # None => req'[r].outcome = req[r].outcome
      BY <1>0, <3>1, FirstOutcomeType
    <3> QED BY <2>1, <2>4, <3>1, <3>2, RecordAssumption DEF Kept, Weighed
  <2>5. \/ req'[r] = req[r]
        \/ r \in latest_for_role(req[r].role) /\ Attributable(r)
           /\ req'[r] = [req[r] EXCEPT !.outcome = Observed(r, FALSE)]
        \/ ~Done(r) /\ \E t \in Turns : req'[r] = Reconciled(r, t)
    BY <2>1 DEF Synced, Done
  <2> QED BY <2>2, <2>3, <2>4, <2>5
<1>5. CASE SyncConflict
  <2> SUFFICES ASSUME NEW r \in Sent PROVE Kept(r)
    OBVIOUS
  <2>1. PICK q \in Sent : req' = [req EXCEPT ![q].model_reroute = TRUE]
    BY <1>5 DEF SyncConflict, Conflicts
  <2>2. req'[q] = [req[q] EXCEPT !.model_reroute = TRUE] /\ req[q] \in Record /\ req'[q] \in Record
    BY <1>0, <2>1, RecordUpdates DEF TypeOK, Sent
  <2>3. /\ req'[q].role = req[q].role /\ req'[q].order = req[q].order
        /\ req'[q].outcome = req[q].outcome /\ req'[q].release = req[q].release
    BY <2>2 DEF Record
  <2>4. Kept(q)
    BY <2>2, <2>3, RecordAssumption DEF Kept, Weighed
  <2>5. r # q => Kept(r)
    BY <1>0, <2>1, UnchangedKept DEF TypeOK, Sent
  <2> QED BY <2>4, <2>5
<1>6. ASSUME NEW r \in Requests, Audit(r) PROVE \A q \in Sent : Kept(q)
  BY <1>0, <1>6, SavedKept DEF Audit, Auditable
<1>7. ASSUME NEW r \in Requests, NEW n \in Requests, ResumeRefused(r, n) PROVE \A q \in Sent : Kept(q)
  BY <1>0, <1>7, SavedKept DEF ResumeRefused, Continuable, Auditable
<1>8. ASSUME NEW r \in Requests, NEW n \in Requests, Resume(r, n) PROVE \A q \in Sent : Kept(q)
  <2> DEFINE o == Observed(r, FALSE)
             st == IF req[r].state = "completed" THEN "completed" ELSE "settled_failure"
  <2>1. r \in Sent /\ Attributable(r) /\ r \in latest_for_role(req[r].role) /\ o.kind \in RESUMABLE
    BY <1>8 DEF Resume, Continuable, Auditable
  <2>2. req[r] \in Record /\ o \in Outcome
    BY <1>0, <2>1, RecordUpdates, ObservedType
  <2>3. req' = [req EXCEPT ![r] =
                  [req[r] EXCEPT !.outcome = o, !.release = [resume |-> n, outcome |-> o], !.state = st]]
    BY <1>0, <1>8, <2>2 DEF Resume, TypeOK, Record
  <2>4. req'[r] = [req[r] EXCEPT !.outcome = o, !.release = [resume |-> n, outcome |-> o], !.state = st]
    BY <1>0, <2>1, <2>3 DEF TypeOK
  <2>5. [req[r] EXCEPT !.outcome = o, !.release = [resume |-> n, outcome |-> o], !.state = st] \in Record
    BY <2>2 DEF Record
  <2>6. /\ req'[r] # None /\ req'[r].role = req[r].role /\ req'[r].order = req[r].order
        /\ req'[r].outcome = o /\ req'[r].release = [resume |-> n, outcome |-> o]
    BY <2>2, <2>4, <2>5, RecordAssumption, ZenonT(60) DEF Record
  <2>7. Kept(r)
    <3>0. \A x : [resume |-> n, outcome |-> x].outcome = x
      OBVIOUS
    <3>1. req'[r].release.outcome = req'[r].outcome /\ req'[r].outcome.kind \in RESUMABLE
      BY <2>1, <2>6, <3>0, Zenon
    <3>2. \E e \in BOOLEAN : req'[r].outcome = Observed(r, e)
      BY <2>6
    <3> QED BY <2>1, <2>6, <3>1, <3>2 DEF Kept, Weighed
  <2>8. \A q \in Sent : q # r => Kept(q)
    BY <1>0, <2>3, UnchangedKept DEF TypeOK, Sent
  <2> QED BY <2>7, <2>8
<1>9. CASE UNCHANGED req
  BY <1>9, UnchangedKept
<1>10. Post \/ DeliveryError \/ Crash \/ Native \/ UNCHANGED vars => UNCHANGED req
  BY DEF Post, DeliveryError, Crash, Native, Lose, Deliver, Foreign, Accept, End, CompleteLate,
     ChangeEvidence, Reroute, vars
<1> QED BY <1>1, <1>2, <1>3, <1>4, <1>5, <1>6, <1>7, <1>8, <1>9, <1>10 DEF Next, Controller

-----------------------------------------------------------------------------
(***************************************************************************)
(* The successors of a result.                                             *)
(***************************************************************************)
\* Requests are numbered in the order they were sent.
OrderInv ==
    /\ \A r \in Sent : req[r].order \in 1..Cardinality(Sent)
    /\ \A r, q \in Sent : req[r].order = req[q].order => r = q

\* A continuation rests on a failure, and no older outcome counts more resolutions.
ReleaseInv ==
    \A r \in Sent : req[r].release # None =>
        /\ req[r].outcome # None /\ req[r].outcome.kind \in RESUMABLE
        /\ req[r].release.outcome.res <= req[r].outcome.res

OutcomeInv == OrderInv /\ ReleaseInv /\ HeldHasOneSuccessor

\* A failure that was observed is observed by every later step.
LEMMA KindSticks ==
    ASSUME DispatchInv, [Next]_vars, NEW r \in Sent, req[r].outcome # None, req[r].outcome.kind \in RESUMABLE
    PROVE  req'[r].outcome # None /\ req'[r].outcome.kind \in RESUMABLE
<1>1. TypeOK /\ Kept(r)
  BY StepKept DEF DispatchInv
<1>2. ASSUME NEW e \in BOOLEAN, Attributable(r), req'[r].outcome = Observed(r, e)
      PROVE  req'[r].outcome # None /\ req'[r].outcome.kind \in RESUMABLE
  BY <1>1, <1>2, ObservedFacts, ObservedType, OutcomeAssumption
<1> QED BY <1>1, <1>2 DEF Kept, Weighed

LEMMA ReleaseStep ==
    ASSUME DispatchInv, ReleaseInv, TypeOK', [Next]_vars, NEW r \in Sent, req'[r].release # None
    PROVE  /\ req'[r].outcome # None /\ req'[r].outcome.kind \in RESUMABLE
           /\ req'[r].release.outcome.res <= req'[r].outcome.res
<1>1. TypeOK /\ Kept(r) /\ req[r] \in Record
  BY StepKept, RecordUpdates DEF DispatchInv
<1>2. CASE req'[r].outcome = req[r].outcome /\ req'[r].release = req[r].release
  BY <1>2 DEF ReleaseInv
<1>3. ASSUME NEW e \in BOOLEAN, Attributable(r), req'[r].outcome = Observed(r, e),
             req'[r].release = req[r].release
      PROVE  /\ req'[r].outcome # None /\ req'[r].outcome.kind \in RESUMABLE
             /\ req'[r].release.outcome.res <= req'[r].outcome.res
  <2>1. /\ req[r].outcome # None /\ req[r].outcome.kind \in RESUMABLE
        /\ req[r].release.outcome.res <= req[r].outcome.res
    BY <1>3 DEF ReleaseInv
  <2>2. /\ req'[r].outcome.res >= req[r].outcome.res /\ req'[r].outcome.kind \in RESUMABLE
        /\ req'[r].outcome \in Outcome
    BY <1>1, <1>3, <2>1, ObservedFacts, ObservedType
  <2>3. req[r].outcome \in Outcome /\ req[r].release.outcome \in Outcome
    BY <1>1, <1>3, <2>1 DEF Record
  <2> QED BY <1>3, <2>1, <2>2, <2>3, OutcomeAssumption DEF Outcome
<1>4. ASSUME NEW e \in BOOLEAN, Attributable(r), req'[r].outcome = Observed(r, e),
             req'[r].release.outcome = req'[r].outcome, req'[r].outcome.kind \in RESUMABLE
      PROVE  /\ req'[r].outcome # None /\ req'[r].outcome.kind \in RESUMABLE
             /\ req'[r].release.outcome.res <= req'[r].outcome.res
  <2>1. req'[r].outcome \in Outcome
    BY <1>1, <1>4, ObservedType
  <2> QED BY <1>4, <2>1, OutcomeAssumption DEF Outcome
<1>5. req[r].outcome = None => req'[r].release # req[r].release
  BY DEF ReleaseInv
<1> QED BY <1>1, <1>2, <1>3, <1>4, <1>5 DEF Kept, Weighed

\* Who was sent: nobody new but by a send.
LEMMA SentStep ==
    ASSUME DispatchInv, [Next]_vars
    PROVE  \/ Sent' = Sent
           \/ \E o \in Roles, n \in Requests : SendIntent(o, n) /\ n \notin Sent /\ Sent' = Sent \cup {n}
<1>1. CASE ControllerStep
  BY <1>1 DEF ControllerStep, Advanced, Sent
<1>2. CASE UNCHANGED req
  BY <1>2 DEF Sent
<1>3. ASSUME NEW o \in Roles, NEW n \in Requests, SendIntent(o, n)
      PROVE  n \notin Sent /\ Sent' = Sent \cup {n}
  <2>1. req[n] = None /\ req'[n] = Intent(o)
    BY <1>3 DEF SendIntent
  <2>2. Intent(o) # None
    <3>1. turn_ids(o) \subseteq Turns /\ Cardinality(Sent) + 1 \in Nat
      BY FiniteAssumption, FS_Subset, FS_CardinalityType DEF Sent, turn_ids
    <3>2. Intent(o) \in Record
      BY <3>1 DEF Intent, Record
    <3> QED BY <3>2, RecordAssumption
  <2> QED BY <1>3, <2>1, <2>2, IntentRecords DEF Sent
<1> QED BY <1>1, <1>2, <1>3, StepShapes DEF NativeStep, Post, Deliver, Foreign

LEMMA SentCount ==
    /\ Cardinality(Sent) \in Nat
    /\ \A n \in Requests \ Sent : Cardinality(Sent \cup {n}) = Cardinality(Sent) + 1
<1>1. IsFiniteSet(Sent)
  BY FiniteAssumption, FS_Subset DEF Sent
<1> QED BY <1>1, FS_CardinalityType, FS_AddElement

\* The order of a request sent by an intent is past every other one.
LEMMA IntentOrder ==
    ASSUME DispatchInv, TypeOK', OrderInv, NEW o \in Roles, NEW n \in Requests, SendIntent(o, n), [Next]_vars,
           n \notin Sent, Sent' = Sent \cup {n}
    PROVE  /\ req'[n].role = o /\ req'[n].order = Cardinality(Sent) + 1
           /\ req'[n].release = None
           /\ \A r \in Sent : req'[r].role = req[r].role /\ req'[r].order = req[r].order
                              /\ req[r].order < req'[n].order
<1>1. req'[n] = Intent(o)
  BY DEF SendIntent
<1>2. \A r \in Sent : req'[r].role = req[r].role /\ req'[r].order = req[r].order
  BY StepKept DEF Kept
<1>3. req'[n].role = o /\ req'[n].order = Cardinality(Sent) + 1 /\ req'[n].release = None
  BY <1>1 DEF Intent
<1> QED BY <1>2, <1>3, SentCount DEF OrderInv

LEMMA OrderStep ==
    ASSUME DispatchInv, TypeOK', OrderInv, [Next]_vars
    PROVE  OrderInv'
<1>1. \A r \in Sent : req'[r].order = req[r].order
  BY StepKept DEF Kept
<1>2. CASE Sent' = Sent
  BY <1>1, <1>2 DEF OrderInv
<1>3. ASSUME NEW o \in Roles, NEW n \in Requests, SendIntent(o, n), n \notin Sent, Sent' = Sent \cup {n}
      PROVE  OrderInv'
  <2>1. Cardinality(Sent') = Cardinality(Sent) + 1 /\ Cardinality(Sent) \in Nat
    BY <1>3, SentCount
  <2>2. req'[n].order = Cardinality(Sent) + 1 /\ \A r \in Sent : req[r].order < req'[n].order
    BY <1>3, IntentOrder
  <2> QED BY <1>1, <1>3, <2>1, <2>2 DEF OrderInv
<1> QED BY <1>2, <1>3, SentStep

\* A request with a successor is not the latest of its role any more.
LEMMA SuccessorPast ==
    ASSUME DispatchInv, OrderInv, HeldHasOneSuccessor, [Next]_vars, NEW r \in Sent, NEW n \in Sent,
           Successor(r, n)
    PROVE  req'[r].outcome = req[r].outcome /\ req'[r].release = req[r].release
<1>1. r \notin latest_for_role(req[r].role)
  <2>1. req[n].role = req[r].role /\ req[r].order < req[n].order
    BY DEF Successor
  <2>2. req[r].order \in Nat /\ req[n].order \in Nat
    BY SentCount DEF OrderInv
  <2> QED BY <2>1, <2>2 DEF latest_for_role
<1>2. req[r].outcome # None
  BY DEF HeldHasOneSuccessor
<1> QED BY <1>1, <1>2, StepKept DEF Kept, Weighed

LEMMA SuccessorStep ==
    ASSUME DispatchInv, OutcomeInv, TypeOK', [Next]_vars
    PROVE  HeldHasOneSuccessor'
<1>0. OrderInv /\ HeldHasOneSuccessor /\ TypeOK
  BY DEF OutcomeInv, DispatchInv
<1>1. \A r \in Sent : req'[r].role = req[r].role /\ req'[r].order = req[r].order
  BY StepKept DEF Kept
<1>2. ASSUME NEW r \in Sent, NEW n \in Sent, Sent \subseteq Sent', Successor(r, n)'
      PROVE  /\ req'[r].outcome # None
             /\ Hold(req'[r].outcome.kind) =>
                   /\ ~inconclusive(req'[r].outcome)
                   /\ req'[r].release = [resume |-> n, outcome |-> req'[r].outcome]
  <2>1. Successor(r, n)
    BY <1>1, <1>2 DEF Successor
  <2>2. req'[r].outcome = req[r].outcome /\ req'[r].release = req[r].release
    BY <1>0, <2>1, SuccessorPast
  <2> QED BY <1>0, <2>1, <2>2 DEF HeldHasOneSuccessor
<1>3. CASE Sent' = Sent
  BY <1>2, <1>3 DEF HeldHasOneSuccessor
<1>4. ASSUME NEW o \in Roles, NEW n \in Requests, SendIntent(o, n), n \notin Sent, Sent' = Sent \cup {n}
      PROVE  HeldHasOneSuccessor'
  <2>1. /\ req'[n].role = o /\ req'[n].order \in Nat
        /\ \A r \in Sent : req[r].order < req'[n].order /\ req[r].order \in Nat
    BY <1>0, <1>4, IntentOrder, SentCount DEF OrderInv
  <2>2. ASSUME NEW q \in Sent' PROVE ~Successor(n, q)'
    <3>1. q = n \/ (q \in Sent /\ req'[q].order = req[q].order)
      BY <1>1, <1>4
    <3>2. ~(req'[n].order < req'[q].order)
      BY <2>1, <3>1
    <3> QED BY <3>2 DEF Successor
  <2>3. ASSUME NEW r \in Sent, Successor(r, n)'
        PROVE  /\ req'[r].outcome # None
               /\ Hold(req'[r].outcome.kind) =>
                     /\ ~inconclusive(req'[r].outcome)
                     /\ req'[r].release = [resume |-> n, outcome |-> req'[r].outcome]
    <3>1. req[r].role = o
      BY <1>1, <2>1, <2>3 DEF Successor
    <3>2. ASSUME NEW q \in Sent, req[q].role = o PROVE req[q].order <= req[r].order
      <4>1. q \in Sent' /\ r \in Sent' /\ n \in Sent'
        BY <1>4
      <4>2. ~(req'[r].order < req'[q].order /\ req'[q].order < req'[n].order)
        BY <1>1, <2>1, <2>3, <3>2, <4>1 DEF Successor
      <4> QED BY <1>1, <2>1, <4>2
    <3>3. r \in latest_for_role(o) /\ r # n
      BY <1>4, <3>1, <3>2 DEF latest_for_role
    <3>4. /\ Attributable(r)
          /\ Hold(Observed(r, FALSE).kind) => Released(Observed(r, FALSE), r, n)
          /\ req'[r] = [req[r] EXCEPT !.outcome = Observed(r, FALSE)]
      BY <1>4, <3>3 DEF SendIntent, Sent
    <3>5. Observed(r, FALSE) \in Outcome /\ req[r] \in Record
      BY <1>0, <3>4, ObservedType, RecordUpdates
    <3>6. req'[r].outcome = Observed(r, FALSE) /\ req'[r].release = req[r].release
      BY <3>4, <3>5 DEF Record
    <3>7. ASSUME Hold(Observed(r, FALSE).kind)
          PROVE  /\ ~inconclusive(Observed(r, FALSE))
                 /\ req[r].release = [resume |-> n, outcome |-> Observed(r, FALSE)]
      <4>1. /\ req[r].release # None /\ req[r].release.resume = n
            /\ req[r].release.outcome = Observed(r, FALSE) /\ ~inconclusive(Observed(r, FALSE))
        BY <3>4, <3>7 DEF Released
      <4>2. req[r].release \in [resume : Requests, outcome : Outcome]
        BY <3>5, <4>1 DEF Record
      <4> QED BY <4>1, <4>2
    <3> QED BY <3>5, <3>6, <3>7, OutcomeAssumption
  <2> QED BY <1>2, <1>4, <2>2, <2>3 DEF HeldHasOneSuccessor
<1> QED BY <1>3, <1>4, SentStep

\* The order of the requests, their failed results, their releases and their successors
\* fit together (Service.gate, _observe, _resolve, ao_room_outcome_resume).
THEOREM OutcomeInvariant == Spec => []OutcomeInv
<1>1. Init => OutcomeInv
  <2> SUFFICES ASSUME Init PROVE OutcomeInv
    OBVIOUS
  <2>1. Sent = {}
    BY DEF Init, Sent
  <2> QED BY <2>1 DEF OutcomeInv, OrderInv, ReleaseInv, HeldHasOneSuccessor
<1>2. DispatchInv /\ DispatchInv' /\ OutcomeInv /\ [Next]_vars => OutcomeInv'
  <2> SUFFICES ASSUME DispatchInv, DispatchInv', OutcomeInv, [Next]_vars PROVE OutcomeInv'
    OBVIOUS
  <2>1. TypeOK' /\ OrderInv /\ ReleaseInv
    BY DEF DispatchInv, OutcomeInv
  <2>2. ReleaseInv'
    <3>1. ASSUME NEW r \in Sent', r \notin Sent PROVE req'[r].release = None
      <4>1. PICK o \in Roles, n \in Requests : SendIntent(o, n) /\ n \notin Sent /\ Sent' = Sent \cup {n}
        BY <3>1, SentStep
      <4> QED BY <2>1, <3>1, <4>1, IntentOrder
    <3> QED BY <2>1, <3>1, ReleaseStep DEF ReleaseInv
  <2> QED BY <2>1, <2>2, OrderStep, SuccessorStep DEF OutcomeInv
<1> QED BY <1>1, <1>2, DispatchInvariant, PTL DEF Spec

\* What a role sends after a held result is the one request whose continuation was
\* authorised for exactly that result (gate, ao_room_outcome_resume).
THEOREM OneSuccessor == Spec => []HeldHasOneSuccessor
BY OutcomeInvariant, PTL DEF OutcomeInv

\* No step turns an observed provider failure into anything else (_observe).
THEOREM FailuresStay == Spec => FailureSticks
<1>1. DispatchInv /\ [Next]_vars
      => [\A r \in Sent : (req[r].outcome # None /\ req[r].outcome.kind \in RESUMABLE) =>
             req'[r].outcome # None /\ req'[r].outcome.kind \in RESUMABLE]_vars
  BY KindSticks
<1> QED BY <1>1, DispatchInvariant, PTL DEF Spec, FailureSticks

\* A continuation authorised before a failure was resolved anew names an older outcome
\* (_resolve counts the resolution).
THEOREM OldReleasesStay == Spec => NoReactivation
<1>1. DispatchInv /\ OutcomeInv /\ [Next]_vars
      => [\A r \in Sent :
             (/\ req[r].outcome # None /\ inconclusive(req[r].outcome)
              /\ req'[r].outcome # req[r].outcome /\ ~inconclusive(req'[r].outcome)
              /\ req[r].release # None)
             => req[r].release.outcome # req'[r].outcome]_vars
  <2> SUFFICES ASSUME DispatchInv, OutcomeInv, [Next]_vars, NEW r \in Sent,
                      req[r].outcome # None, inconclusive(req[r].outcome),
                      req'[r].outcome # req[r].outcome, ~inconclusive(req'[r].outcome),
                      req[r].release # None
               PROVE  req[r].release.outcome # req'[r].outcome
    OBVIOUS
  <2>1. TypeOK /\ Kept(r) /\ req[r] \in Record
    BY StepKept, RecordUpdates DEF DispatchInv
  <2>2. PICK e \in BOOLEAN : Attributable(r) /\ req'[r].outcome = Observed(r, e)
    BY <2>1 DEF Kept, Weighed
  <2>3. req[r].outcome.kind \in RESUMABLE /\ req[r].release.outcome.res <= req[r].outcome.res
    BY DEF OutcomeInv, ReleaseInv
  <2>4. req'[r].outcome.res > req[r].outcome.res /\ req'[r].outcome \in Outcome
    BY <2>1, <2>2, <2>3, ObservedFacts, ObservedType
  <2>5. req[r].outcome \in Outcome /\ req[r].release.outcome \in Outcome
    BY <2>1 DEF Record
  <2>6. req[r].release.outcome.res # req'[r].outcome.res
    BY <2>3, <2>4, <2>5 DEF Outcome
  <2> QED BY <2>6
<1> QED BY <1>1, DispatchInvariant, OutcomeInvariant, PTL DEF Spec, NoReactivation
=============================================================================
