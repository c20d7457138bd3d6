--------------------------- MODULE DetectionTriage ---------------------------
(***************************************************************************)
(* Anomaly detections of the platform: the engine that opens them          *)
(* (plateform/backend/app/detection/engine.py, deduplication.py) and the   *)
(* operators' workflow on them (services/investigation.py).                *)
(*                                                                         *)
(* A request is one transaction.  It locks the rows it will change, reads  *)
(* them, and commits the change; a promotion also takes the next incident  *)
(* number before.  A run of the engine is one transaction over all keys (a *)
(* sensor and a rule): it reads without locks, remembers its updates and   *)
(* sends them to the database at its next flush, where they wait for the   *)
(* rows' locks in an order of the database's (by UUID).                    *)
(*                                                                         *)
(* Abstracted: rules and readings (a key triggers or does not, whenever it *)
(* is looked at: see DetectionRules), scores, evidence, people and reasons.*)
(* Event numbers only make requests wait for one that waits for nothing.   *)
(***************************************************************************)
EXTENDS Integers, Sequences, FiniteSets

CONSTANTS
  Operators,   \* sessions of requests
  Engines,     \* sessions of the runner
  Keys,        \* 1..n: pairs of a sensor and a rule, in the order a run visits them
  MaxRows,     \* bound: detections ever opened
  MaxIncidents \* bound: incidents ever created

ASSUME KeysAssumption == Keys \subseteq Nat \ {0}
ASSUME SessionsAssumption == Operators \intersect Engines = {}
ASSUME BoundsAssumption == MaxRows \in Nat /\ MaxIncidents \in Nat

VARIABLES
  det,        \* rows of anomaly_detections, in the order of their numbers
  incident,   \* the detection each promoted incident was created from, by incident number
  tx,
  overlapped  \* history: engines whose run was in progress while another's was

vars == <<det, incident, tx, overlapped>>

Sessions == Operators \union Engines
Active   == {"queued", "under_review"}   \* queued: new or queued, which no guard tells apart
Terminal == {"promoted", "merged"}
Statuses == Active \union Terminal \union {"dismissed"}

\* held: condition_open of its evidence.  reopened: its history has such an event.
\* raced (history): a run that overlapped another's opened it, or opened it again.
DetectionRow ==
  [key : Keys, status : Statuses, held : BOOLEAN, into : 0..MaxRows,
   incident : 0..MaxIncidents, reopened : BOOLEAN, raced : BOOLEAN]

NewDetection(k) == [key |-> k, status |-> "queued", held |-> TRUE, into |-> 0,
                    incident |-> 0, reopened |-> FALSE, raced |-> FALSE]

Idle == [step |-> "idle", locks |-> {}, seen |-> << >>, number |-> 0,   \* a request
         at |-> 0, recovered |-> {}, repeated |-> {}, rows |-> << >>]  \* a run

TypeOK ==
  /\ det \in Seq(DetectionRow) /\ Len(det) <= MaxRows
  /\ incident \in Seq(1..MaxRows) /\ Len(incident) <= MaxIncidents
  /\ \A s \in Sessions : tx[s].locks \subseteq DOMAIN det
  /\ \A e \in Engines : tx[e].recovered \union tx[e].repeated \subseteq DOMAIN det
  /\ overlapped \subseteq Engines

Init ==
  /\ det = << >>
  /\ incident = << >>
  /\ tx = [s \in Sessions |-> Idle]
  /\ overlapped = {}

-----------------------------------------------------------------------------
Goes(s, r)  == tx' = [tx EXCEPT ![s] = r]
Unpublished == UNCHANGED <<det, incident>>

RowFreeShared(s, d) == TRUE    \* mutant: no FOR UPDATE
RowFree(s, d) == \A u \in Sessions \ {s} : d \notin tx[u].locks

\* Nothing keeps a second runner from starting while one is at work.
Running == {e \in Engines : tx[e].step # "idle"}
Finishes(s) == overlapped' = overlapped \ {s}

\* A refusal, a lost database, a deadlock's victim or a number already taken.  A run
\* whose flush fails ends so too: its session refuses every later statement.
Fail(s) ==
  /\ tx[s].step # "idle"
  /\ Goes(s, Idle)
  /\ Finishes(s)
  /\ Unpublished

-----------------------------------------------------------------------------
(***************************************************************************)
(* Requests.                                                               *)
(***************************************************************************)
Lock(s) ==
  \E d \in DOMAIN det :
    /\ tx[s].step = "idle" /\ RowFree(s, d)
    /\ Goes(s, [Idle EXCEPT !.step = "locked", !.locks = {d}, !.seen = [x \in {d} |-> det[x].status]])
    /\ Unpublished

\* A merge locks its two detections in the order of their numbers.
InOrderUnsorted(d, e) == d # e    \* mutant: the source first, then the target
InOrder(d, e) == d < e

LockOther(s) ==
  \E d \in tx[s].locks, e \in DOMAIN det :
    /\ tx[s].step = "locked" /\ InOrder(d, e) /\ RowFree(s, e)
    /\ Goes(s, [tx[s] EXCEPT !.step = "both", !.locks = {d, e},
                             !.seen = [x \in {d, e} |-> IF x = d THEN @[d] ELSE det[e].status]])
    /\ Unpublished

\* A request on the one row it has locked, in a status the workflow allows.
Edit(s, d, from) ==
  /\ d \in tx[s].locks /\ tx[s].step = "locked"
  /\ tx[s].seen[d] \in from
  /\ Goes(s, Idle)
  /\ UNCHANGED incident

\* It writes the columns it changes and no others: not the evidence the engine keeps.
Becomes(d, status) == det' = [det EXCEPT ![d].status = status]

\* On a detection already in review it commits nothing.
StartReview(s) == \E d \in tx[s].locks : Edit(s, d, Active) /\ Becomes(d, "under_review")
AddNote(s)     == \E d \in tx[s].locks : Edit(s, d, Active \union {"dismissed"}) /\ UNCHANGED det

Dismiss(s)     == \E d \in tx[s].locks : Edit(s, d, Active) /\ Becomes(d, "dismissed")

Reopen(s) ==
  \E d \in tx[s].locks :
    /\ Edit(s, d, {"dismissed"})
    /\ det' = [det EXCEPT ![d].status = "queued", ![d].reopened = TRUE]

\* Either of the two may be the source.
Merge(s) ==
  \E d, e \in tx[s].locks :
    /\ d # e /\ tx[s].step = "both"
    /\ tx[s].seen[d] \in Active /\ tx[s].seen[e] \in Active
    /\ det' = [det EXCEPT ![d].status = "merged", ![d].into = e]
    /\ Goes(s, Idle)
    /\ UNCHANGED incident

\* A promotion reads the highest incident number, unlocked, and inserts the next one.
TakeNumber(s) ==
  \E d \in tx[s].locks :
    /\ tx[s].step = "locked" /\ tx[s].seen[d] = "under_review"
    /\ Len(incident) < MaxIncidents
    /\ Goes(s, [tx[s] EXCEPT !.step = "numbered", !.number = Len(incident) + 1])
    /\ Unpublished

\* The number is unique: whoever reads one that another commits first can only fail.
NumberUnusedAnyway(n) == TRUE      \* mutant: no unique constraint
NumberUnused(n) == n \notin DOMAIN incident

Promote(s) ==
  \E d \in tx[s].locks :
    /\ tx[s].step = "numbered" /\ NumberUnused(tx[s].number)
    /\ incident' = [n \in DOMAIN incident \union {tx[s].number} |->
                      IF n = tx[s].number THEN d ELSE incident[n]]
    /\ det' = [det EXCEPT ![d].status = "promoted", ![d].incident = tx[s].number]
    /\ Goes(s, Idle)

-----------------------------------------------------------------------------
(***************************************************************************)
(* A run of the engine.                                                    *)
(***************************************************************************)
StartRun(e) ==
  /\ tx[e].step = "idle"
  /\ Goes(e, [Idle EXCEPT !.step = "look", !.at = 1])
  /\ overlapped' = IF Running = {} THEN overlapped ELSE overlapped \union Running \union {e}
  /\ Unpublished

\* The key's newest active detection, 0 when it has none.
FindQueued(k) == {d \in DOMAIN det : det[d].key = k /\ det[d].status = "queued"}   \* mutant
FindAny(k) == {d \in DOMAIN det : det[d].key = k /\ det[d].status \in Active}
FindOpenDetection(k) ==
  IF FindAny(k) = {} THEN 0 ELSE CHOOSE d \in FindAny(k) : \A x \in FindAny(k) : x <= d

IsStillOpenActive(d) == d # 0    \* mutant: active is enough
IsStillOpen(d) == d # 0 /\ det[d].held

Recover(e, d) == [tx[e] EXCEPT !.at = @ + 1, !.recovered = @ \union {d}]
Repeat(e, d)  == [tx[e] EXCEPT !.at = @ + 1, !.repeated = @ \union {d}]
Pass(e)       == [tx[e] EXCEPT !.at = @ + 1]

\* One key, as its rule finds it: triggered or not.
Look(e) ==
  /\ tx[e].step = "look" /\ tx[e].at \in Keys
  /\ Unpublished
  /\ LET d == FindOpenDetection(tx[e].at) IN
     \/ Goes(e, IF IsStillOpen(d) THEN Recover(e, d) ELSE Pass(e))
     \/ Goes(e, IF IsStillOpen(d) THEN Repeat(e, d) ELSE [tx[e] EXCEPT !.step = "open"])

\* A rule or a query of the key fails, which the run counts and survives; so also a key
\* the run was not asked for.
SkipSensor(e) ==
  /\ tx[e].step = "look" /\ tx[e].at \in Keys
  /\ Goes(e, Pass(e))
  /\ Unpublished

\* A flush sends the updates made since the last one.
Dirty(e) == (tx[e].recovered \union tx[e].repeated) \ tx[e].locks
AtFlush(e) == tx[e].step = "open" \/ (tx[e].step = "look" /\ tx[e].at \notin Keys)
FlushRow(e) ==
  \E d \in Dirty(e) :
    /\ AtFlush(e) /\ RowFree(e, d)
    /\ Goes(e, [tx[e] EXCEPT !.locks = @ \union {d}])
    /\ Unpublished

\* An uncommitted insert holds the next detection number.
Persist(e) ==
  /\ tx[e].step = "open" /\ Dirty(e) = {}
  /\ Len(det) + Len(tx[e].rows) < MaxRows
  /\ \A u \in Engines \ {e} : tx[u].rows = << >>
  /\ Goes(e, [tx[e] EXCEPT !.step = "look", !.at = @ + 1, !.rows = Append(@, NewDetection(tx[e].at))])
  /\ Unpublished

\* What the run makes of a detection there is, and one it opens.
Kept(e, d) ==
  IF d \in tx[e].recovered THEN [det[d] EXCEPT !.held = FALSE]
  ELSE IF d \in tx[e].repeated
    THEN [det[d] EXCEPT !.held = TRUE, !.raced = @ \/ (~det[d].held /\ e \in overlapped)]
  ELSE det[d]
Opened(e, i) == [tx[e].rows[i] EXCEPT !.raced = e \in overlapped]

CommitRun(e) ==
  /\ tx[e].step = "look" /\ tx[e].at \notin Keys /\ Dirty(e) = {}
  /\ det' = [d \in DOMAIN det |-> Kept(e, d)] \o [i \in DOMAIN tx[e].rows |-> Opened(e, i)]
  /\ Goes(e, Idle)
  /\ Finishes(e)
  /\ UNCHANGED incident

-----------------------------------------------------------------------------
Request(s) == \/ Lock(s) \/ LockOther(s) \/ StartReview(s) \/ AddNote(s) \/ Dismiss(s)
              \/ Reopen(s) \/ Merge(s) \/ TakeNumber(s) \/ Promote(s)
Works(e)   == Look(e) \/ SkipSensor(e) \/ FlushRow(e) \/ Persist(e)

Next == \/ \E s \in Operators : Request(s) /\ UNCHANGED overlapped
        \/ \E e \in Engines : Works(e) /\ UNCHANGED overlapped
        \/ \E e \in Engines : StartRun(e) \/ CommitRun(e)
        \/ \E s \in Sessions : Fail(s)
Spec == Init /\ [][Next]_vars

-----------------------------------------------------------------------------
(***************************************************************************)
(* Properties.                                                             *)
(***************************************************************************)
\* "While an active detection for the same sensor and rule has condition_open=true,
\* another identical detection is not created" (deduplication.py, lines 7-8).  The queue
\* shows a condition once, however runs and requests interleave, but for two cases: an
\* operator reopened a dismissed detection of it, which the engine had replaced meanwhile,
\* or two runs overlapped, which nothing prevents, and both opened one (or one opened
\* again what the other had ended).
OneOpenDetection ==
  \A d, e \in DOMAIN det :
    d # e /\ det[d].key = det[e].key /\ det[d].held /\ det[e].held
          /\ {det[d].status, det[e].status} \subseteq Active
      => \E x \in {d, e} : det[x].reopened \/ det[x].raced

\* Incidents made by promotion and promoted detections are one to one, although the
\* number of the incident is read without a lock (investigation.py, line 283).
IncidentsMatch ==
  /\ \A n \in DOMAIN incident : det[incident[n]].incident = n
  /\ \A d \in DOMAIN det : (det[d].status = "promoted") = (det[d].incident # 0)
  /\ \A d \in DOMAIN det : det[d].incident # 0 => incident[det[d].incident] = d

Allowed == {<<"queued", "under_review">>, <<"dismissed", "queued">>, <<"under_review", "promoted">>}
           \union (Active \X {"dismissed", "merged"})
\* Every committed change of a status is one ACTION_MAP allows (workflow.py, lines 3-10):
\* no request acts on a status another one has changed under it.
\* And "after recovery, a new occurrence creates a new detection" (deduplication.py, line
\* 13): a detection whose condition has ended is not opened again, by a request, or by a
\* run that overlapped no other's.
TransitionsAllowed ==
  [][\A d \in DOMAIN det :
       /\ det'[d].status # det[d].status => <<det[d].status, det'[d].status>> \in Allowed
       /\ ~det[d].held => ~det'[d].held \/ det'[d].raced]_vars

Life == INSTANCE DetectionLife WITH detections <- det, promotions <- incident

\* The requests and the runs, however their locks, readings, late flushes and commits fall
\* between each other's, change the detections as if each were a single step that decides
\* on what it then finds: a run that overlaps no other's opens a detection only of a condition that none shows at
\* its commit, although it looked without a lock (engine.py, lines 231-252), and no
\* request undoes, or is undone by, another's or a run's change of the same detection.
LivesOneByOne == Life!LifeSpec

\* s waits for a row u has locked.
Wants(s) == IF s \in Engines THEN IF AtFlush(s) THEN Dirty(s) ELSE {}
            ELSE IF tx[s].step = "locked" THEN {d \in DOMAIN det : \E x \in tx[s].locks : InOrder(x, d)}
            ELSE {}
\* Merges of any detections at once, also of two into each other: no two wait for each
\* other, because both lock in the order of the numbers (a merge and a run may: a run's
\* updates come in any order), and following a merged detection to the one it was merged
\* into ends at one that was not merged.
MergesEnd ==
  /\ \A s, u \in Operators : s # u =>
       ~ (Wants(s) \intersect tx[u].locks # {} /\ Wants(u) \intersect tx[s].locks # {})
  /\ \A D \in SUBSET {d \in DOMAIN det : det[d].status = "merged"} :
       D # {} => \E d \in D : det[d].into \notin D
=============================================================================
