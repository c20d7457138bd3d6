---------------------------- MODULE DetectionLife ----------------------------
(***************************************************************************)
(* What the triage and the engine promise of the detections, without       *)
(* sessions, locks or transactions: every request, and every whole run of  *)
(* the engine, is one step, which decides on the detections as they are at *)
(* that step.                                                              *)
(***************************************************************************)
EXTENDS Integers, Sequences

CONSTANT Keys

VARIABLES
  detections,   \* rows, in the order of their numbers
  promotions    \* the detection of each incident

life == <<detections, promotions>>

InQueue == {"queued", "under_review"}
Shown(d) == detections[d].status \in InQueue
Fresh(k) == [key |-> k, status |-> "queued", held |-> TRUE, into |-> 0, incident |-> 0, reopened |-> FALSE, raced |-> FALSE]

LifeInit == detections = << >> /\ promotions = << >>

-----------------------------------------------------------------------------
Review(d)  == /\ Shown(d)
              /\ detections' = [detections EXCEPT ![d].status = "under_review"]
              /\ UNCHANGED promotions
Dismiss(d) == /\ Shown(d)
              /\ detections' = [detections EXCEPT ![d].status = "dismissed"]
              /\ UNCHANGED promotions
Reopen(d)  == /\ detections[d].status = "dismissed"
              /\ detections' = [detections EXCEPT ![d].status = "queued", ![d].reopened = TRUE]
              /\ UNCHANGED promotions
Merge(d, e) == /\ d # e /\ Shown(d) /\ Shown(e)
               /\ detections' = [detections EXCEPT ![d].status = "merged", ![d].into = e]
               /\ UNCHANGED promotions
Promote(d) == /\ detections[d].status = "under_review"
              /\ promotions' = Append(promotions, d)
              /\ detections' = [detections EXCEPT ![d].status = "promoted", ![d].incident = Len(promotions) + 1]

\* A detection that says of its condition that it holds now, and that neither an operator
\* nor a run that overlapped another brought (or brought back).
Stands(d) == Shown(d) /\ detections[d].held /\ ~detections[d].reopened /\ ~detections[d].raced
Unshown(k) == \A d \in DOMAIN detections : detections[d].key = k => ~Stands(d)

Added == DOMAIN detections' \ DOMAIN detections
Ended == {d \in DOMAIN detections : detections'[d] # detections[d]}

\* A run: the conditions of some keys have ended, and detections of other keys that show
\* none are opened, one for each.  A run that overlapped another's says so of those it
\* opens, and may also open one again that has ended.
RunEngine(raced) ==
  /\ UNCHANGED promotions
  /\ Len(detections') >= Len(detections) /\ DOMAIN detections' = 1..Len(detections')
  /\ \A d \in Ended :
       \/ detections'[d] = [detections[d] EXCEPT !.held = FALSE]
       \/ raced /\ detections'[d] = [detections[d] EXCEPT !.held = TRUE, !.raced = TRUE]
  /\ \A d \in Added : \E k \in Keys : Unshown(k) /\ detections'[d] = [Fresh(k) EXCEPT !.raced = raced]
  /\ \A d, x \in Added : d # x => detections'[d].key # detections'[x].key
  /\ \A d \in Ended, x \in Added : detections[d].key # detections'[x].key

LifeNext ==
  \/ \E d \in DOMAIN detections : Review(d) \/ Dismiss(d) \/ Reopen(d) \/ Promote(d)
  \/ \E d, e \in DOMAIN detections : Merge(d, e)
  \/ \E raced \in BOOLEAN : RunEngine(raced)

LifeSpec == LifeInit /\ [][LifeNext]_life
=============================================================================
