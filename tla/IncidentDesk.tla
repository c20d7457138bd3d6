---------------------------- MODULE IncidentDesk ----------------------------
(***************************************************************************)
(* What the operations on incidents and their tasks promise, without       *)
(* transactions, locks and numbers read beforehand: each request is one    *)
(* step, which decides on the incident as it then is and changes only it.  *)
(***************************************************************************)
CONSTANTS Ids, Numbers

VARIABLES
  status, marks, code,   \* columns of each incident
  todo, doing, done,     \* each incident's tasks: to do, in progress, finished
  waived                 \* those closed by somebody who knew that tasks may be open

board == <<todo, doing, done>>
desk  == <<status, marks, code, board, waived>>

DeskInit ==
  /\ status = [i \in Ids |-> "investigating"]
  /\ marks \in [Ids -> {{}, {"assigned"}}]
  /\ code = [i \in Ids |-> "none"]
  /\ todo = [i \in Ids |-> {}] /\ doing = todo /\ done = todo
  /\ waived = {}

-----------------------------------------------------------------------------
Worked(i)     == status[i] \in {"investigating", "awaiting_approval"}
Responding(i) == status[i] = "investigating" /\ "response_started" \in marks[i]

Passes(i, x) == status' = [status EXCEPT ![i] = x]
Marks(i, m)  == marks' = [marks EXCEPT ![i] = @ \union m]
Joins(of, i, k)  == of' = [of EXCEPT ![i] = @ \union {k}]
Leaves(of, i, k) == of' = [of EXCEPT ![i] = @ \ {k}]

Acknowledge(i) ==
  /\ status[i] = "investigating" /\ "acknowledged" \notin marks[i]
  /\ Marks(i, {"acknowledged"})
  /\ UNCHANGED <<status, code, board, waived>>

Assign(i) ==
  /\ Worked(i)
  /\ Marks(i, {"assigned"})
  /\ UNCHANGED <<status, code, board, waived>>

RequestApproval(i) ==
  /\ status[i] = "investigating"
  /\ Passes(i, "awaiting_approval")
  /\ UNCHANGED <<marks, code, board, waived>>

ReturnToInvestigation(i) ==
  /\ status[i] = "awaiting_approval"
  /\ Passes(i, "investigating")
  /\ UNCHANGED <<marks, code, board, waived>>

StartResponse(i) ==
  /\ Worked(i) /\ ~Responding(i) /\ "assigned" \in marks[i]
  /\ Passes(i, "investigating") /\ Marks(i, {"response_started"})
  /\ UNCHANGED <<code, board, waived>>

\* Closed over open tasks only by somebody who says so; a false alarm always.
Close(i, c) ==
  /\ Worked(i)
  /\ Passes(i, "resolved") /\ code' = [code EXCEPT ![i] = c]
  /\ \/ waived' = waived \union {i}
     \/ c # "false_alarm" /\ todo[i] \union doing[i] = {} /\ UNCHANGED waived
  /\ UNCHANGED <<marks, board>>

Reopen(i) ==
  /\ status[i] = "resolved"
  /\ Passes(i, "investigating") /\ code' = [code EXCEPT ![i] = "none"]
  /\ marks' = [marks EXCEPT ![i] = @ \ {"acknowledged", "response_started"}]
  /\ waived' = waived \ {i}
  /\ UNCHANGED board

\* A new task's number is nobody's.
AddTask(i, k) ==
  /\ Responding(i)
  /\ \A j \in Ids : k \notin todo[j] \union doing[j] \union done[j]
  /\ Joins(todo, i, k)
  /\ UNCHANGED <<status, marks, code, doing, done, waived>>

StartTask(i, k) ==
  /\ Responding(i) /\ k \in todo[i]
  /\ Leaves(todo, i, k) /\ Joins(doing, i, k)
  /\ UNCHANGED <<status, marks, code, done, waived>>

FinishTask(i, k) ==
  /\ Responding(i) /\ k \in todo[i] \union doing[i]
  /\ Leaves(todo, i, k) /\ Leaves(doing, i, k) /\ Joins(done, i, k)
  /\ UNCHANGED <<status, marks, code, waived>>

DeskNext == \E i \in Ids :
  \/ Acknowledge(i) \/ Assign(i) \/ RequestApproval(i) \/ ReturnToInvestigation(i)
  \/ StartResponse(i) \/ Close(i, "other") \/ Close(i, "false_alarm") \/ Reopen(i)
  \/ \E k \in Numbers : AddTask(i, k) \/ StartTask(i, k) \/ FinishTask(i, k)

DeskSpec == DeskInit /\ [][DeskNext]_desk
=============================================================================
