------------------------- MODULE IncidentOperations -------------------------
(***************************************************************************)
(* How operators work incidents on the platform                            *)
(* (plateform/backend/app/services/operations.py): every request is one    *)
(* database transaction that locks the incident's row, and after it a      *)
(* task's, checks what it has read, writes the columns it names and a      *)
(* timeline event, and commits.  A request ends refused when its check     *)
(* fails, when a repeated call has nothing to do, or when the database     *)
(* fails; the session is then closed and nothing of it stays.              *)
(*                                                                         *)
(* Abstracted: who acts, notes, dates, titles and priorities; the timeline *)
(* is kept as what its events since the last reopening say.                *)
(***************************************************************************)
EXTENDS FiniteSets, Integers

CONSTANTS
  Incidents,
  Sessions,   \* requests served at the same time, one transaction each
  IdLimit     \* largest task number whose padded text still sorts as a number

ASSUME IdLimitAssumption == IdLimit \in Nat \ {0}

VARIABLES
  pc,          \* a session's progress: idle, held (the incident), task (the task too)
  at,          \* the incident it asked for
  want,        \* the task it asked for, 0 if none
  seen,        \* what it has read under the incident's lock
  status,      \* of each incident
  marks,       \* its columns that are set: acknowledged_at, assigned_operator, ...
  code,        \* its resolution_code, with the other closure columns
  tasks,       \* its response tasks
  taskStatus,  \* of each task number
  created,     \* task numbers 1..created are in use
  waived,      \* history: incidents closed over tasks known to be open
  told         \* history: what the timeline says since the last reopening

session   == <<pc, at, want, seen>>
incident  == <<status, marks, code, waived, told>>
taskTable == <<tasks, taskStatus, created>>
vars == <<session, incident, taskTable>>

Active     == {"investigating", "awaiting_approval"}
Statuses   == Active \union {"resolved"}
Marks      == {"acknowledged", "assigned", "response_started"}
Codes      == {"none", "other", "false_alarm"}
Facts      == {"acknowledged", "response_started", "awaiting", "closed"}
Tasks      == 1..(IdLimit + 1)
OpenStatus == {"todo", "in_progress"}
Finished   == {"completed", "cancelled"}
NoIncident == "no_incident"

View(i) == [status |-> status[i], marks |-> marks[i],
            open |-> {k \in tasks[i] : taskStatus[k] \in OpenStatus},
            next |-> IF created < IdLimit THEN created + 1 ELSE IdLimit + 1]
Views   == [status : Statuses, marks : SUBSET Marks, open : SUBSET Tasks, next : Tasks]
Nothing == [status |-> "resolved", marks |-> {}, open |-> {}, next |-> 1]

TypeOK ==
  /\ pc \in [Sessions -> {"idle", "held", "task"}]
  /\ at \in [Sessions -> Incidents \union {NoIncident}]
  /\ \A s \in Sessions : pc[s] # "idle" => at[s] \in Incidents
  /\ want \in [Sessions -> {0} \union Tasks]
  /\ seen \in [Sessions -> Views]
  /\ status \in [Incidents -> Statuses]
  /\ marks \in [Incidents -> SUBSET Marks]
  /\ code \in [Incidents -> Codes]
  /\ tasks \in [Incidents -> SUBSET Tasks]
  /\ taskStatus \in [Tasks -> {"none"} \union OpenStatus \union Finished]
  /\ created \in {0} \union Tasks
  /\ waived \subseteq Incidents
  /\ told \in [Incidents -> SUBSET Facts]

\* An incident comes from ingest unassigned, or assigned from a promoted detection.
Init ==
  /\ pc = [s \in Sessions |-> "idle"]
  /\ at = [s \in Sessions |-> NoIncident]
  /\ want = [s \in Sessions |-> 0]
  /\ seen = [s \in Sessions |-> Nothing]
  /\ status = [i \in Incidents |-> "investigating"]
  /\ marks \in [Incidents -> {{}, {"assigned"}}]
  /\ code = [i \in Incidents |-> "none"]
  /\ tasks = [i \in Incidents |-> {}]
  /\ taskStatus = [k \in Tasks |-> "none"]
  /\ created = 0
  /\ waived = {}
  /\ told = [i \in Incidents |-> {}]

-----------------------------------------------------------------------------
(***************************************************************************)
(* The transaction.                                                        *)
(***************************************************************************)
Holds(s, i)     == pc[s] \in {"held", "task"} /\ at[s] = i
HoldsTask(s, k) == pc[s] = "task" /\ want[s] = k
Serves(s)       == pc[s] = "held" /\ want[s] = 0
ServesTask(s)   == pc[s] = "task" /\ want[s] \in tasks[at[s]]
ManagesTasks(s) == seen[s].status = "investigating" /\ "response_started" \in seen[s].marks

\* The end of a request, by commit or by rollback: its locks are gone.
Ends(s) ==
  /\ pc' = [pc EXCEPT ![s] = "idle"]
  /\ at' = [at EXCEPT ![s] = NoIncident]
  /\ want' = [want EXCEPT ![s] = 0]
  /\ seen' = [seen EXCEPT ![s] = Nothing]

Free(s, i) == \A u \in Sessions \ {s} : ~Holds(u, i)

RequestShared(s) ==        \* mutant: the row is read without FOR UPDATE
  /\ pc[s] = "idle"
  /\ \E i \in Incidents, k \in {0} \union 1..created :
       /\ at' = [at EXCEPT ![s] = i]
       /\ want' = [want EXCEPT ![s] = k]
       /\ seen' = [seen EXCEPT ![s] = View(i)]
  /\ pc' = [pc EXCEPT ![s] = "held"]
  /\ UNCHANGED <<incident, taskTable>>

\* A request that waits for the incident's lock has touched nothing yet.
Request(s) ==
  /\ pc[s] = "idle"
  /\ \E i \in Incidents, k \in {0} \union 1..created :
       /\ Free(s, i)
       /\ at' = [at EXCEPT ![s] = i]
       /\ want' = [want EXCEPT ![s] = k]
       /\ seen' = [seen EXCEPT ![s] = View(i)]
  /\ pc' = [pc EXCEPT ![s] = "held"]
  /\ UNCHANGED <<incident, taskTable>>

LockTask(s) ==
  /\ pc[s] = "held" /\ want[s] # 0
  /\ \A u \in Sessions : ~HoldsTask(u, want[s])
  /\ pc' = [pc EXCEPT ![s] = "task"]
  /\ UNCHANGED <<at, want, seen, incident, taskTable>>

Refuse(s) ==
  /\ Serves(s) \/ pc[s] = "task"
  /\ Ends(s)
  /\ UNCHANGED <<incident, taskTable>>

\* The columns a request writes in its incident's row.
Mark(s, m)   == marks' = [marks EXCEPT ![at[s]] = @ \union m]
Status(s, x) == status' = [status EXCEPT ![at[s]] = x]
Event(s, gone, new) == told' = [told EXCEPT ![at[s]] = (@ \ gone) \union new]

-----------------------------------------------------------------------------
(***************************************************************************)
(* Operations on an incident.                                              *)
(***************************************************************************)
Acknowledge(s) ==
  /\ Serves(s)
  /\ seen[s].status = "investigating"
  /\ "acknowledged" \notin seen[s].marks
  /\ Mark(s, {"acknowledged"})
  /\ Event(s, {}, {"acknowledged"})
  /\ Ends(s)
  /\ UNCHANGED <<status, code, waived, taskTable>>

Assign(s) ==
  /\ Serves(s)
  /\ seen[s].status \in Active
  /\ Mark(s, {"assigned"})
  /\ Ends(s)
  /\ UNCHANGED <<status, code, waived, told, taskTable>>

ReturnToInvestigation(s) ==
  /\ Serves(s)
  /\ seen[s].status = "awaiting_approval"
  /\ Status(s, "investigating")
  /\ Event(s, {"awaiting"}, {})
  /\ Ends(s)
  /\ UNCHANGED <<marks, code, waived, taskTable>>

RequestApproval(s) ==
  /\ Serves(s)
  /\ seen[s].status = "investigating"
  /\ Status(s, "awaiting_approval")
  /\ Event(s, {}, {"awaiting"})
  /\ Ends(s)
  /\ UNCHANGED <<marks, code, waived, taskTable>>

StartResponse(s) ==
  /\ Serves(s)
  /\ seen[s].status \in Active
  /\ ~ManagesTasks(s)
  /\ "assigned" \in seen[s].marks
  /\ Status(s, "investigating")
  /\ Mark(s, {"response_started"})
  /\ Event(s, {"awaiting"}, {"response_started"})
  /\ Ends(s)
  /\ UNCHANGED <<code, waived, taskTable>>

\* add_note writes only to the timeline, which says nothing of the state by it.

Close(s, c) ==
  /\ Status(s, "resolved")
  /\ code' = [code EXCEPT ![at[s]] = c]
  /\ Event(s, {"awaiting"}, {"closed"})
  /\ Ends(s)
  /\ UNCHANGED <<marks, taskTable>>

\* confirmed: the operator has confirmed to close over open tasks.
Resolve(s) ==
  /\ Serves(s)
  /\ seen[s].status \in Active
  /\ \E confirmed \in BOOLEAN :
       /\ seen[s].open # {} => confirmed
       /\ waived' = IF confirmed THEN waived \union {at[s]} ELSE waived
  /\ Close(s, "other")

FalseAlarm(s) ==
  /\ Serves(s)
  /\ seen[s].status \in Active
  /\ waived' = waived \union {at[s]}
  /\ Close(s, "false_alarm")

ReopenKeepsResponse(s) ==       \* mutant: leaves response_started_at
  /\ Serves(s)
  /\ seen[s].status = "resolved"
  /\ Status(s, "investigating")
  /\ marks' = [marks EXCEPT ![at[s]] = @ \ {"acknowledged"}]
  /\ code' = [code EXCEPT ![at[s]] = "none"]
  /\ waived' = waived \ {at[s]}
  /\ Event(s, Facts, {})
  /\ Ends(s)
  /\ UNCHANGED taskTable

Reopen(s) ==
  /\ Serves(s)
  /\ seen[s].status = "resolved"
  /\ Status(s, "investigating")
  /\ marks' = [marks EXCEPT ![at[s]] = @ \ {"acknowledged", "response_started"}]
  /\ code' = [code EXCEPT ![at[s]] = "none"]
  /\ waived' = waived \ {at[s]}
  /\ Event(s, Facts, {})
  /\ Ends(s)
  /\ UNCHANGED taskTable

-----------------------------------------------------------------------------
(***************************************************************************)
(* Operations on response tasks.                                           *)
(***************************************************************************)
\* next_public_id was read under the lock of this incident only: the number may
\* meanwhile belong to a task of another, and then the insert is refused.
CreateTask(s) ==
  /\ Serves(s)
  /\ ManagesTasks(s)
  /\ LET k == seen[s].next IN
       /\ k = created + 1
       /\ tasks' = [tasks EXCEPT ![at[s]] = @ \union {k}]
       /\ taskStatus' = [taskStatus EXCEPT ![k] = "todo"]
       /\ created' = k
  /\ Ends(s)
  /\ UNCHANGED incident

TaskBecomes(s, x) ==
  /\ taskStatus' = [taskStatus EXCEPT ![want[s]] = x]
  /\ Ends(s)
  /\ UNCHANGED <<incident, tasks, created>>

StartTask(s) ==
  /\ ServesTask(s) /\ ManagesTasks(s)
  /\ taskStatus[want[s]] = "todo"
  /\ TaskBecomes(s, "in_progress")

CompleteTask(s) ==
  /\ ServesTask(s) /\ ManagesTasks(s)
  /\ taskStatus[want[s]] \in OpenStatus
  /\ TaskBecomes(s, "completed")

CancelTask(s) ==
  /\ ServesTask(s) /\ ManagesTasks(s)
  /\ taskStatus[want[s]] \in OpenStatus
  /\ TaskBecomes(s, "cancelled")

Serve(s) ==
  \/ LockTask(s) \/ Refuse(s)
  \/ Acknowledge(s) \/ Assign(s) \/ ReturnToInvestigation(s) \/ RequestApproval(s)
  \/ StartResponse(s) \/ Resolve(s) \/ FalseAlarm(s) \/ Reopen(s)
  \/ CreateTask(s) \/ StartTask(s) \/ CompleteTask(s) \/ CancelTask(s)

Next == \E s \in Sessions : Request(s) \/ Serve(s)

Spec == Init /\ [][Next]_vars

-----------------------------------------------------------------------------
\* A resolved incident has an open task only if an operator confirmed so or called a
\* false alarm: no interleaving of requests slips a task under a resolution (resolve
\* counts the open tasks of an incident it has locked, create_task locks it too).
ClosedKnowingly ==
  \A i \in Incidents \ waived : status[i] = "resolved" =>
    \A k \in tasks[i] : taskStatus[k] \notin OpenStatus

\* The row says what the timeline says: every status, acknowledgement and response
\* start has its event since the last reopening, and every closing its code
\* (_append_event; the checks resolved_requires_closure and active_clears_resolution).
TimelineTruth ==
  \A i \in Incidents :
    /\ told[i] \ {"awaiting", "closed"} = marks[i] \ {"assigned"}
    /\ "awaiting" \in told[i] <=> status[i] = "awaiting_approval"
    /\ "closed" \in told[i] <=> status[i] = "resolved"
    /\ code[i] # "none" <=> status[i] = "resolved"

\* Each incident's tasks in one of the states.
Having(states) == [i \in Incidents |-> {k \in tasks[i] : taskStatus[k] \in states}]
Desk == INSTANCE IncidentDesk WITH Ids <- Incidents, Numbers <- Tasks,
          todo <- Having({"todo"}), doing <- Having({"in_progress"}), done <- Having(Finished)

\* Requests, however their readings, locks and commits fall between each other's, change
\* incidents and tasks as if each were a single step: nobody decides on a row another has
\* since closed, returned or reopened, nor on a count of tasks that has since grown, and a
\* number read too early gives no second task of that number (_lock_incident, _lock_task,
\* next_public_id).
EachAtOnce == Desk!DeskSpec

\* A response runs, and tasks stay open, under somebody's name: also after a
\* reopening, which forgets the response but not the assignment.
ResponseAssigned ==
  \A i \in Incidents : "response_started" \in marks[i] \/ tasks[i] # {} => "assigned" \in marks[i]

\* A completed or cancelled task is never touched again, and no task leaves its incident.
TasksKept ==
  [][/\ \A k \in Tasks : taskStatus[k] \in Finished => taskStatus'[k] = taskStatus[k]
     /\ \A i \in Incidents : tasks[i] \subseteq tasks'[i]]_vars
=============================================================================
