---------------------- MODULE IncidentOperationsProofs ----------------------
(***************************************************************************)
(* Proofs about IncidentOperations for any incidents, requests at a time   *)
(* and limit of task numbers.  IInv is the inductive invariant:            *)
(*   LockInv    one session at most holds an incident;                     *)
(*   SeenInv    what a session has read under the lock is still so;        *)
(*   NumberInv  task numbers are given out once, in order, to one incident;*)
(* and, inductive on top of them, the invariants it is to keep.  By it     *)
(* each request is one step of IncidentDesk.                               *)
(* Below, that the reports of Analytics count each row once, the pages of  *)
(* OperationsViews agree and the charts of TelemetryViews tell the truth,  *)
(* for every set of databases the assumptions allow.                       *)
(***************************************************************************)
EXTENDS IncidentOperations, OperationsViews, TelemetryViews, FiniteSetTheorems, NaturalsInduction, WellFoundedInduction, TLAPS

LockInv ==
  \A s, u \in Sessions : pc[s] # "idle" /\ pc[u] # "idle" /\ at[s] = at[u] => s = u

Current(s) ==
  /\ seen[s].status = status[at[s]]
  /\ seen[s].marks = marks[at[s]]
  /\ seen[s].open = {k \in tasks[at[s]] : taskStatus[k] \in OpenStatus}
SeenInv == \A s \in Sessions : pc[s] # "idle" => Current(s)

NumberInv ==
  /\ \A i \in Incidents : \A k \in tasks[i] : k <= created
  /\ \A i, j \in Incidents : i # j => tasks[i] \intersect tasks[j] = {}
  /\ \A k \in Tasks : k > created => taskStatus[k] = "none"

IInv == /\ TypeOK /\ LockInv /\ SeenInv /\ NumberInv
        /\ ClosedKnowingly /\ TimelineTruth /\ ResponseAssigned

-----------------------------------------------------------------------------
(* What a session reads is well typed. *)
LEMMA ViewType == ASSUME TypeOK, NEW i \in Incidents PROVE View(i) \in Views
<1>1. {k \in tasks[i] : taskStatus[k] \in OpenStatus} \in SUBSET Tasks
  BY DEF TypeOK
<1>2. (IF created < IdLimit THEN created + 1 ELSE IdLimit + 1) \in Tasks
  BY IdLimitAssumption DEF TypeOK, Tasks
<1> QED
  BY <1>1, <1>2 DEF TypeOK, View, Views

(* An idle session has read nothing. *)
LEMMA NothingType == Nothing \in Views
  BY IdLimitAssumption DEF Nothing, Views, Statuses, Tasks, Active

(* Every step keeps the types. *)
LEMMA TypeStep == TypeOK /\ [Next]_vars => TypeOK'
<1> SUFFICES ASSUME TypeOK, [Next]_vars PROVE TypeOK'
  OBVIOUS
<1> USE IdLimitAssumption, ViewType, NothingType DEF TypeOK
<1>1. ASSUME NEW s \in Sessions, Request(s) PROVE TypeOK'
  <2>1. PICK i \in Incidents, k \in {0} \union 1..created :
          /\ at' = [at EXCEPT ![s] = i]
          /\ want' = [want EXCEPT ![s] = k]
          /\ seen' = [seen EXCEPT ![s] = View(i)]
    BY <1>1 DEF Request
  <2>2. k \in {0} \union Tasks
    BY <2>1 DEF Tasks
  <2>3. View(i) \in Views
    OBVIOUS
  <2>4. pc' = [pc EXCEPT ![s] = "held"] /\ UNCHANGED <<incident, taskTable>>
    BY <1>1 DEF Request
  <2> QED
    BY <2>1, <2>2, <2>3, <2>4 DEF incident, taskTable
<1>2. ASSUME NEW s \in Sessions, LockTask(s) PROVE TypeOK'
  BY <1>2 DEF LockTask, session, incident, taskTable, Active, Statuses, Marks, Codes, Facts, OpenStatus, Finished
<1>3. ASSUME NEW s \in Sessions, Refuse(s) PROVE TypeOK'
  BY <1>3 DEF Refuse, Serves, Ends, session, incident, taskTable, Active, Statuses, Marks, Codes, Facts, OpenStatus, Finished
<1>4. ASSUME NEW s \in Sessions, Acknowledge(s) PROVE TypeOK'
  BY <1>4 DEF Acknowledge, Mark, Event, Serves, Ends, session, incident, taskTable, Active, Statuses, Marks, Codes, Facts, OpenStatus, Finished
<1>5. ASSUME NEW s \in Sessions, Assign(s) PROVE TypeOK'
  BY <1>5 DEF Assign, Mark, Serves, Ends, session, incident, taskTable, Active, Statuses, Marks, Codes, Facts, OpenStatus, Finished
<1>6. ASSUME NEW s \in Sessions, ReturnToInvestigation(s) PROVE TypeOK'
  BY <1>6 DEF ReturnToInvestigation, Status, Event, Serves, Ends, session, incident, taskTable, Active, Statuses, Marks, Codes, Facts, OpenStatus, Finished
<1>7. ASSUME NEW s \in Sessions, RequestApproval(s) PROVE TypeOK'
  BY <1>7 DEF RequestApproval, Status, Event, Serves, Ends, session, incident, taskTable, Active, Statuses, Marks, Codes, Facts, OpenStatus, Finished
<1>8. ASSUME NEW s \in Sessions, StartResponse(s) PROVE TypeOK'
  BY <1>8 DEF StartResponse, ManagesTasks, Status, Mark, Event, Serves, Ends, session, incident, taskTable, Active, Statuses, Marks, Codes, Facts, OpenStatus, Finished
<1>9. ASSUME NEW s \in Sessions, Resolve(s) PROVE TypeOK'
  BY <1>9 DEF Resolve, Close, Status, Event, Serves, Ends, session, incident, taskTable, Active, Statuses, Marks, Codes, Facts, OpenStatus, Finished
<1>10. ASSUME NEW s \in Sessions, FalseAlarm(s) PROVE TypeOK'
  BY <1>10 DEF FalseAlarm, Close, Status, Event, Serves, Ends, session, incident, taskTable, Active, Statuses, Marks, Codes, Facts, OpenStatus, Finished
<1>11. ASSUME NEW s \in Sessions, Reopen(s) PROVE TypeOK'
  BY <1>11 DEF Reopen, Status, Event, Serves, Ends, session, incident, taskTable, Active, Statuses, Marks, Codes, Facts, OpenStatus, Finished
<1>12. ASSUME NEW s \in Sessions, CreateTask(s) PROVE TypeOK'
  <2>1. at[s] \in Incidents /\ seen[s].next \in Tasks
    BY <1>12 DEF CreateTask, Serves, Views
  <2>2. pc' \in [Sessions -> {"idle", "held", "task"}] /\ at' \in [Sessions -> Incidents \union {NoIncident}]
    BY <1>12 DEF CreateTask, Ends
  <2>3. /\ \A u \in Sessions : pc'[u] # "idle" => at'[u] \in Incidents
        /\ want' \in [Sessions -> {0} \union Tasks]
        /\ seen' \in [Sessions -> Views]
    BY <1>12 DEF CreateTask, Ends
  <2>4. tasks' \in [Incidents -> SUBSET Tasks] /\ created' \in {0} \union Tasks
    BY <1>12, <2>1 DEF CreateTask
  <2>5. taskStatus' \in [Tasks -> {"none"} \union OpenStatus \union Finished]
    BY <1>12, <2>1 DEF CreateTask, OpenStatus
  <2> QED
    BY <1>12, <2>2, <2>3, <2>4, <2>5 DEF CreateTask, incident
<1>13. ASSUME NEW s \in Sessions, StartTask(s) PROVE TypeOK'
  BY <1>13 DEF StartTask, ServesTask, ManagesTasks, TaskBecomes, Ends, session, incident, taskTable, Active, Statuses, Marks, Codes, Facts, OpenStatus, Finished
<1>14. ASSUME NEW s \in Sessions, CompleteTask(s) PROVE TypeOK'
  BY <1>14 DEF CompleteTask, ServesTask, ManagesTasks, TaskBecomes, Ends, session, incident, taskTable, Active, Statuses, Marks, Codes, Facts, OpenStatus, Finished
<1>15. ASSUME NEW s \in Sessions, CancelTask(s) PROVE TypeOK'
  BY <1>15 DEF CancelTask, ServesTask, ManagesTasks, TaskBecomes, Ends, session, incident, taskTable, Active, Statuses, Marks, Codes, Facts, OpenStatus, Finished
<1>16. CASE UNCHANGED vars
  BY <1>16 DEF vars, session, incident, taskTable
<1> QED
  BY <1>1, <1>2, <1>3, <1>4, <1>5, <1>6, <1>7, <1>8, <1>9, <1>10, <1>11, <1>12, <1>13, <1>14, <1>15, <1>16 DEF Next, Serve

(* An incident is taken only when it is free. *)
LEMMA LockStep == TypeOK /\ LockInv /\ [Next]_vars => LockInv'
<1> SUFFICES ASSUME TypeOK, LockInv, [Next]_vars PROVE LockInv'
  OBVIOUS
<1> USE DEF TypeOK, LockInv, Holds
<1>1. ASSUME NEW s \in Sessions, Request(s) PROVE LockInv'
  BY <1>1 DEF Request, Free, View, session, incident, taskTable
<1>2. ASSUME NEW s \in Sessions, LockTask(s) PROVE LockInv'
  BY <1>2 DEF LockTask, session, incident, taskTable
<1>3. ASSUME NEW s \in Sessions, Refuse(s) PROVE LockInv'
  BY <1>3 DEF Refuse, Serves, Ends, session, incident, taskTable
<1>4. ASSUME NEW s \in Sessions, Acknowledge(s) PROVE LockInv'
  BY <1>4 DEF Acknowledge, Mark, Event, Serves, Ends, session, incident, taskTable
<1>5. ASSUME NEW s \in Sessions, Assign(s) PROVE LockInv'
  BY <1>5 DEF Assign, Mark, Serves, Ends, session, incident, taskTable
<1>6. ASSUME NEW s \in Sessions, ReturnToInvestigation(s) PROVE LockInv'
  BY <1>6 DEF ReturnToInvestigation, Status, Event, Serves, Ends, session, incident, taskTable
<1>7. ASSUME NEW s \in Sessions, RequestApproval(s) PROVE LockInv'
  BY <1>7 DEF RequestApproval, Status, Event, Serves, Ends, session, incident, taskTable
<1>8. ASSUME NEW s \in Sessions, StartResponse(s) PROVE LockInv'
  BY <1>8 DEF StartResponse, ManagesTasks, Status, Mark, Event, Serves, Ends, session, incident, taskTable
<1>9. ASSUME NEW s \in Sessions, Resolve(s) PROVE LockInv'
  BY <1>9 DEF Resolve, Close, Status, Event, Serves, Ends, session, incident, taskTable
<1>10. ASSUME NEW s \in Sessions, FalseAlarm(s) PROVE LockInv'
  BY <1>10 DEF FalseAlarm, Close, Status, Event, Serves, Ends, session, incident, taskTable
<1>11. ASSUME NEW s \in Sessions, Reopen(s) PROVE LockInv'
  BY <1>11 DEF Reopen, Status, Event, Serves, Ends, session, incident, taskTable
<1>12. ASSUME NEW s \in Sessions, CreateTask(s) PROVE LockInv'
  BY <1>12 DEF CreateTask, ManagesTasks, Serves, Ends, session, incident, taskTable
<1>13. ASSUME NEW s \in Sessions, StartTask(s) PROVE LockInv'
  BY <1>13 DEF StartTask, ServesTask, ManagesTasks, TaskBecomes, Ends, session, incident, taskTable
<1>14. ASSUME NEW s \in Sessions, CompleteTask(s) PROVE LockInv'
  BY <1>14 DEF CompleteTask, ServesTask, ManagesTasks, TaskBecomes, Ends, session, incident, taskTable
<1>15. ASSUME NEW s \in Sessions, CancelTask(s) PROVE LockInv'
  BY <1>15 DEF CancelTask, ServesTask, ManagesTasks, TaskBecomes, Ends, session, incident, taskTable
<1>16. CASE UNCHANGED vars
  BY <1>16 DEF vars, session, incident, taskTable
<1> QED
  BY <1>1, <1>2, <1>3, <1>4, <1>5, <1>6, <1>7, <1>8, <1>9, <1>10, <1>11, <1>12, <1>13, <1>14, <1>15, <1>16 DEF Next, Serve

(* Only its holder changes what it has read. *)
LEMMA SeenStep == TypeOK /\ LockInv /\ NumberInv /\ SeenInv /\ [Next]_vars => SeenInv'
<1> SUFFICES ASSUME TypeOK, LockInv, NumberInv, SeenInv, [Next]_vars PROVE SeenInv'
  OBVIOUS
<1> USE DEF TypeOK, LockInv, SeenInv, Current
<1>1. ASSUME NEW s \in Sessions, Request(s) PROVE SeenInv'
  BY <1>1 DEF Request, Free, View, session, incident, taskTable
<1>2. ASSUME NEW s \in Sessions, LockTask(s) PROVE SeenInv'
  BY <1>2 DEF LockTask, session, incident, taskTable
<1>3. ASSUME NEW s \in Sessions, Refuse(s) PROVE SeenInv'
  BY <1>3 DEF Refuse, Serves, Ends, session, incident, taskTable
<1>4. ASSUME NEW s \in Sessions, Acknowledge(s) PROVE SeenInv'
  BY <1>4 DEF Acknowledge, Mark, Event, Serves, Ends, session, incident, taskTable
<1>5. ASSUME NEW s \in Sessions, Assign(s) PROVE SeenInv'
  BY <1>5 DEF Assign, Mark, Serves, Ends, session, incident, taskTable
<1>6. ASSUME NEW s \in Sessions, ReturnToInvestigation(s) PROVE SeenInv'
  BY <1>6 DEF ReturnToInvestigation, Status, Event, Serves, Ends, session, incident, taskTable
<1>7. ASSUME NEW s \in Sessions, RequestApproval(s) PROVE SeenInv'
  BY <1>7 DEF RequestApproval, Status, Event, Serves, Ends, session, incident, taskTable
<1>8. ASSUME NEW s \in Sessions, StartResponse(s) PROVE SeenInv'
  BY <1>8 DEF StartResponse, ManagesTasks, Status, Mark, Event, Serves, Ends, session, incident, taskTable
<1>9. ASSUME NEW s \in Sessions, Resolve(s) PROVE SeenInv'
  BY <1>9 DEF Resolve, Close, Status, Event, Serves, Ends, session, incident, taskTable
<1>10. ASSUME NEW s \in Sessions, FalseAlarm(s) PROVE SeenInv'
  BY <1>10 DEF FalseAlarm, Close, Status, Event, Serves, Ends, session, incident, taskTable
<1>11. ASSUME NEW s \in Sessions, Reopen(s) PROVE SeenInv'
  BY <1>11 DEF Reopen, Status, Event, Serves, Ends, session, incident, taskTable
<1>12. ASSUME NEW s \in Sessions, CreateTask(s) PROVE SeenInv'
  <2> SUFFICES ASSUME NEW u \in Sessions, pc'[u] # "idle" PROVE Current(u)'
    BY DEF SeenInv
  <2>1. at[s] \in Incidents /\ pc[s] # "idle"
    BY <1>12 DEF CreateTask, Serves
  <2>2. u # s /\ pc[u] # "idle" /\ at'[u] = at[u] /\ seen'[u] = seen[u]
    BY <1>12 DEF CreateTask, Ends
  <2>3. at[u] \in Incidents /\ at[u] # at[s]
    BY <2>1, <2>2
  <2>4. tasks'[at[u]] = tasks[at[u]] /\ UNCHANGED <<status, marks>>
    BY <1>12, <2>3 DEF CreateTask, Ends, incident
  <2>5. \A k \in tasks[at[u]] : taskStatus'[k] = taskStatus[k]
    <3>1. seen[s].next = created + 1 /\ created \in Nat
      BY <1>12 DEF CreateTask, Tasks
    <3>2. \A k \in tasks[at[u]] : k # seen[s].next /\ k \in Tasks
      BY <2>3, <3>1 DEF NumberInv, Tasks
    <3> QED
      BY <1>12, <3>2 DEF CreateTask
  <2> QED
    BY <2>2, <2>3, <2>4, <2>5 DEF SeenInv
<1>13. ASSUME NEW s \in Sessions, StartTask(s) PROVE SeenInv'
  <2> SUFFICES ASSUME NEW u \in Sessions, pc'[u] # "idle" PROVE Current(u)'
    BY DEF SeenInv
  <2>1. at[s] \in Incidents /\ pc[s] # "idle"
    BY <1>13 DEF StartTask, ServesTask
  <2>2. u # s /\ pc[u] # "idle" /\ at'[u] = at[u] /\ seen'[u] = seen[u]
    BY <1>13 DEF StartTask, TaskBecomes, Ends
  <2>3. at[u] \in Incidents /\ at[u] # at[s]
    BY <2>1, <2>2
  <2>4. tasks'[at[u]] = tasks[at[u]] /\ UNCHANGED <<status, marks>>
    BY <1>13, <2>3 DEF StartTask, TaskBecomes, Ends, incident
  <2>5. \A k \in tasks[at[u]] : taskStatus'[k] = taskStatus[k]
    <3>1. want[s] \in tasks[at[s]]
      BY <1>13 DEF StartTask, ServesTask
    <3>2. \A k \in tasks[at[u]] : k # want[s] /\ k \in Tasks
      BY <2>1, <2>3, <3>1 DEF NumberInv
    <3> QED
      BY <1>13, <3>2 DEF StartTask, TaskBecomes
  <2> QED
    BY <2>2, <2>3, <2>4, <2>5 DEF SeenInv
<1>14. ASSUME NEW s \in Sessions, CompleteTask(s) PROVE SeenInv'
  <2> SUFFICES ASSUME NEW u \in Sessions, pc'[u] # "idle" PROVE Current(u)'
    BY DEF SeenInv
  <2>1. at[s] \in Incidents /\ pc[s] # "idle"
    BY <1>14 DEF CompleteTask, ServesTask
  <2>2. u # s /\ pc[u] # "idle" /\ at'[u] = at[u] /\ seen'[u] = seen[u]
    BY <1>14 DEF CompleteTask, TaskBecomes, Ends
  <2>3. at[u] \in Incidents /\ at[u] # at[s]
    BY <2>1, <2>2
  <2>4. tasks'[at[u]] = tasks[at[u]] /\ UNCHANGED <<status, marks>>
    BY <1>14, <2>3 DEF CompleteTask, TaskBecomes, Ends, incident
  <2>5. \A k \in tasks[at[u]] : taskStatus'[k] = taskStatus[k]
    <3>1. want[s] \in tasks[at[s]]
      BY <1>14 DEF CompleteTask, ServesTask
    <3>2. \A k \in tasks[at[u]] : k # want[s] /\ k \in Tasks
      BY <2>1, <2>3, <3>1 DEF NumberInv
    <3> QED
      BY <1>14, <3>2 DEF CompleteTask, TaskBecomes
  <2> QED
    BY <2>2, <2>3, <2>4, <2>5 DEF SeenInv
<1>15. ASSUME NEW s \in Sessions, CancelTask(s) PROVE SeenInv'
  <2> SUFFICES ASSUME NEW u \in Sessions, pc'[u] # "idle" PROVE Current(u)'
    BY DEF SeenInv
  <2>1. at[s] \in Incidents /\ pc[s] # "idle"
    BY <1>15 DEF CancelTask, ServesTask
  <2>2. u # s /\ pc[u] # "idle" /\ at'[u] = at[u] /\ seen'[u] = seen[u]
    BY <1>15 DEF CancelTask, TaskBecomes, Ends
  <2>3. at[u] \in Incidents /\ at[u] # at[s]
    BY <2>1, <2>2
  <2>4. tasks'[at[u]] = tasks[at[u]] /\ UNCHANGED <<status, marks>>
    BY <1>15, <2>3 DEF CancelTask, TaskBecomes, Ends, incident
  <2>5. \A k \in tasks[at[u]] : taskStatus'[k] = taskStatus[k]
    <3>1. want[s] \in tasks[at[s]]
      BY <1>15 DEF CancelTask, ServesTask
    <3>2. \A k \in tasks[at[u]] : k # want[s] /\ k \in Tasks
      BY <2>1, <2>3, <3>1 DEF NumberInv
    <3> QED
      BY <1>15, <3>2 DEF CancelTask, TaskBecomes
  <2> QED
    BY <2>2, <2>3, <2>4, <2>5 DEF SeenInv
<1>16. CASE UNCHANGED vars
  BY <1>16 DEF vars, session, incident, taskTable
<1> QED
  BY <1>1, <1>2, <1>3, <1>4, <1>5, <1>6, <1>7, <1>8, <1>9, <1>10, <1>11, <1>12, <1>13, <1>14, <1>15, <1>16 DEF Next, Serve

(* A new task takes the next number. *)
LEMMA NumberStep == TypeOK /\ NumberInv /\ [Next]_vars => NumberInv'
<1> SUFFICES ASSUME TypeOK, NumberInv, [Next]_vars PROVE NumberInv'
  OBVIOUS
<1> USE IdLimitAssumption DEF TypeOK, NumberInv, Tasks, Finished, OpenStatus
<1>1. ASSUME NEW s \in Sessions, Request(s) PROVE NumberInv'
  BY <1>1 DEF Request, Free, View, session, incident, taskTable
<1>2. ASSUME NEW s \in Sessions, LockTask(s) PROVE NumberInv'
  BY <1>2 DEF LockTask, session, incident, taskTable
<1>3. ASSUME NEW s \in Sessions, Refuse(s) PROVE NumberInv'
  BY <1>3 DEF Refuse, Serves, Ends, session, incident, taskTable
<1>4. ASSUME NEW s \in Sessions, Acknowledge(s) PROVE NumberInv'
  BY <1>4 DEF Acknowledge, Mark, Event, Serves, Ends, session, incident, taskTable
<1>5. ASSUME NEW s \in Sessions, Assign(s) PROVE NumberInv'
  BY <1>5 DEF Assign, Mark, Serves, Ends, session, incident, taskTable
<1>6. ASSUME NEW s \in Sessions, ReturnToInvestigation(s) PROVE NumberInv'
  BY <1>6 DEF ReturnToInvestigation, Status, Event, Serves, Ends, session, incident, taskTable
<1>7. ASSUME NEW s \in Sessions, RequestApproval(s) PROVE NumberInv'
  BY <1>7 DEF RequestApproval, Status, Event, Serves, Ends, session, incident, taskTable
<1>8. ASSUME NEW s \in Sessions, StartResponse(s) PROVE NumberInv'
  BY <1>8 DEF StartResponse, ManagesTasks, Status, Mark, Event, Serves, Ends, session, incident, taskTable
<1>9. ASSUME NEW s \in Sessions, Resolve(s) PROVE NumberInv'
  BY <1>9 DEF Resolve, Close, Status, Event, Serves, Ends, session, incident, taskTable
<1>10. ASSUME NEW s \in Sessions, FalseAlarm(s) PROVE NumberInv'
  BY <1>10 DEF FalseAlarm, Close, Status, Event, Serves, Ends, session, incident, taskTable
<1>11. ASSUME NEW s \in Sessions, Reopen(s) PROVE NumberInv'
  BY <1>11 DEF Reopen, Status, Event, Serves, Ends, session, incident, taskTable
<1>12. ASSUME NEW s \in Sessions, CreateTask(s) PROVE NumberInv'
  BY <1>12 DEF CreateTask, ManagesTasks, Serves, Ends, session, incident, taskTable
<1>13. ASSUME NEW s \in Sessions, StartTask(s) PROVE NumberInv'
  BY <1>13 DEF StartTask, ServesTask, ManagesTasks, TaskBecomes, Ends, session, incident, taskTable
<1>14. ASSUME NEW s \in Sessions, CompleteTask(s) PROVE NumberInv'
  BY <1>14 DEF CompleteTask, ServesTask, ManagesTasks, TaskBecomes, Ends, session, incident, taskTable
<1>15. ASSUME NEW s \in Sessions, CancelTask(s) PROVE NumberInv'
  BY <1>15 DEF CancelTask, ServesTask, ManagesTasks, TaskBecomes, Ends, session, incident, taskTable
<1>16. CASE UNCHANGED vars
  BY <1>16 DEF vars, session, incident, taskTable
<1> QED
  BY <1>1, <1>2, <1>3, <1>4, <1>5, <1>6, <1>7, <1>8, <1>9, <1>10, <1>11, <1>12, <1>13, <1>14, <1>15, <1>16 DEF Next, Serve

(* A resolution leaves no open task unnoticed, and no task opens under it. *)
LEMMA ClosedStep == TypeOK /\ SeenInv /\ NumberInv /\ ClosedKnowingly /\ [Next]_vars => ClosedKnowingly'
<1> SUFFICES ASSUME TypeOK, SeenInv, NumberInv, ClosedKnowingly, [Next]_vars PROVE ClosedKnowingly'
  OBVIOUS
<1> USE DEF TypeOK, SeenInv, Current, ClosedKnowingly, Active, OpenStatus
<1>1. ASSUME NEW s \in Sessions, Request(s) PROVE ClosedKnowingly'
  BY <1>1 DEF Request, Free, View, session, incident, taskTable
<1>2. ASSUME NEW s \in Sessions, LockTask(s) PROVE ClosedKnowingly'
  BY <1>2 DEF LockTask, session, incident, taskTable
<1>3. ASSUME NEW s \in Sessions, Refuse(s) PROVE ClosedKnowingly'
  BY <1>3 DEF Refuse, Serves, Ends, session, incident, taskTable
<1>4. ASSUME NEW s \in Sessions, Acknowledge(s) PROVE ClosedKnowingly'
  BY <1>4 DEF Acknowledge, Mark, Event, Serves, Ends, session, incident, taskTable
<1>5. ASSUME NEW s \in Sessions, Assign(s) PROVE ClosedKnowingly'
  BY <1>5 DEF Assign, Mark, Serves, Ends, session, incident, taskTable
<1>6. ASSUME NEW s \in Sessions, ReturnToInvestigation(s) PROVE ClosedKnowingly'
  BY <1>6 DEF ReturnToInvestigation, Status, Event, Serves, Ends, session, incident, taskTable
<1>7. ASSUME NEW s \in Sessions, RequestApproval(s) PROVE ClosedKnowingly'
  BY <1>7 DEF RequestApproval, Status, Event, Serves, Ends, session, incident, taskTable
<1>8. ASSUME NEW s \in Sessions, StartResponse(s) PROVE ClosedKnowingly'
  BY <1>8 DEF StartResponse, ManagesTasks, Status, Mark, Event, Serves, Ends, session, incident, taskTable
<1>9. ASSUME NEW s \in Sessions, Resolve(s) PROVE ClosedKnowingly'
  BY <1>9 DEF Resolve, Close, Status, Event, Serves, Ends, session, incident, taskTable
<1>10. ASSUME NEW s \in Sessions, FalseAlarm(s) PROVE ClosedKnowingly'
  BY <1>10 DEF FalseAlarm, Close, Status, Event, Serves, Ends, session, incident, taskTable
<1>11. ASSUME NEW s \in Sessions, Reopen(s) PROVE ClosedKnowingly'
  BY <1>11 DEF Reopen, Status, Event, Serves, Ends, session, incident, taskTable
<1>12. ASSUME NEW s \in Sessions, CreateTask(s) PROVE ClosedKnowingly'
  <2> SUFFICES ASSUME NEW i \in Incidents \ waived, status[i] = "resolved" PROVE \A k \in tasks'[i] : taskStatus'[k] \notin OpenStatus
    BY <1>12 DEF CreateTask, incident, ClosedKnowingly
  <2>1. at[s] \in Incidents /\ status[at[s]] = "investigating"
    BY <1>12 DEF CreateTask, Serves, ManagesTasks
  <2>2. tasks'[i] = tasks[i]
    BY <1>12, <2>1 DEF CreateTask
  <2>3. seen[s].next = created + 1 /\ created \in Nat
    BY <1>12 DEF CreateTask, Tasks
  <2>4. \A k \in tasks[i] : k # seen[s].next /\ k \in Tasks
    BY <2>3 DEF NumberInv, Tasks
  <2>5. \A k \in tasks[i] : taskStatus'[k] = taskStatus[k]
    BY <1>12, <2>4 DEF CreateTask
  <2> QED
    BY <2>2, <2>5 DEF ClosedKnowingly
<1>13. ASSUME NEW s \in Sessions, StartTask(s) PROVE ClosedKnowingly'
  BY <1>13 DEF StartTask, ServesTask, ManagesTasks, TaskBecomes, Ends, session, incident, taskTable
<1>14. ASSUME NEW s \in Sessions, CompleteTask(s) PROVE ClosedKnowingly'
  BY <1>14 DEF CompleteTask, ServesTask, ManagesTasks, TaskBecomes, Ends, session, incident, taskTable
<1>15. ASSUME NEW s \in Sessions, CancelTask(s) PROVE ClosedKnowingly'
  BY <1>15 DEF CancelTask, ServesTask, ManagesTasks, TaskBecomes, Ends, session, incident, taskTable
<1>16. CASE UNCHANGED vars
  BY <1>16 DEF vars, session, incident, taskTable
<1> QED
  BY <1>1, <1>2, <1>3, <1>4, <1>5, <1>6, <1>7, <1>8, <1>9, <1>10, <1>11, <1>12, <1>13, <1>14, <1>15, <1>16 DEF Next, Serve

(* Every change of the row has its event. *)
LEMMA TimelineStep == TypeOK /\ SeenInv /\ TimelineTruth /\ [Next]_vars => TimelineTruth'
<1> SUFFICES ASSUME TypeOK, SeenInv, TimelineTruth, [Next]_vars PROVE TimelineTruth'
  OBVIOUS
<1> USE DEF TypeOK, SeenInv, Current, TimelineTruth, Active, Statuses, Marks, Facts
<1>1. ASSUME NEW s \in Sessions, Request(s) PROVE TimelineTruth'
  BY <1>1 DEF Request, Free, View, session, incident, taskTable
<1>2. ASSUME NEW s \in Sessions, LockTask(s) PROVE TimelineTruth'
  BY <1>2 DEF LockTask, session, incident, taskTable
<1>3. ASSUME NEW s \in Sessions, Refuse(s) PROVE TimelineTruth'
  BY <1>3 DEF Refuse, Serves, Ends, session, incident, taskTable
<1>4. ASSUME NEW s \in Sessions, Acknowledge(s) PROVE TimelineTruth'
  BY <1>4 DEF Acknowledge, Mark, Event, Serves, Ends, session, incident, taskTable
<1>5. ASSUME NEW s \in Sessions, Assign(s) PROVE TimelineTruth'
  BY <1>5 DEF Assign, Mark, Serves, Ends, session, incident, taskTable
<1>6. ASSUME NEW s \in Sessions, ReturnToInvestigation(s) PROVE TimelineTruth'
  BY <1>6 DEF ReturnToInvestigation, Status, Event, Serves, Ends, session, incident, taskTable
<1>7. ASSUME NEW s \in Sessions, RequestApproval(s) PROVE TimelineTruth'
  BY <1>7 DEF RequestApproval, Status, Event, Serves, Ends, session, incident, taskTable
<1>8. ASSUME NEW s \in Sessions, StartResponse(s) PROVE TimelineTruth'
  BY <1>8 DEF StartResponse, ManagesTasks, Status, Mark, Event, Serves, Ends, session, incident, taskTable
<1>9. ASSUME NEW s \in Sessions, Resolve(s) PROVE TimelineTruth'
  BY <1>9 DEF Resolve, Close, Status, Event, Serves, Ends, session, incident, taskTable
<1>10. ASSUME NEW s \in Sessions, FalseAlarm(s) PROVE TimelineTruth'
  BY <1>10 DEF FalseAlarm, Close, Status, Event, Serves, Ends, session, incident, taskTable
<1>11. ASSUME NEW s \in Sessions, Reopen(s) PROVE TimelineTruth'
  BY <1>11 DEF Reopen, Status, Event, Serves, Ends, session, incident, taskTable
<1>12. ASSUME NEW s \in Sessions, CreateTask(s) PROVE TimelineTruth'
  BY <1>12 DEF CreateTask, ManagesTasks, Serves, Ends, session, incident, taskTable
<1>13. ASSUME NEW s \in Sessions, StartTask(s) PROVE TimelineTruth'
  BY <1>13 DEF StartTask, ServesTask, ManagesTasks, TaskBecomes, Ends, session, incident, taskTable
<1>14. ASSUME NEW s \in Sessions, CompleteTask(s) PROVE TimelineTruth'
  BY <1>14 DEF CompleteTask, ServesTask, ManagesTasks, TaskBecomes, Ends, session, incident, taskTable
<1>15. ASSUME NEW s \in Sessions, CancelTask(s) PROVE TimelineTruth'
  BY <1>15 DEF CancelTask, ServesTask, ManagesTasks, TaskBecomes, Ends, session, incident, taskTable
<1>16. CASE UNCHANGED vars
  BY <1>16 DEF vars, session, incident, taskTable
<1> QED
  BY <1>1, <1>2, <1>3, <1>4, <1>5, <1>6, <1>7, <1>8, <1>9, <1>10, <1>11, <1>12, <1>13, <1>14, <1>15, <1>16 DEF Next, Serve

(* A response is started with an operator assigned, who stays. *)
LEMMA AssignedStep == TypeOK /\ SeenInv /\ ResponseAssigned /\ [Next]_vars => ResponseAssigned'
<1> SUFFICES ASSUME TypeOK, SeenInv, ResponseAssigned, [Next]_vars PROVE ResponseAssigned'
  OBVIOUS
<1> USE DEF TypeOK, SeenInv, Current, ResponseAssigned
<1>1. ASSUME NEW s \in Sessions, Request(s) PROVE ResponseAssigned'
  BY <1>1 DEF Request, Free, View, session, incident, taskTable
<1>2. ASSUME NEW s \in Sessions, LockTask(s) PROVE ResponseAssigned'
  BY <1>2 DEF LockTask, session, incident, taskTable
<1>3. ASSUME NEW s \in Sessions, Refuse(s) PROVE ResponseAssigned'
  BY <1>3 DEF Refuse, Serves, Ends, session, incident, taskTable
<1>4. ASSUME NEW s \in Sessions, Acknowledge(s) PROVE ResponseAssigned'
  BY <1>4 DEF Acknowledge, Mark, Event, Serves, Ends, session, incident, taskTable
<1>5. ASSUME NEW s \in Sessions, Assign(s) PROVE ResponseAssigned'
  BY <1>5 DEF Assign, Mark, Serves, Ends, session, incident, taskTable
<1>6. ASSUME NEW s \in Sessions, ReturnToInvestigation(s) PROVE ResponseAssigned'
  BY <1>6 DEF ReturnToInvestigation, Status, Event, Serves, Ends, session, incident, taskTable
<1>7. ASSUME NEW s \in Sessions, RequestApproval(s) PROVE ResponseAssigned'
  BY <1>7 DEF RequestApproval, Status, Event, Serves, Ends, session, incident, taskTable
<1>8. ASSUME NEW s \in Sessions, StartResponse(s) PROVE ResponseAssigned'
  BY <1>8 DEF StartResponse, ManagesTasks, Status, Mark, Event, Serves, Ends, session, incident, taskTable
<1>9. ASSUME NEW s \in Sessions, Resolve(s) PROVE ResponseAssigned'
  BY <1>9 DEF Resolve, Close, Status, Event, Serves, Ends, session, incident, taskTable
<1>10. ASSUME NEW s \in Sessions, FalseAlarm(s) PROVE ResponseAssigned'
  BY <1>10 DEF FalseAlarm, Close, Status, Event, Serves, Ends, session, incident, taskTable
<1>11. ASSUME NEW s \in Sessions, Reopen(s) PROVE ResponseAssigned'
  BY <1>11 DEF Reopen, Status, Event, Serves, Ends, session, incident, taskTable
<1>12. ASSUME NEW s \in Sessions, CreateTask(s) PROVE ResponseAssigned'
  BY <1>12 DEF CreateTask, ManagesTasks, Serves, Ends, session, incident, taskTable
<1>13. ASSUME NEW s \in Sessions, StartTask(s) PROVE ResponseAssigned'
  BY <1>13 DEF StartTask, ServesTask, ManagesTasks, TaskBecomes, Ends, session, incident, taskTable
<1>14. ASSUME NEW s \in Sessions, CompleteTask(s) PROVE ResponseAssigned'
  BY <1>14 DEF CompleteTask, ServesTask, ManagesTasks, TaskBecomes, Ends, session, incident, taskTable
<1>15. ASSUME NEW s \in Sessions, CancelTask(s) PROVE ResponseAssigned'
  BY <1>15 DEF CancelTask, ServesTask, ManagesTasks, TaskBecomes, Ends, session, incident, taskTable
<1>16. CASE UNCHANGED vars
  BY <1>16 DEF vars, session, incident, taskTable
<1> QED
  BY <1>1, <1>2, <1>3, <1>4, <1>5, <1>6, <1>7, <1>8, <1>9, <1>10, <1>11, <1>12, <1>13, <1>14, <1>15, <1>16 DEF Next, Serve

KeepStep ==
  /\ \A k \in Tasks : taskStatus[k] \in Finished => taskStatus'[k] = taskStatus[k]
  /\ \A i \in Incidents : tasks[i] \subseteq tasks'[i]

(* No step touches a finished task or takes a task away. *)
LEMMA KeptStep == TypeOK /\ NumberInv /\ [Next]_vars => KeepStep
<1> SUFFICES ASSUME TypeOK, NumberInv, [Next]_vars PROVE KeepStep
  OBVIOUS
<1> USE DEF KeepStep, TypeOK, NumberInv, Finished, OpenStatus
<1>1. ASSUME NEW s \in Sessions, Request(s) PROVE KeepStep
  BY <1>1 DEF Request, Free, View, session, incident, taskTable
<1>2. ASSUME NEW s \in Sessions, LockTask(s) PROVE KeepStep
  BY <1>2 DEF LockTask, session, incident, taskTable
<1>3. ASSUME NEW s \in Sessions, Refuse(s) PROVE KeepStep
  BY <1>3 DEF Refuse, Serves, Ends, session, incident, taskTable
<1>4. ASSUME NEW s \in Sessions, Acknowledge(s) PROVE KeepStep
  BY <1>4 DEF Acknowledge, Mark, Event, Serves, Ends, session, incident, taskTable
<1>5. ASSUME NEW s \in Sessions, Assign(s) PROVE KeepStep
  BY <1>5 DEF Assign, Mark, Serves, Ends, session, incident, taskTable
<1>6. ASSUME NEW s \in Sessions, ReturnToInvestigation(s) PROVE KeepStep
  BY <1>6 DEF ReturnToInvestigation, Status, Event, Serves, Ends, session, incident, taskTable
<1>7. ASSUME NEW s \in Sessions, RequestApproval(s) PROVE KeepStep
  BY <1>7 DEF RequestApproval, Status, Event, Serves, Ends, session, incident, taskTable
<1>8. ASSUME NEW s \in Sessions, StartResponse(s) PROVE KeepStep
  BY <1>8 DEF StartResponse, ManagesTasks, Status, Mark, Event, Serves, Ends, session, incident, taskTable
<1>9. ASSUME NEW s \in Sessions, Resolve(s) PROVE KeepStep
  BY <1>9 DEF Resolve, Close, Status, Event, Serves, Ends, session, incident, taskTable
<1>10. ASSUME NEW s \in Sessions, FalseAlarm(s) PROVE KeepStep
  BY <1>10 DEF FalseAlarm, Close, Status, Event, Serves, Ends, session, incident, taskTable
<1>11. ASSUME NEW s \in Sessions, Reopen(s) PROVE KeepStep
  BY <1>11 DEF Reopen, Status, Event, Serves, Ends, session, incident, taskTable
<1>12. ASSUME NEW s \in Sessions, CreateTask(s) PROVE KeepStep
  BY <1>12 DEF CreateTask, ManagesTasks, Serves, Ends, session, incident, taskTable
<1>13. ASSUME NEW s \in Sessions, StartTask(s) PROVE KeepStep
  BY <1>13 DEF StartTask, ServesTask, ManagesTasks, TaskBecomes, Ends, session, incident, taskTable
<1>14. ASSUME NEW s \in Sessions, CompleteTask(s) PROVE KeepStep
  BY <1>14 DEF CompleteTask, ServesTask, ManagesTasks, TaskBecomes, Ends, session, incident, taskTable
<1>15. ASSUME NEW s \in Sessions, CancelTask(s) PROVE KeepStep
  BY <1>15 DEF CancelTask, ServesTask, ManagesTasks, TaskBecomes, Ends, session, incident, taskTable
<1>16. CASE UNCHANGED vars
  BY <1>16 DEF vars, session, incident, taskTable
<1> QED
  BY <1>1, <1>2, <1>3, <1>4, <1>5, <1>6, <1>7, <1>8, <1>9, <1>10, <1>11, <1>12, <1>13, <1>14, <1>15, <1>16 DEF Next, Serve

(* The inductive invariant holds throughout. *)
THEOREM InductiveInvariant == Spec => []IInv
<1>1. Init => IInv
  <2> SUFFICES ASSUME Init PROVE IInv
    OBVIOUS
  <2>1. TypeOK
    BY NothingType DEF Init, TypeOK, Statuses, Active, Marks, Codes, Facts
  <2>2. LockInv /\ SeenInv /\ NumberInv
    BY DEF Init, LockInv, SeenInv, NumberInv, Tasks
  <2>3. ClosedKnowingly /\ TimelineTruth /\ ResponseAssigned
    BY DEF Init, ClosedKnowingly, TimelineTruth, ResponseAssigned
  <2> QED
    BY <2>1, <2>2, <2>3 DEF IInv
<1>2. IInv /\ [Next]_vars => IInv'
  BY TypeStep, LockStep, SeenStep, NumberStep, ClosedStep, TimelineStep, AssignedStep DEF IInv
<1> QED
  BY <1>1, <1>2, PTL DEF Spec

(* Type correctness (TypeOK): rows, tasks and sessions keep their types for any
   number of requests at a time and any limit of task numbers. *)
THEOREM TypeCorrect == Spec => []TypeOK
<1>1. IInv => TypeOK
  BY DEF IInv
<1> QED
  BY <1>1, InductiveInvariant, PTL

(* No interleaving of requests slips an open task under a resolution (resolve). *)
THEOREM ResolutionsKnow == Spec => []ClosedKnowingly
<1>1. IInv => ClosedKnowingly
  BY DEF IInv
<1> QED
  BY <1>1, InductiveInvariant, PTL

(* The row always says what the timeline says (_append_event). *)
THEOREM TimelineTells == Spec => []TimelineTruth
<1>1. IInv => TimelineTruth
  BY DEF IInv
<1> QED
  BY <1>1, InductiveInvariant, PTL

(* A response runs under an assigned operator (start_response, reopen). *)
THEOREM ResponsesAssigned == Spec => []ResponseAssigned
<1>1. IInv => ResponseAssigned
  BY DEF IInv
<1> QED
  BY <1>1, InductiveInvariant, PTL

(* Finished tasks and the tasks of an incident are never changed or lost
   (complete_task, cancel_task, create_task). *)
THEOREM TasksStay == Spec => TasksKept
<1>1. IInv /\ [Next]_vars => KeepStep
  BY KeptStep DEF IInv
<1> QED
  BY <1>1, InductiveInvariant, PTL DEF Spec, TasksKept, KeepStep

-----------------------------------------------------------------------------
(***************************************************************************)
(* IncidentDesk: what a request reads under its locks is still so at its   *)
(* commit, so that the commit is the request.                              *)
(***************************************************************************)
\* What a session has read of its incident is so.
LEMMA DeskReads ==
  ASSUME IInv, NEW s \in Sessions, pc[s] # "idle"
  PROVE  /\ at[s] \in Incidents
         /\ seen[s].status = status[at[s]] /\ seen[s].marks = marks[at[s]]
         /\ seen[s].open = {k \in tasks[at[s]] : taskStatus[k] \in OpenStatus}
BY DEF IInv, TypeOK, SeenInv, Current

\* The desk's tasks, and a request that writes none.
LEMMA DeskTasks == \A i \in Incidents : \A X : Having(X)[i] = {k \in tasks[i] : taskStatus[k] \in X}
BY DEF Having

LEMMA DeskQuiet == ASSUME UNCHANGED taskTable PROVE UNCHANGED Desk!board
BY DEF taskTable, Desk!board, Having

LEMMA DeskAcknowledge == ASSUME IInv, NEW s \in Sessions, Acknowledge(s) PROVE Desk!DeskNext
<1>1. pc[s] # "idle" /\ UNCHANGED taskTable
  BY DEF Acknowledge, Serves
<1>2. Desk!Acknowledge(at[s])
  BY <1>1, DeskReads, DeskQuiet DEF Acknowledge, Mark, Desk!Acknowledge, Desk!Marks
<1> QED
  BY <1>1, <1>2, DeskReads DEF Desk!DeskNext

LEMMA DeskAssign == ASSUME IInv, NEW s \in Sessions, Assign(s) PROVE Desk!DeskNext
<1>1. pc[s] # "idle" /\ UNCHANGED taskTable
  BY DEF Assign, Serves
<1>2. Desk!Assign(at[s])
  BY <1>1, DeskReads, DeskQuiet DEF Assign, Mark, Active, Desk!Assign, Desk!Marks, Desk!Worked
<1> QED
  BY <1>1, <1>2, DeskReads DEF Desk!DeskNext

LEMMA DeskRequestApproval == ASSUME IInv, NEW s \in Sessions, RequestApproval(s) PROVE Desk!DeskNext
<1>1. pc[s] # "idle" /\ UNCHANGED taskTable
  BY DEF RequestApproval, Serves
<1>2. Desk!RequestApproval(at[s])
  BY <1>1, DeskReads, DeskQuiet DEF RequestApproval, Status, Desk!RequestApproval, Desk!Passes
<1> QED
  BY <1>1, <1>2, DeskReads DEF Desk!DeskNext

LEMMA DeskReturnToInvestigation == ASSUME IInv, NEW s \in Sessions, ReturnToInvestigation(s) PROVE Desk!DeskNext
<1>1. pc[s] # "idle" /\ UNCHANGED taskTable
  BY DEF ReturnToInvestigation, Serves
<1>2. Desk!ReturnToInvestigation(at[s])
  BY <1>1, DeskReads, DeskQuiet DEF ReturnToInvestigation, Status, Desk!ReturnToInvestigation, Desk!Passes
<1> QED
  BY <1>1, <1>2, DeskReads DEF Desk!DeskNext

LEMMA DeskStartResponse == ASSUME IInv, NEW s \in Sessions, StartResponse(s) PROVE Desk!DeskNext
<1>1. pc[s] # "idle" /\ UNCHANGED taskTable
  BY DEF StartResponse, Serves
<1>2. Desk!StartResponse(at[s])
  BY <1>1, DeskReads, DeskQuiet DEF StartResponse, Status, Mark, Active, ManagesTasks, Desk!StartResponse, Desk!Passes, Desk!Marks, Desk!Worked, Desk!Responding
<1> QED
  BY <1>1, <1>2, DeskReads DEF Desk!DeskNext

LEMMA DeskResolve == ASSUME IInv, NEW s \in Sessions, Resolve(s) PROVE Desk!DeskNext
<1>1. pc[s] # "idle" /\ UNCHANGED taskTable
  BY DEF Resolve, Serves, Close
<1>2. Desk!Close(at[s], "other")
  BY <1>1, DeskReads, DeskQuiet, DeskTasks DEF Resolve, Close, Status, Active, OpenStatus, Desk!Close, Desk!Passes, Desk!Worked
<1> QED
  BY <1>1, <1>2, DeskReads DEF Desk!DeskNext

LEMMA DeskFalseAlarm == ASSUME IInv, NEW s \in Sessions, FalseAlarm(s) PROVE Desk!DeskNext
<1>1. pc[s] # "idle" /\ UNCHANGED taskTable
  BY DEF FalseAlarm, Serves, Close
<1>2. Desk!Close(at[s], "false_alarm")
  BY <1>1, DeskReads, DeskQuiet DEF FalseAlarm, Close, Status, Active, Desk!Close, Desk!Passes, Desk!Worked
<1> QED
  BY <1>1, <1>2, DeskReads DEF Desk!DeskNext

LEMMA DeskReopen == ASSUME IInv, NEW s \in Sessions, Reopen(s) PROVE Desk!DeskNext
<1>1. pc[s] # "idle" /\ UNCHANGED taskTable
  BY DEF Reopen, Serves
<1>2. Desk!Reopen(at[s])
  BY <1>1, DeskReads, DeskQuiet DEF Reopen, Status, Desk!Reopen, Desk!Passes
<1> QED
  BY <1>1, <1>2, DeskReads DEF Desk!DeskNext

\* A task's request writes the tasks of one incident.
Spares(i) == \A j \in Incidents \ {i} : tasks'[j] = tasks[j] /\ \A k \in tasks[j] : taskStatus'[k] = taskStatus[k]

LEMMA DeskServes ==
  ASSUME NEW i \in Incidents, NEW k \in Tasks, Desk!AddTask(i, k) \/ Desk!StartTask(i, k) \/ Desk!FinishTask(i, k)
  PROVE  Desk!DeskNext
<1>1. \E n \in Tasks : Desk!AddTask(i, n) \/ Desk!StartTask(i, n) \/ Desk!FinishTask(i, n)
  OBVIOUS
<1> QED
  BY <1>1 DEF Desk!DeskNext

\* It moves a task of the incident that it holds, and of none besides.
LEMMA DeskMovesTask ==
  ASSUME IInv, NEW s \in Sessions, ServesTask(s), NEW x, TaskBecomes(s, x), NEW X
  PROVE  Having(X)' = [Having(X) EXCEPT ![at[s]] = IF x \in X THEN @ \union {want[s]} ELSE @ \ {want[s]}]
<1>0. PICK i, k, T : i = at[s] /\ k = want[s] /\ T = IF x \in X THEN Having(X)[i] \union {k} ELSE Having(X)[i] \ {k}
  OBVIOUS
<1>1. i \in Incidents /\ k \in tasks[i] /\ taskStatus' = [taskStatus EXCEPT ![k] = x] /\ tasks' = tasks
  BY <1>0, DeskReads DEF ServesTask, TaskBecomes
<1>2. tasks[i] \subseteq Tasks /\ DOMAIN taskStatus = Tasks
  BY <1>1 DEF IInv, TypeOK
<1>3. Spares(i)
  BY <1>1 DEF IInv, NumberInv, TypeOK, Spares
<1>4. Having(X)[i] = {n \in tasks[i] : taskStatus[n] \in X}
  BY <1>1, DeskTasks
<1>5. {n \in tasks'[i] : taskStatus'[n] \in X} = T
  BY <1>0, <1>1, <1>2, <1>4
<1>6. Having(X)' = [Having(X) EXCEPT ![i] = T]
  BY <1>1, <1>3, <1>5 DEF Having, Spares
<1> QED
  BY <1>0, <1>6

\* What guards a request for a task.
LEMMA DeskTask ==
  ASSUME IInv, NEW s \in Sessions, ServesTask(s), ManagesTasks(s)
  PROVE  /\ at[s] \in Incidents /\ want[s] \in Tasks /\ Desk!Responding(at[s])
         /\ \A X : want[s] \in Having(X)[at[s]] <=> taskStatus[want[s]] \in X
<1>1. pc[s] # "idle" /\ want[s] \in tasks[at[s]]
  BY DEF ServesTask
<1>2. at[s] \in Incidents /\ seen[s].status = status[at[s]] /\ seen[s].marks = marks[at[s]]
  BY <1>1, DeskReads
<1>3. want[s] \in Tasks
  BY <1>1, <1>2 DEF IInv, TypeOK
<1>4. \A X : want[s] \in Having(X)[at[s]] <=> taskStatus[want[s]] \in X
  BY <1>1, <1>2, DeskTasks
<1> QED
  BY <1>2, <1>3, <1>4 DEF ManagesTasks, Desk!Responding

LEMMA DeskStartTask == ASSUME IInv, NEW s \in Sessions, StartTask(s) PROVE Desk!DeskNext
<1>0. PICK i, k : i = at[s] /\ k = want[s]
  OBVIOUS
<1>1. ServesTask(s) /\ ManagesTasks(s) /\ taskStatus[k] = "todo" /\ TaskBecomes(s, "in_progress")
  BY <1>0 DEF StartTask
<1>2. /\ i \in Incidents /\ k \in Tasks /\ Desk!Responding(i)
      /\ \A X : k \in Having(X)[i] <=> taskStatus[k] \in X
  BY <1>0, <1>1, DeskTask
<1>3. \A X : Having(X)' = [Having(X) EXCEPT ![i] = IF "in_progress" \in X THEN @ \union {k} ELSE @ \ {k}]
  BY <1>0, <1>1, DeskMovesTask
<1>4. UNCHANGED incident
  BY <1>1 DEF TaskBecomes
<1>5. Desk!Leaves(Having({"todo"}), i, k) /\ Desk!Joins(Having({"in_progress"}), i, k)
  BY <1>3 DEF Desk!Leaves, Desk!Joins
<1>6. Having(Finished)' = Having(Finished)
  <2>1. Having(Finished)[i] \ {k} = Having(Finished)[i] /\ "in_progress" \notin Finished
    BY <1>1, <1>2 DEF Finished
  <2>2. DOMAIN Having(Finished) = Incidents /\ Having(Finished) = [j \in Incidents |-> Having(Finished)[j]]
    BY DEF Having
  <2>3. Having(Finished)' = [Having(Finished) EXCEPT ![i] = Having(Finished)[i] \ {k}]
    BY <1>3, <2>1
  <2> QED
    BY <2>1, <2>2, <2>3
<1>7. Desk!StartTask(i, k)
  BY <1>1, <1>2, <1>4, <1>5, <1>6 DEF incident, Desk!StartTask
<1> QED
  BY <1>2, <1>7, DeskServes

LEMMA DeskFinishTask == ASSUME IInv, NEW s \in Sessions, CompleteTask(s) \/ CancelTask(s) PROVE Desk!DeskNext
<1>0. PICK i, k : i = at[s] /\ k = want[s]
  OBVIOUS
<1>1. PICK x \in Finished : ServesTask(s) /\ ManagesTasks(s) /\ taskStatus[k] \in OpenStatus /\ TaskBecomes(s, x)
  BY <1>0 DEF CompleteTask, CancelTask, Finished
<1>2. /\ i \in Incidents /\ k \in Tasks /\ Desk!Responding(i)
      /\ \A X : k \in Having(X)[i] <=> taskStatus[k] \in X
  BY <1>0, <1>1, DeskTask
<1>3. \A X : Having(X)' = [Having(X) EXCEPT ![i] = IF x \in X THEN @ \union {k} ELSE @ \ {k}]
  BY <1>0, <1>1, DeskMovesTask
<1>4. UNCHANGED incident
  BY <1>1 DEF TaskBecomes
<1>5. x # "todo" /\ x # "in_progress"
  BY <1>1 DEF Finished
<1>6. Desk!Leaves(Having({"todo"}), i, k) /\ Desk!Leaves(Having({"in_progress"}), i, k) /\ Desk!Joins(Having(Finished), i, k)
  BY <1>1, <1>3, <1>5 DEF Desk!Leaves, Desk!Joins
<1>7. k \in Having({"todo"})[i] \union Having({"in_progress"})[i]
  BY <1>1, <1>2 DEF OpenStatus
<1>8. Desk!FinishTask(i, k)
  BY <1>2, <1>4, <1>6, <1>7 DEF incident, Desk!FinishTask
<1> QED
  BY <1>2, <1>8, DeskServes

LEMMA DeskCreateTask == ASSUME IInv, NEW s \in Sessions, CreateTask(s) PROVE Desk!DeskNext
<1>0. PICK i, k : i = at[s] /\ k = created + 1
  OBVIOUS
<1>1. /\ pc[s] # "idle" /\ ManagesTasks(s) /\ k = seen[s].next /\ UNCHANGED incident
      /\ tasks' = [tasks EXCEPT ![i] = @ \union {k}] /\ taskStatus' = [taskStatus EXCEPT ![k] = "todo"]
  BY <1>0 DEF CreateTask, Serves
<1>2. i \in Incidents /\ seen[s].status = status[i] /\ seen[s].marks = marks[i] /\ k \in Tasks
  BY <1>0, <1>1, DeskReads DEF IInv, TypeOK, Views
<1>3. Desk!Responding(i)
  BY <1>1, <1>2 DEF ManagesTasks, Desk!Responding
<1>4. \A j \in Incidents : k \notin tasks[j] /\ tasks[j] \subseteq Tasks
  <2>1. created \in Int
    BY IdLimitAssumption DEF IInv, TypeOK, Tasks
  <2>2. \A j \in Incidents : tasks[j] \subseteq Tasks /\ \A n \in tasks[j] : n <= created
    BY DEF IInv, TypeOK, NumberInv
  <2> QED
    BY <1>0, <2>1, <2>2
<1>5. DOMAIN taskStatus = Tasks /\ DOMAIN tasks = Incidents
  BY DEF IInv, TypeOK
<1>6. Spares(i)
  BY <1>1, <1>2, <1>4, <1>5 DEF Spares
<1>7. ASSUME NEW X, "todo" \notin X PROVE Having(X)' = Having(X)
  <2>1. {n \in tasks'[i] : taskStatus'[n] \in X} = {n \in tasks[i] : taskStatus[n] \in X}
    BY <1>1, <1>2, <1>4, <1>5, <1>7
  <2> QED
    BY <1>6, <2>1 DEF Having, Spares
<1>8. Desk!Joins(Having({"todo"}), i, k)
  <2>1. {n \in tasks'[i] : taskStatus'[n] \in {"todo"}} = {n \in tasks[i] : taskStatus[n] \in {"todo"}} \union {k}
    BY <1>1, <1>2, <1>4, <1>5
  <2>2. Having({"todo"})[i] \union {k} = {n \in tasks[i] : taskStatus[n] \in {"todo"}} \union {k}
    BY <1>2, DeskTasks
  <2>3. Having({"todo"})' = [Having({"todo"}) EXCEPT ![i] = Having({"todo"})[i] \union {k}]
    BY <1>2, <1>6, <2>1, <2>2 DEF Having, Spares
  <2> QED
    BY <2>3 DEF Desk!Joins
<1>9. Having({"in_progress"})' = Having({"in_progress"}) /\ Having(Finished)' = Having(Finished)
  BY <1>7 DEF Finished
<1>10. \A j \in Incidents : k \notin Having({"todo"})[j] \union Having({"in_progress"})[j] \union Having(Finished)[j]
  BY <1>4, DeskTasks
<1>11. Desk!AddTask(i, k)
  BY <1>1, <1>3, <1>8, <1>9, <1>10 DEF incident, Desk!AddTask
<1> QED
  BY <1>2, <1>11, DeskServes

LEMMA DeskStep == ASSUME IInv, [Next]_vars PROVE [Desk!DeskNext]_Desk!desk
<1>1. CASE UNCHANGED <<incident, taskTable>>
  <2>1. UNCHANGED Desk!board /\ UNCHANGED <<status, marks, code, waived>>
    BY <1>1, DeskQuiet DEF incident
  <2> QED
    BY <2>1 DEF Desk!desk
<1>2. ASSUME NEW s \in Sessions, Request(s) \/ LockTask(s) \/ Refuse(s) PROVE UNCHANGED <<incident, taskTable>>
  BY <1>2 DEF Request, LockTask, Refuse
<1>3. ASSUME NEW s \in Sessions, Serve(s), ~(LockTask(s) \/ Refuse(s)) PROVE Desk!DeskNext
  BY <1>3, DeskAcknowledge, DeskAssign, DeskReturnToInvestigation, DeskRequestApproval, DeskStartResponse,
     DeskResolve, DeskFalseAlarm, DeskReopen, DeskCreateTask, DeskStartTask, DeskFinishTask DEF Serve
<1>4. CASE UNCHANGED vars
  BY <1>1, <1>4 DEF vars
<1> QED
  BY <1>1, <1>2, <1>3, <1>4 DEF Next

LEMMA DeskStarts == Init => Desk!DeskInit
<1> SUFFICES ASSUME Init PROVE Desk!DeskInit
  OBVIOUS
<1>1. \A X : Having(X) = [i \in Incidents |-> {}]
  BY DEF Init, Having
<1> QED
  BY <1>1 DEF Init, Desk!DeskInit

\* Requests change incidents and their tasks as if each were one step that decides on what
\* it then finds, for any number of them and of tasks (operations.py, every operation):
\* whatever they have read under their locks stays true to their commits.
THEOREM OperationsImplementDesk == Spec => EachAtOnce
<1>1. IInv /\ [Next]_vars => [Desk!DeskNext]_Desk!desk
  BY DeskStep
<1> QED
  BY <1>1, InductiveInvariant, DeskStarts, PTL DEF Spec, EachAtOnce, Desk!DeskSpec

-----------------------------------------------------------------------------
(***************************************************************************)
(* Analytics: the reports count each row once.                             *)
(***************************************************************************)
(* Sums: the sum over a function's domain counts the parts it counts.       *)
One(s) == CHOOSE x \in s : TRUE
Summing(g, f, S) == g = [s \in S |-> IF s = {} THEN 0 ELSE f[One(s)] + g[s \ {One(s)}]]

LEMMA SmallestNat == ASSUME NEW T \in SUBSET Nat, T # {} PROVE \E x \in T : \A y \in T : x <= y
<1> DEFINE R == {ss \in Nat \X Nat : ss[1] < ss[2]}
<1>1. R = OpToRel(<, Nat)
  BY DEF OpToRel
<1>2. IsWellFoundedOn(R, Nat)
  BY <1>1, NatLessThanWellFounded
<1>3. ASSUME NEW x \in Nat, NEW y \in Nat, y < x PROVE <<y, x>> \in R
  BY <1>3
<1> HIDE DEF R
<1>4. PICK x \in T : \A y \in T : <<y, x>> \notin R
  BY <1>2, WFMin
<1>5. \A y \in T : ~ (y < x)
  BY <1>3, <1>4
<1> QED
  BY <1>5

\* A set of naturals with 0 and each member's successor is all of them.
LEMMA AllReached ==
  ASSUME NEW T, 0 \in T, \A n \in Nat : n \in T => n + 1 \in T
  PROVE  \A n \in Nat : n \in T
<1> DEFINE Fails == {n \in Nat : n \notin T}
<1> SUFFICES ASSUME Fails # {} PROVE FALSE
  OBVIOUS
<1>1. PICK n \in Fails : \A m \in Fails : n <= m
  BY SmallestNat
<1>2. n # 0 /\ n - 1 \in Nat
  BY <1>1
<1>3. n - 1 \in T /\ (n - 1) + 1 = n
  BY <1>1, <1>2
<1> QED
  BY <1>1, <1>2, <1>3

LEMMA OneIn == ASSUME NEW s, s # {} PROVE One(s) \in s
BY DEF One

LEMMA FewerIn ==
  ASSUME NEW D, IsFiniteSet(D), NEW s \in SUBSET D, s # {}
  PROVE  /\ s \ {One(s)} \in SUBSET D
         /\ Cardinality(s) \in Nat \ {0}
         /\ Cardinality(s \ {One(s)}) = Cardinality(s) - 1
<1>1. IsFiniteSet(s) /\ One(s) \in s
  BY FS_Subset, OneIn
<1>2. Cardinality(s) \in Nat /\ Cardinality(s) # 0
  BY <1>1, FS_CardinalityType, FS_EmptySet
<1>3. Cardinality(s \ {One(s)}) = Cardinality(s) - 1
  BY <1>1, FS_RemoveElement
<1> QED
  BY <1>2, <1>3

LEMMA NoneIn ==
  ASSUME NEW D, IsFiniteSet(D), NEW s \in SUBSET D, Cardinality(s) <= 0
  PROVE  s = {}
<1> SUFFICES ASSUME s # {} PROVE FALSE
  OBVIOUS
<1>1. PICK c \in Nat \ {0} : c = Cardinality(s)
  BY FewerIn
<1> QED
  BY <1>1

\* The sums of a finite function's restrictions are a function.
LEMMA SumsThere ==
  ASSUME NEW f, IsFiniteSet(DOMAIN f)
  PROVE  \E g : Summing(g, f, SUBSET DOMAIN f)
<1> DEFINE D == DOMAIN f
           Small(n) == {s \in SUBSET D : Cardinality(s) <= n}
           There(n) == \E g : Summing(g, f, Small(n))
<1>1. There(0)
  <2> DEFINE g == [s \in Small(0) |-> 0]
  <2>1. ASSUME NEW s \in Small(0) PROVE s = {}
    BY <2>1, NoneIn
  <2>2. g = [s \in Small(0) |-> IF s = {} THEN 0 ELSE f[One(s)] + g[s \ {One(s)}]]
    BY <2>1
  <2> QED
    BY <2>2 DEF Summing
<1>2. ASSUME NEW n \in Nat, There(n) PROVE There(n + 1)
  <2>1. PICK g : Summing(g, f, Small(n))
    BY <1>2
  <2> DEFINE h == [s \in Small(n + 1) |-> IF s = {} THEN 0 ELSE f[One(s)] + g[s \ {One(s)}]]
  <2>2. ASSUME NEW s \in Small(n + 1), s # {} PROVE h[s \ {One(s)}] = g[s \ {One(s)}]
    <3>1. s \ {One(s)} \in Small(n) /\ s \ {One(s)} \in Small(n + 1)
      <4>1. PICK c \in Nat \ {0} : c = Cardinality(s)
        BY <2>2, FewerIn
      <4>2. c <= n + 1 /\ Cardinality(s \ {One(s)}) = c - 1 /\ s \ {One(s)} \in SUBSET D
        BY <2>2, <4>1, FewerIn
      <4>3. c - 1 <= n /\ c - 1 <= n + 1
        BY <4>2
      <4> QED
        BY <4>2, <4>3
    <3>2. g[s \ {One(s)}] = IF s \ {One(s)} = {} THEN 0
                            ELSE f[One(s \ {One(s)})] + g[(s \ {One(s)}) \ {One(s \ {One(s)})}]
      BY <2>1, <3>1 DEF Summing
    <3> QED
      BY <3>1, <3>2
  <2>3. h = [s \in Small(n + 1) |-> IF s = {} THEN 0 ELSE f[One(s)] + h[s \ {One(s)}]]
    BY <2>2
  <2> QED
    BY <2>3 DEF Summing
<1> HIDE DEF There
<1> DEFINE T == {n \in Nat : There(n)}
<1>3. \A n \in Nat : There(n)
  <2>1. 0 \in T /\ \A n \in Nat : n \in T => n + 1 \in T
    BY <1>1, <1>2
  <2> HIDE DEF T
  <2>2. \A n \in Nat : n \in T
    BY <2>1, AllReached
  <2> QED
    BY <2>2 DEF T
<1>4. PICK N \in Nat : N = Cardinality(D)
  BY FS_CardinalityType
<1>5. Small(N) = SUBSET D
  <2>1. ASSUME NEW s \in SUBSET D PROVE Cardinality(s) <= N
    BY <1>4, FS_Subset
  <2> QED
    BY <2>1
<1> QED
  BY <1>3, <1>4, <1>5 DEF There

Parts(R, s) == UNION {R[k] : k \in s}

\* What counts finite parts that share nothing sums up to the count of the whole.
LEMMA SumOfParts ==
  ASSUME NEW f, NEW R, IsFiniteSet(DOMAIN f),
         \A k \in DOMAIN f : IsFiniteSet(R[k]) /\ f[k] = Cardinality(R[k]),
         \A k, l \in DOMAIN f : k # l => R[k] \intersect R[l] = {}
  PROVE  IsFiniteSet(Parts(R, DOMAIN f)) /\ SumOf(f) = Cardinality(Parts(R, DOMAIN f))
<1> DEFINE D == DOMAIN f
           g == CHOOSE h : Summing(h, f, SUBSET D)
           Good(s) == IsFiniteSet(Parts(R, s)) /\ g[s] = Cardinality(Parts(R, s))
           T == {n \in Nat : \A s \in SUBSET D : Cardinality(s) <= n => Good(s)}
<1>1. SumOf(f) = g[D]
  BY DEF SumOf, MapThenSumSet, MapThenFoldSet, Summing, One
<1>2. Summing(g, f, SUBSET D)
  BY SumsThere
<1> HIDE DEF g
<1>3. Good({})
  <2>1. Parts(R, {}) = {} /\ g[{}] = 0
    BY <1>2 DEF Parts, Summing
  <2> QED
    BY <2>1, FS_EmptySet
<1>4. ASSUME NEW s \in SUBSET D, s # {}, Good(s \ {One(s)}) PROVE Good(s)
  <2> DEFINE k == One(s)
             V == Parts(R, s \ {k})
  <2>1. k \in s /\ k \in D
    BY <1>4, OneIn
  <2>2. Parts(R, s) = R[k] \union V
    BY <2>1 DEF Parts
  <2>3. R[k] \intersect V = {}
    BY <2>1 DEF Parts
  <2>4. IsFiniteSet(R[k]) /\ IsFiniteSet(V) /\ g[s \ {k}] = Cardinality(V) /\ f[k] = Cardinality(R[k])
    BY <1>4, <2>1
  <2>5. g[s] = f[k] + g[s \ {k}]
    BY <1>2, <1>4 DEF Summing
  <2> HIDE DEF k, V
  <2>6. IsFiniteSet(R[k] \union V) /\ Cardinality(R[k] \union V) = Cardinality(R[k]) + Cardinality(V) - Cardinality(R[k] \intersect V)
    BY <2>4, FS_Union
  <2>7. Cardinality(R[k] \intersect V) = 0 /\ Cardinality(R[k]) \in Nat /\ Cardinality(V) \in Nat
    BY <2>3, <2>4, FS_EmptySet, FS_CardinalityType
  <2> QED
    BY <2>2, <2>4, <2>5, <2>6, <2>7
<1> HIDE DEF Good
<1>5. 0 \in T
  <2>1. ASSUME NEW s \in SUBSET D, Cardinality(s) <= 0 PROVE Good(s)
    BY <1>3, <2>1, NoneIn
  <2> QED
    BY <2>1
<1>6. ASSUME NEW n \in Nat, n \in T PROVE n + 1 \in T
  <2>1. ASSUME NEW s \in SUBSET D, Cardinality(s) <= n + 1, s # {} PROVE Good(s)
    <3>1. PICK c \in Nat \ {0} : c = Cardinality(s)
      BY <2>1, FewerIn
    <3>2. c <= n + 1 /\ Cardinality(s \ {One(s)}) = c - 1 /\ s \ {One(s)} \in SUBSET D
      BY <2>1, <3>1, FewerIn
    <3>3. c - 1 <= n
      BY <3>2
    <3>4. Good(s \ {One(s)})
      BY <1>6, <3>2, <3>3
    <3> QED
      BY <1>4, <2>1, <3>4
  <2> QED
    BY <1>3, <2>1
<1>7. \A n \in Nat : n \in T
  <2> HIDE DEF T
  <2> QED
    BY <1>5, <1>6, AllReached
<1>8. Good(D)
  <2>1. PICK N \in Nat : N = Cardinality(D)
    BY FS_CardinalityType
  <2>2. N \in T /\ Cardinality(D) <= N
    BY <1>7, <2>1
  <2> QED
    BY <2>2
<1> QED
  BY <1>1, <1>8 DEF Good

\* What a function makes of a finite set is finite.
LEMMA FiniteImage ==
  ASSUME NEW g, NEW S, IsFiniteSet(S), S = DOMAIN g
  PROVE  IsFiniteSet({g[x] : x \in S})
<1> DEFINE h == [x \in S |-> g[x]]
<1>1. h \in Surjection(S, {g[x] : x \in S})
  BY DEF Surjection
<1> QED
  BY <1>1, FS_Surjection

LEMMA IntervalKnown ==
  ASSUME NEW range, NEW interval, IntervalAllowed(range, interval)
  PROVE  range \in Int /\ range > 0 /\ interval \in {15, 30, 60, 360, 1440}
BY DEF IntervalAllowed

LEMMA TwoParts ==
  ASSUME NEW A, NEW B, IsFiniteSet(A), IsFiniteSet(B), A \intersect B = {}
  PROVE  /\ IsFiniteSet(A \union B)
         /\ Cardinality(A) \in Nat /\ Cardinality(B) \in Nat
         /\ Cardinality(A \union B) = Cardinality(A) + Cardinality(B)
<1>1. Cardinality(A) \in Nat /\ Cardinality(B) \in Nat /\ Cardinality(A \intersect B) = 0
  BY FS_CardinalityType, FS_EmptySet
<1>2. IsFiniteSet(A \union B) /\ Cardinality(A \union B) = Cardinality(A) + Cardinality(B) - Cardinality(A \intersect B)
  BY FS_Union
<1> QED
  BY <1>1, <1>2

LEMMA RowsFinite ==
  ASSUME NEW i \in Reports, NEW w, NEW f
  PROVE  /\ IsFiniteSet(DetectionsIn(i.db, w, f)) /\ Cardinality(DetectionsIn(i.db, w, f)) \in Nat
         /\ IsFiniteSet(ActiveIncidents(i.db, w.end, f))
<1>1. DetectionsIn(i.db, w, f) \in SUBSET i.db.detections /\ ActiveIncidents(i.db, w.end, f) \in SUBSET i.db.incidents
  BY DEF DetectionsIn, ActiveIncidents, Scoped
<1>2. IsFiniteSet(i.db.detections) /\ IsFiniteSet(i.db.incidents)
  BY ReportsAssumption
<1> QED
  BY <1>1, <1>2, FS_Subset, FS_CardinalityType

LEMMA DetectionDated ==
  ASSUME NEW i \in Reports, NEW w, NEW f, NEW d \in DetectionsIn(i.db, w, f)
  PROVE  d.at \in Int /\ d.at # Null /\ In(d.at, w)
<1>1. d.at \in Int /\ In(d.at, w)
  BY ReportsAssumption DEF DetectionsIn
<1> QED
  BY <1>1, NullAssumption

LEMMA ReportDated == ASSUME NEW i \in Reports PROVE i.now \in Int /\ i.range \in Int /\ i.range > 0 /\ i.interval \in {15, 30, 60, 360, 1440}
BY ReportsAssumption, IntervalKnown

\* Every row of the two ranges is in one window of the comparison.
LEMMA WindowsApart == ASSUME NEW i \in Reports PROVE WindowsShareNothing(i)
<1> DEFINE both == [start |-> i.now - 2 * i.range, end |-> i.now, closed |-> TRUE]
           c == CurrentWindow(i.now, i.range)
           p == Previous(i.now, i.range)
           A == DetectionsIn(i.db, c, i.filter)
           B == DetectionsIn(i.db, p, i.filter)
<1>1. i.now \in Int /\ i.range \in Int /\ i.range > 0
  BY ReportDated
<1>2. ASSUME NEW t \in Int PROVE (In(t, both) <=> In(t, c) \/ In(t, p)) /\ ~ (In(t, c) /\ In(t, p))
  <2>1. PICK n \in Int : n = i.now
    BY <1>1
  <2>2. PICK r \in Int : r = i.range /\ r > 0
    BY <1>1
  <2>3. t # Null
    BY NullAssumption
  <2>4. /\ In(t, both) <=> n - 2 * r <= t /\ t <= n
        /\ In(t, c) <=> n - r <= t /\ t <= n
        /\ In(t, p) <=> n - 2 * r <= t /\ t < n - r
    BY <2>1, <2>2, <2>3 DEF In, CurrentWindow, Previous
  <2> QED
    BY <2>2, <2>4
<1>3. A \union B = DetectionsIn(i.db, both, i.filter) /\ A \intersect B = {}
  <2>1. \A d \in i.db.detections : d.at \in Int
    BY ReportsAssumption
  <2> HIDE DEF both, c, p
  <2> QED
    BY <1>2, <2>1 DEF DetectionsIn
<1>4. IsFiniteSet(A) /\ IsFiniteSet(B)
  <2> HIDE DEF c, p
  <2> QED
    BY RowsFinite
<1>5. Cardinality(A) \in Nat /\ Cardinality(B) \in Nat /\ Cardinality(A \union B) = Cardinality(A) + Cardinality(B)
  <2> HIDE DEF A, B
  <2> QED
    BY <1>3, <1>4, TwoParts
<1>6. Overview(i.db, i.filter, i.now, i.range, 15, 180).detections = Metric(Cardinality(A), Cardinality(B))
  BY DEF Overview, DetectionCounts
<1>7. Metric(Cardinality(A), Cardinality(B)).current = Cardinality(A)
      /\ Metric(Cardinality(A), Cardinality(B)).delta.change = Cardinality(A) - Cardinality(B)
  <2> HIDE DEF A, B
  <2>1. Cardinality(A) # Null /\ Cardinality(B) # Null
    BY <1>5, NullAssumption
  <2> QED
    BY <2>1 DEF Metric, CompareValues
<1> DEFINE m == Overview(i.db, i.filter, i.now, i.range, 15, 180).detections
<1>8. m.current = Cardinality(A) /\ m.delta.change = Cardinality(A) - Cardinality(B)
  BY <1>6, <1>7
<1>9. Cardinality(DetectionsIn(i.db, both, i.filter)) = Cardinality(A) + Cardinality(B)
  BY <1>3, <1>5
<1> HIDE DEF A, B, m
<1>10. 2 * m.current - m.delta.change = Cardinality(A) + Cardinality(B)
  <2>1. PICK a \in Int : a = Cardinality(A)
    BY <1>5
  <2>2. PICK b \in Int : b = Cardinality(B)
    BY <1>5
  <2>3. m.current = a /\ m.delta.change = a - b
    BY <1>8, <2>1, <2>2
  <2> QED
    BY <2>1, <2>2, <2>3
<1> QED
  BY <1>9, <1>10 DEF WindowsShareNothing, m

BucketFits(t, n) == BucketOf(t, n) \in Int /\ BucketOf(t, n) % n = 0 /\ BucketOf(t, n) <= t
LEMMA BucketIs ==
  ASSUME NEW t \in Int, NEW n \in {15, 30, 60, 360, 1440}
  PROVE  BucketFits(t, n)
<1>1. CASE n = 15
  BY <1>1 DEF BucketOf, BucketFits
<1>2. CASE n = 30
  BY <1>2 DEF BucketOf, BucketFits
<1>3. CASE n = 60
  BY <1>3 DEF BucketOf, BucketFits
<1>4. CASE n = 360
  BY <1>4 DEF BucketOf, BucketFits
<1>5. CASE n = 1440
  BY <1>5 DEF BucketOf, BucketFits
<1> QED
  BY <1>1, <1>2, <1>3, <1>4, <1>5

\* A page's series adds up to what it counts; Null is shown for none.
LEMMA TotalOfParts ==
  ASSUME NEW series, NEW R, IsFiniteSet(DOMAIN series),
         \A k \in DOMAIN series : IsFiniteSet(R[k]),
         \A k \in DOMAIN series : (IF series[k] = Null THEN 0 ELSE series[k]) = Cardinality(R[k]),
         \A k, l \in DOMAIN series : k # l => R[k] \intersect R[l] = {}
  PROVE  Total(series) = Cardinality(Parts(R, DOMAIN series))
<1> DEFINE shown == [b \in DOMAIN series |-> IF series[b] = Null THEN 0 ELSE series[b]]
<1>1. DOMAIN shown = DOMAIN series /\ \A k \in DOMAIN series : shown[k] = Cardinality(R[k])
  OBVIOUS
<1>2. Total(series) = SumOf(shown)
  BY DEF Total
<1> HIDE DEF shown
<1>3. SumOf(shown) = Cardinality(Parts(R, DOMAIN shown))
  BY <1>1, SumOfParts
<1> QED
  BY <1>1, <1>2, <1>3

\* The parts a grouping counts are the rows it groups.
LEMMA GroupsAddUp ==
  ASSUME NEW rows, IsFiniteSet(rows), NEW key, DOMAIN key = rows, NEW counts,
         DOMAIN counts = {key[x] : x \in rows},
         \A k \in DOMAIN counts : counts[k] = Cardinality({x \in rows : key[x] = k})
  PROVE  Total(counts) = Cardinality(rows)
<1> DEFINE parts == {key[x] : x \in rows}
           R == [k \in parts |-> {x \in rows : key[x] = k}]
<1>1. IsFiniteSet(parts)
  BY FiniteImage
<1>2. \A k \in parts : R[k] \in SUBSET rows /\ counts[k] = Cardinality(R[k])
  OBVIOUS
<1>3. \A k, l \in parts : k # l => R[k] \intersect R[l] = {}
  OBVIOUS
<1>4. Parts(R, parts) = rows
  <2>1. ASSUME NEW x \in rows PROVE key[x] \in parts /\ x \in R[key[x]]
    OBVIOUS
  <2> HIDE DEF parts, R
  <2> QED
    BY <1>2, <2>1 DEF Parts
<1> HIDE DEF R
<1>5. DOMAIN counts = parts
  OBVIOUS
<1> HIDE DEF parts
<1>6. \A k \in parts : IsFiniteSet(R[k])
  BY <1>2, FS_Subset
<1>7. \A k \in parts : counts[k] \in Nat
  BY <1>2, <1>6, FS_CardinalityType
<1>8. \A k \in parts : counts[k] # Null
  BY <1>7, NullAssumption
<1>9. Total(counts) = Cardinality(Parts(R, DOMAIN counts))
  BY <1>1, <1>2, <1>3, <1>5, <1>6, <1>8, TotalOfParts
<1> QED
  BY <1>4, <1>5, <1>9

InBuckets(rows, n, a, b) == {d \in rows : BucketOf(d.at, n) \in a..b}
\* A series counts the rows of the buckets it shows.
LEMMA SeriesTotal ==
  ASSUME NEW rows, IsFiniteSet(rows), \A d \in rows : d.at \in Int,
         NEW a \in Int, NEW b \in Int, NEW n \in {15, 30, 60, 360, 1440}, NEW series,
         DOMAIN series = {y \in a..b : y % n = 0},
         \A x \in DOMAIN series :
           series[x] = LET m == Cardinality({d \in rows : BucketOf(d.at, n) = x}) IN IF m = 0 THEN Null ELSE m
  PROVE  Total(series) = Cardinality(InBuckets(rows, n, a, b))
<1> DEFINE bs == {x \in a..b : x % n = 0}
           R == [x \in bs |-> {d \in rows : BucketOf(d.at, n) = x}]
<1>1. IsFiniteSet(bs)
  <2>1. bs \in SUBSET (a..b) /\ IsFiniteSet(a..b)
    BY FS_Interval
  <2> QED
    BY <2>1, FS_Subset
<1>2. \A x \in bs : R[x] \in SUBSET rows
  OBVIOUS
<1>3. \A x, y \in bs : x # y => R[x] \intersect R[y] = {}
  OBVIOUS
<1>4. Parts(R, bs) = {d \in rows : BucketOf(d.at, n) \in a..b}
  <2>1. ASSUME NEW d \in rows, BucketOf(d.at, n) \in a..b PROVE BucketOf(d.at, n) \in bs /\ d \in R[BucketOf(d.at, n)]
    <3>1. PICK t \in Int : t = d.at
      OBVIOUS
    <3>2. BucketFits(t, n)
      BY BucketIs
    <3>3. BucketOf(t, n) \in bs
      BY <2>1, <3>1, <3>2 DEF BucketFits
    <3> QED
      BY <3>1, <3>3
  <2>2. \A x \in bs : \A d \in R[x] : d \in rows /\ BucketOf(d.at, n) \in a..b
    OBVIOUS
  <2> HIDE DEF R, bs
  <2> QED
    BY <2>1, <2>2 DEF Parts
<1>5. DOMAIN series = bs /\ \A x \in bs : series[x] = IF Cardinality(R[x]) = 0 THEN Null ELSE Cardinality(R[x])
  OBVIOUS
<1> HIDE DEF R, bs
<1>6. \A x \in bs : IsFiniteSet(R[x])
  BY <1>2, FS_Subset
<1>7. \A x \in bs : Cardinality(R[x]) \in Nat
  BY <1>6, FS_CardinalityType
<1>8. \A x \in bs : Cardinality(R[x]) # Null
  BY <1>7, NullAssumption
<1>9. \A x \in bs : (IF series[x] = Null THEN 0 ELSE series[x]) = Cardinality(R[x])
  BY <1>5, <1>8
<1>10. Total(series) = Cardinality(Parts(R, DOMAIN series))
  BY <1>1, <1>3, <1>5, <1>6, <1>9, TotalOfParts
<1> QED
  BY <1>4, <1>5, <1>10 DEF InBuckets

\* What is in one part or in the other, and never in both, is as many as both parts.
LEMMA InTwoParts ==
  ASSUME NEW U, NEW A, NEW B, IsFiniteSet(A), IsFiniteSet(B),
         \A x : x \in U <=> x \in A \/ x \in B,
         \A x : ~ (x \in A /\ x \in B)
  PROVE  Cardinality(U) = Cardinality(A) + Cardinality(B)
<1>1. U = A \union B /\ A \intersect B = {}
  OBVIOUS
<1>2. Cardinality(A \union B) = Cardinality(A) + Cardinality(B)
  BY <1>1, TwoParts
<1>3. PICK V : V = A \union B /\ Cardinality(V) = Cardinality(A) + Cardinality(B)
  BY <1>2
<1>4. U = V
  BY <1>3
<1> QED
  BY <1>3, <1>4

LEMMA SeriesAdds == ASSUME NEW i \in Reports PROVE SeriesAddsUp(i)
<1> DEFINE w == CurrentWindow(i.now, i.range)
           rows == DetectionsIn(i.db, w, i.filter)
           page == DetectionsPage(i.db, i.filter, i.now, i.range, i.interval)
           early == {d \in rows : BucketOf(d.at, i.interval) < w.start}
           shown == {d \in rows : BucketOf(d.at, i.interval) \in w.start..w.end}
<1>1. PICK a \in Int : a = w.start
  BY ReportDated DEF CurrentWindow
<1>2. PICK b \in Int : b = w.end
  BY ReportDated DEF CurrentWindow
<1>3. w.closed = TRUE
  BY DEF CurrentWindow
<1>4. PICK n \in {15, 30, 60, 360, 1440} : n = i.interval
  BY ReportDated
<1> HIDE DEF w
<1>5. IsFiniteSet(rows)
  BY RowsFinite
<1>6. \A d \in rows : d.at \in Int /\ a <= d.at /\ d.at <= b
  BY <1>1, <1>2, <1>3, DetectionDated DEF In
<1>7. page.counts.created = Cardinality(rows)
  BY DEF DetectionsPage, DetectionCounts, w
<1>8. Total(page.series) = Cardinality(shown)
  <2>1. DOMAIN page.series = {y \in a..b : y % n = 0}
    BY <1>1, <1>2, <1>4 DEF DetectionsPage, SeriesOf, Buckets, w
  <2>2. \A x \in DOMAIN page.series :
          page.series[x] = LET m == Cardinality({d \in rows : BucketOf(d.at, n) = x}) IN IF m = 0 THEN Null ELSE m
    BY <1>1, <1>2, <1>4 DEF DetectionsPage, SeriesOf, Buckets, w
  <2> HIDE DEF rows, page
  <2>3. \A d \in rows : d.at \in Int
    BY <1>6
  <2>4. PICK series : series = page.series
    OBVIOUS
  <2>5. Total(series) = Cardinality(InBuckets(rows, n, a, b))
    BY <1>5, <2>1, <2>2, <2>3, <2>4, SeriesTotal
  <2> QED
    BY <1>1, <1>2, <1>4, <2>4, <2>5 DEF InBuckets
<1>9. Total(page.byPriority) = Cardinality(rows)
  <2> DEFINE key == [d \in rows |-> d.priority]
  <2>1. DOMAIN page.byPriority = {x.priority : x \in rows}
    BY DEF DetectionsPage, Grouped, w
  <2>2. \A k \in DOMAIN page.byPriority : page.byPriority[k] = Cardinality({x \in rows : x.priority = k})
    BY DEF DetectionsPage, Grouped, w
  <2>3. DOMAIN key = rows /\ \A x \in rows : key[x] = x.priority
    OBVIOUS
  <2> HIDE DEF rows, page, key
  <2>4. {key[x] : x \in rows} = {x.priority : x \in rows}
    BY <2>3
  <2>5. \A k : {x \in rows : key[x] = k} = {x \in rows : x.priority = k}
    BY <2>3
  <2>6. \A k \in DOMAIN page.byPriority : page.byPriority[k] = Cardinality({x \in rows : key[x] = k})
    BY <2>2, <2>5
  <2>7. PICK counts : counts = page.byPriority
    OBVIOUS
  <2>9. DOMAIN counts = {key[x] : x \in rows}
    BY <2>1, <2>4, <2>7
  <2>10. \A k \in DOMAIN counts : counts[k] = Cardinality({x \in rows : key[x] = k})
    BY <2>6, <2>7
  <2>11. DOMAIN key = rows
    BY <2>3
  <2>8. Total(counts) = Cardinality(rows)
    BY <1>5, <2>9, <2>10, <2>11, GroupsAddUp
  <2> QED
    BY <2>7, <2>8
<1>10. Cardinality(shown) = Cardinality(rows) - Cardinality(early)
  <2>5. \A d \in rows : ~ (d \in shown /\ d \in early) /\ (d \in shown \/ d \in early)
    <3>1. ASSUME NEW d \in rows PROVE ~ (d \in shown /\ d \in early) /\ (d \in shown \/ d \in early)
      <4>1. PICK t \in Int : t = d.at /\ t <= b
        BY <1>6
      <4>6. BucketFits(t, n)
        BY BucketIs
      <4>5. BucketOf(t, n) \in Int /\ BucketOf(t, n) <= t
        BY <4>6 DEF BucketFits
      <4>2. PICK k \in Int : k = BucketOf(t, n) /\ k <= t
        BY <4>5
      <4>3. d \in shown <=> a <= k /\ k <= b
        BY <1>1, <1>2, <1>4, <4>1, <4>2
      <4>4. d \in early <=> k < a
        BY <1>1, <1>4, <4>1, <4>2
      <4> QED
        BY <4>1, <4>2, <4>3, <4>4
    <3> QED
      BY <3>1
  <2>2. IsFiniteSet(shown) /\ IsFiniteSet(early)
    <3>1. shown \in SUBSET rows /\ early \in SUBSET rows
      OBVIOUS
    <3> HIDE DEF rows, shown, early
    <3> QED
      BY <1>5, <3>1, FS_Subset
  <2>3. \A d : d \in rows <=> d \in shown \/ d \in early
    BY <2>5
  <2>4. \A d : ~ (d \in shown /\ d \in early)
    BY <2>5
  <2> HIDE DEF shown, early, rows
  <2>6. Cardinality(shown) \in Nat /\ Cardinality(early) \in Nat
    BY <2>2, FS_CardinalityType
  <2>7. Cardinality(rows) = Cardinality(shown) + Cardinality(early)
    BY <2>2, <2>3, <2>4, InTwoParts
  <2> QED
    BY <2>6, <2>7
<1> HIDE DEF page, rows, early
<1>11. Total(page.series) = page.counts.created - Cardinality(early) /\ Total(page.byPriority) = page.counts.created
  <2> HIDE DEF shown
  <2> QED
    BY <1>7, <1>8, <1>9, <1>10
<1> QED
  BY <1>11 DEF SeriesAddsUp, page, rows, early, w

\* Each zone has one row, and each counted row's zone is among them.
ToldByZone(zones, rowOf, all, zone) ==
  /\ DOMAIN rowOf = zones
  /\ \A x \in all : \E z \in zones : z.id = zone[x]
  /\ \A z \in zones : rowOf[z].zone = z.id
  /\ \A y, z \in zones : y.id = z.id => rowOf[y] = rowOf[z]

\* A row's count is that of its zone.
CountedByZone(zones, rowOf, all, zone, count) ==
  /\ DOMAIN count = {rowOf[z] : z \in zones}
  /\ \A r \in DOMAIN count : count[r] = Cardinality({x \in all : zone[x] = r.zone})

\* What the zones' rows tell of a count, summed over the rows, is the count of all: every
\* counted row has its own zone.
LEMMA ZonesTotal ==
  ASSUME NEW zones, IsFiniteSet(zones), NEW all, IsFiniteSet(all), NEW zone, NEW rowOf, NEW count,
         ToldByZone(zones, rowOf, all, zone), CountedByZone(zones, rowOf, all, zone, count)
  PROVE  SumOf(count) = Cardinality(all)
<1> USE DEF ToldByZone, CountedByZone
<1> DEFINE rows == {rowOf[z] : z \in zones}
           R == [r \in rows |-> {x \in all : zone[x] = r.zone}]
<1>1. IsFiniteSet(rows)
  BY FiniteImage
<1>2. \A r \in rows : R[r] \in SUBSET all /\ count[r] = Cardinality(R[r])
  OBVIOUS
<1>3. \A r, s \in rows : r # s => R[r] \intersect R[s] = {}
  <2>1. ASSUME NEW r \in rows, NEW s \in rows, r.zone = s.zone PROVE r = s
    BY <2>1
  <2>2. \A r \in rows : \A x \in R[r] : zone[x] = r.zone
    OBVIOUS
  <2> HIDE DEF rows, R
  <2> QED
    BY <2>1, <2>2
<1>4. Parts(R, rows) = all
  <2>1. ASSUME NEW x \in all PROVE \E r \in rows : x \in R[r]
    <3>1. PICK z \in zones : z.id = zone[x]
      OBVIOUS
    <3>2. rowOf[z] \in rows /\ rowOf[z].zone = zone[x]
      BY <3>1
    <3> QED
      BY <3>2
  <2> HIDE DEF rows, R
  <2> QED
    BY <1>2, <2>1 DEF Parts
<1>5. DOMAIN count = rows
  OBVIOUS
<1> HIDE DEF rows, R
<1>6. \A r \in rows : IsFiniteSet(R[r])
  BY <1>2, FS_Subset
<1>7. SumOf(count) = Cardinality(Parts(R, DOMAIN count))
  BY <1>1, <1>2, <1>3, <1>5, <1>6, SumOfParts
<1> QED
  BY <1>4, <1>5, <1>7

LEMMA ZonesAdd == ASSUME NEW i \in Reports PROVE ZonesAddUp(i)
<1> DEFINE w == CurrentWindow(i.now, i.range)
           zones == i.db.zones
           rowOf == [z \in zones |-> ZoneRow(i.db, z.id, w, 15)]
           rows == ZonesPage(i.db, i.now, i.range, 15)
           all == Overview(i.db, << >>, i.now, i.range, 15, 180)
           D == DetectionsIn(i.db, w, << >>)
           A == ActiveIncidents(i.db, w.end, << >>)
           dzone == [d \in D |-> ZoneOf(i.db, d.sensor)]
           azone == [n \in A |-> n.zone]
           dcount == [r \in rows |-> r.detections]
           acount == [r \in rows |-> r.active]
<1>1. rows = {rowOf[z] : z \in zones} /\ DOMAIN rowOf = zones
  BY DEF ZonesPage
<1>2. \A z \in zones : /\ rowOf[z].zone = z.id
                       /\ rowOf[z].detections = Cardinality(DetectionsIn(i.db, w, [zone |-> z.id]))
                       /\ rowOf[z].active = Cardinality(ActiveIncidents(i.db, w.end, [zone |-> z.id]))
  <2> HIDE DEF w
  <2> QED
    BY DEF ZoneRow
<1>3. \A y, z \in zones : y.id = z.id => rowOf[y] = rowOf[z]
  <2> HIDE DEF w
  <2> QED
    OBVIOUS
<1>4. IsFiniteSet(zones)
  BY ReportsAssumption
<1>5. IsFiniteSet(D) /\ IsFiniteSet(A)
  <2> HIDE DEF w
  <2> QED
    BY RowsFinite
<1>6. all.detections.current = Cardinality(D) /\ all.active.current = Cardinality(A)
  BY DEF Overview, Metric, DetectionCounts, ActiveCount
<1>7. \A v : DetectionsIn(i.db, w, [zone |-> v]) = {d \in D : ZoneOf(i.db, d.sensor) = v}
             /\ ActiveIncidents(i.db, w.end, [zone |-> v]) = {n \in A : n.zone = v}
  <2> HIDE DEF w
  <2> QED
    BY DEF DetectionsIn, ActiveIncidents, Scoped, InScope
<1>8. \A d \in D : \E z \in zones : z.id = dzone[d]
  <2>1. ASSUME NEW d \in D PROVE \E z \in zones : z.id = ZoneOf(i.db, d.sensor)
    <3>1. d \in i.db.detections
      BY DEF DetectionsIn
    <3>2. PICK s \in i.db.sensors : s.id = d.sensor
      BY <3>1, ReportsAssumption
    <3>3. \E s1 \in i.db.sensors : s1.id = d.sensor /\ ZoneOf(i.db, d.sensor) = s1.zone
      BY <3>2 DEF ZoneOf
    <3> QED
      BY <3>3, ReportsAssumption
  <2> HIDE DEF D
  <2> QED
    BY <2>1
<1>9. \A n \in A : \E z \in zones : z.id = azone[n]
  <2>1. \A n \in A : n \in i.db.incidents
    BY DEF ActiveIncidents, Scoped
  <2>2. \A n \in A : \E z \in zones : z.id = n.zone
    BY <2>1, ReportsAssumption
  <2> HIDE DEF A
  <2> QED
    BY <2>2
<1> HIDE DEF w, rowOf, rows, all, D, A
<1>10. ASSUME NEW r \in rows
       PROVE  /\ r.detections = Cardinality({d \in D : dzone[d] = r.zone})
              /\ r.active = Cardinality({n \in A : azone[n] = r.zone})
  <2>1. PICK z \in zones : r = rowOf[z]
    BY <1>1
  <2>2. {d \in D : dzone[d] = z.id} = DetectionsIn(i.db, w, [zone |-> z.id]) /\ {n \in A : azone[n] = z.id} = ActiveIncidents(i.db, w.end, [zone |-> z.id])
    BY <1>7
  <2>3. r.zone = z.id
    BY <1>2, <2>1
  <2>4. r.detections = Cardinality(DetectionsIn(i.db, w, [zone |-> z.id])) /\ r.active = Cardinality(ActiveIncidents(i.db, w.end, [zone |-> z.id]))
    BY <1>2, <2>1
  <2> QED
    BY <2>2, <2>3, <2>4
<1>11. SumOf(dcount) = Cardinality(D)
  <2>1. DOMAIN dcount = rows /\ \A r \in rows : dcount[r] = Cardinality({d \in D : dzone[d] = r.zone})
    BY <1>10
  <2> HIDE DEF dcount, dzone
  <2>2. DOMAIN dcount = {rowOf[z] : z \in zones}
    BY <1>1, <2>1
  <2>3. \A r \in DOMAIN dcount : dcount[r] = Cardinality({d \in D : dzone[d] = r.zone})
    BY <2>1
  <2>4. \A z \in zones : rowOf[z].zone = z.id
    BY <1>2
  <2> QED
    <3>1. ToldByZone(zones, rowOf, D, dzone)
      BY <1>1, <1>3, <1>8, <2>4 DEF ToldByZone
    <3>2. CountedByZone(zones, rowOf, D, dzone, dcount)
      BY <2>2, <2>3 DEF CountedByZone
    <3> HIDE DEF zones
    <3> QED
      BY <1>4, <1>5, <3>1, <3>2, ZonesTotal
<1>12. SumOf(acount) = Cardinality(A)
  <2>1. DOMAIN acount = rows /\ \A r \in rows : acount[r] = Cardinality({n \in A : azone[n] = r.zone})
    BY <1>10
  <2> HIDE DEF acount, azone
  <2>2. DOMAIN acount = {rowOf[z] : z \in zones}
    BY <1>1, <2>1
  <2>3. \A r \in DOMAIN acount : acount[r] = Cardinality({n \in A : azone[n] = r.zone})
    BY <2>1
  <2>4. \A z \in zones : rowOf[z].zone = z.id
    BY <1>2
  <2> QED
    <3>1. ToldByZone(zones, rowOf, A, azone)
      BY <1>1, <1>3, <1>9, <2>4 DEF ToldByZone
    <3>2. CountedByZone(zones, rowOf, A, azone, acount)
      BY <2>2, <2>3 DEF CountedByZone
    <3> HIDE DEF zones
    <3> QED
      BY <1>4, <1>5, <3>1, <3>2, ZonesTotal
<1> QED
  BY <1>6, <1>11, <1>12 DEF ZonesAddUp, rows, all

\* Each report is one that was assumed, whatever is tried before it.
THEOREM ReportsHold == ReportsSpec => []ReportsAddUp
<1> USE DEF DisjointWindows, SeriesTotals, ZoneTotals, For
<1> DEFINE Inv == subject = "analytics" => input \in Reports
<1>1. Untried => Inv
  BY DEF Untried
<1>2. Inv /\ [TryAnalytics]_trial => Inv'
  BY DEF TryAnalytics, Try, trial
<1>3. Inv => ReportsAddUp
  BY WindowsApart, SeriesAdds, ZonesAdd DEF ReportsAddUp
<1> QED
  BY <1>1, <1>2, <1>3, PTL DEF ReportsSpec

-----------------------------------------------------------------------------
(***************************************************************************)
(* OperationsViews: pages that show the same rows agree on them.           *)
(***************************************************************************)
\* No filter passes every row.
LEMMA NoFilter == DOMAIN << >> = {} /\ \A x : Passes(x, << >>)
BY DEF Passes

LEMMA RelatedBothWays == ASSUME NEW i \in Pages PROVE RelatedIsMutual(i)
BY DEF RelatedIsMutual, RelatedDetections

\* What an asset is told of its maintenance, by its date.
LEMMA ToldByDate ==
  ASSUME NEW a, NEW now \in Int, a.due \in Int \union {Null}
  PROVE  /\ MaintenanceState(a, now) = "due" <=> a.due # Null /\ a.due <= now
         /\ MaintenanceState(a, now) = "upcoming" <=> a.due # Null /\ a.due > now /\ a.due <= now + Month
         /\ MaintenanceState(a, now) \in {"upcoming", "scheduled"} <=> a.due # Null /\ a.due > now
<1>1. CASE a.due = Null
  BY <1>1 DEF MaintenanceState
<1>2. CASE a.due # Null /\ a.due <= now
  BY <1>2 DEF MaintenanceState
<1>3. CASE a.due # Null /\ a.due > now /\ a.due <= now + Month
  BY <1>3 DEF MaintenanceState, Month
<1>4. CASE a.due # Null /\ a.due > now /\ ~ (a.due <= now + Month)
  BY <1>4 DEF MaintenanceState, Month
<1> QED
  BY <1>1, <1>2, <1>3, <1>4

LEMMA MaintenanceTold == ASSUME NEW i \in Pages PROVE MaintenanceAgrees(i)
<1> DEFINE said(which) == {a \in i.db.assets : MaintenanceState(a, i.now) \in which}
           list == ListAssets(i.db, << >>, "any", i.now)
<1>1. i.now \in Int /\ \A a \in i.db.assets : a.due \in Int \union {Null}
  BY ViewsAssumption
<1>2. \A a \in i.db.assets :
        /\ MaintenanceState(a, i.now) = "due" <=> a.due # Null /\ a.due <= i.now
        /\ MaintenanceState(a, i.now) = "upcoming" <=> a.due # Null /\ a.due > i.now /\ a.due <= i.now + Month
        /\ MaintenanceState(a, i.now) \in {"upcoming", "scheduled"} <=> a.due # Null /\ a.due > i.now
  BY <1>1, ToldByDate
<1>3. MaintenanceFilter(i.db.assets, "due", i.now) = said({"due"})
  BY <1>2 DEF MaintenanceFilter
<1>4. MaintenanceFilter(i.db.assets, "upcoming", i.now) = said({"upcoming"})
  BY <1>2 DEF MaintenanceFilter
<1>5. MaintenanceFilter(i.db.assets, "scheduled", i.now) = said({"upcoming", "scheduled"})
  BY <1>2 DEF MaintenanceFilter
<1>6. list.error = "none" => list.due = Cardinality(said({"due"}))
  <2>1. SUFFICES ASSUME list.error = "none" PROVE list.due = Cardinality(said({"due"}))
    OBVIOUS
  <2>2. list.due = Cardinality({a \in i.db.assets : a.due # Null /\ a.due <= i.now})
    BY <2>1 DEF ListAssets, CountOf
  <2>3. {a \in i.db.assets : a.due # Null /\ a.due <= i.now} = said({"due"})
    BY <1>2
  <2> QED
    BY <2>2, <2>3
<1> QED
  BY <1>3, <1>4, <1>5, <1>6 DEF MaintenanceAgrees

\* Of two incidents of a tier, one that is active ranks before one that is resolved.
LEMMA ActivePrecedes ==
  ASSUME NEW x, NEW y, x.tier = y.tier, x.status \in ACTIVE_STATUSES, y.status = "resolved"
  PROVE  Precedes(IncidentKey(x, "priority"), IncidentKey(y, "priority"), TRUE)
<1> DEFINE k == IncidentKey(x, "priority")
           l == IncidentKey(y, "priority")
<1>1. k = <<x.tier, IncidentRank(x.status), x.detected>> /\ l = <<y.tier, IncidentRank(y.status), y.detected>>
  BY DEF IncidentKey
<1>2. IncidentRank(y.status) = 1 /\ IncidentRank(x.status) \in {2, 3}
  BY DEF IncidentRank, ACTIVE_STATUSES
<1>3. 2 \in DOMAIN k /\ k[2] # l[2] /\ k[1] = l[1]
  BY <1>1, <1>2
<1>4. Less(k[2], l[2], TRUE)
  BY <1>1, <1>2, NullAssumption DEF Less
<1> HIDE DEF k, l
<1>5. \A j \in 1..(2 - 1) : k[j] = l[j]
  BY <1>3
<1> QED
  BY <1>3, <1>4, <1>5 DEF Precedes, k, l

LEMMA ActiveComesFirst == ASSUME NEW i \in Pages PROVE ActiveFirst(i)
<1> DEFINE rows == {n \in i.db.incidents : Passes(n, << >>)}
<1>1. SUFFICES ASSUME NEW list \in ListIncidents(i.db, << >>, "priority", TRUE),
                      NEW j \in DOMAIN list, NEW k \in DOMAIN list, j < k, list[j].tier = list[k].tier,
                      list[j].status = "resolved", list[k].status # "resolved"
               PROVE  FALSE
  BY DEF ActiveFirst
<1>2. /\ list[k] \in rows
      /\ ~ Precedes(IncidentKey(list[k], "priority"), IncidentKey(list[j], "priority"), TRUE)
  BY <1>1 DEF ListIncidents, Listings, SetToSeqs
<1>3. list[k].status \in ACTIVE_STATUSES
  BY <1>1, <1>2, ViewsAssumption DEF IncidentStored, EXCLUDED_INCIDENT_STATUSES
<1> QED
  BY <1>1, <1>2, <1>3, ActivePrecedes

\* The active incidents, by their status, and those the reports count, by their dates.
LEMMA ActiveByDate ==
  ASSUME NEW i \in Pages, NEW n \in i.db.incidents
  PROVE  /\ n.status \in ACTIVE_STATUSES <=> n.resolved = Null
         /\ n \in ActiveIncidents(i.db, i.clock, << >>) <=> n.detected <= i.clock /\ (n.resolved = Null \/ n.resolved > i.clock)
         /\ n.detected \in Int /\ i.clock \in Int /\ (n.resolved # Null => n.resolved \in Int)
<1>1. IncidentStored(i.db, n) /\ i.clock \in Int
  BY ViewsAssumption
<1>2. n \in ActiveIncidents(i.db, i.clock, << >>) <=> n.detected <= i.clock /\ (n.resolved = Null \/ n.resolved > i.clock)
  BY NoFilter DEF ActiveIncidents, Scoped, InScope
<1> QED
  BY <1>1, <1>2 DEF IncidentStored, ACTIVE_STATUSES, EXCLUDED_INCIDENT_STATUSES

\* The zones' counts of active incidents, summed over the map's rows.
LEMMA ZonesOnMap ==
  ASSUME NEW i \in Pages, \A z \in i.db.zones : z.drawn
  PROVE  SumOf([r \in MapZones(i.db, << >>) |-> r.active]) = Cardinality({n \in i.db.incidents : n.status \in ACTIVE_STATUSES})
<1> DEFINE zones == i.db.zones
           active == {n \in i.db.incidents : n.status \in ACTIVE_STATUSES}
           rows == MapZones(i.db, << >>)
           ids == {z.id : z \in zones}
           count == [r \in rows |-> r.active]
           R == [r \in rows |-> {n \in active : n.zone = r.id}]
<1>1. rows = {MapZone(i.db, z) : z \in zones}
  BY NoFilter DEF MapZones
<1>2. IsFiniteSet(zones) /\ IsFiniteSet(i.db.incidents)
  BY ViewsAssumption
<1>3. IsFiniteSet(active)
  <2>1. active \in SUBSET i.db.incidents
    OBVIOUS
  <2> HIDE DEF active
  <2> QED
    BY <1>2, <2>1, FS_Subset
<1>4. IsFiniteSet(rows)
  <2> DEFINE rowOf == [z \in zones |-> MapZone(i.db, z)]
  <2>1. DOMAIN rowOf = zones /\ rows = {rowOf[z] : z \in zones}
    BY <1>1
  <2> HIDE DEF rowOf, rows, zones
  <2>2. IsFiniteSet({rowOf[z] : z \in zones})
    BY <1>2, <2>1, FiniteImage
  <2> QED
    BY <2>1, <2>2
<1>5. ASSUME NEW r \in rows PROVE \E z \in zones : r.id = z.id /\ r = MapZone(i.db, z) /\ r.active = Cardinality({n \in active : n.zone = r.id})
  <2>1. PICK z \in zones : r = MapZone(i.db, z)
    BY <1>1
  <2>2. r.id = z.id /\ r.active = Cardinality({n \in i.db.incidents : n.zone = z.id /\ n.status \in ACTIVE_STATUSES})
    BY <2>1 DEF CountOf, MapZone
  <2>3. {n \in i.db.incidents : n.zone = z.id /\ n.status \in ACTIVE_STATUSES} = {n \in active : n.zone = r.id}
    BY <2>2
  <2> QED
    BY <2>1, <2>2, <2>3
<1>6. \A r, s \in rows : r.id = s.id => r = s
  <2>1. ASSUME NEW r \in rows, NEW s \in rows, r.id = s.id PROVE r = s
    <3>1. PICK y \in zones : r.id = y.id /\ r = MapZone(i.db, y)
      BY <1>5
    <3>2. PICK z \in zones : s.id = z.id /\ s = MapZone(i.db, z)
      BY <1>5
    <3>3. y.id = z.id
      BY <2>1, <3>1, <3>2
    <3>4. MapZone(i.db, y) = MapZone(i.db, z)
      BY <3>3 DEF MapZone
    <3> QED
      BY <3>1, <3>2, <3>4
  <2> QED
    BY <2>1
<1>7. \A n \in active : \E r \in rows : r.id = n.zone
  <2>1. ASSUME NEW n \in active PROVE \E r \in rows : r.id = n.zone
    <3>1. PICK z \in zones : z.id = n.zone
      BY ViewsAssumption DEF IncidentStored
    <3>2. MapZone(i.db, z).id = n.zone
      BY <3>1 DEF MapZone
    <3> HIDE DEF rows
    <3>3. MapZone(i.db, z) \in rows
      BY <1>1, <3>1
    <3> QED
      BY <3>2, <3>3
  <2> QED
    BY <2>1
<1> HIDE DEF rows, active
<1>8. \A r \in rows : R[r] \in SUBSET active /\ count[r] = Cardinality(R[r])
  BY <1>5
<1>9. \A r, s \in rows : r # s => R[r] \intersect R[s] = {}
  BY <1>6
<1>10. Parts(R, rows) = active
  BY <1>7 DEF Parts
<1>11. DOMAIN count = rows
  OBVIOUS
<1> HIDE DEF R, count
<1>12. \A r \in rows : IsFiniteSet(R[r])
  BY <1>3, <1>8, FS_Subset
<1>13. SumOf(count) = Cardinality(Parts(R, DOMAIN count))
  BY <1>4, <1>8, <1>9, <1>11, <1>12, SumOfParts
<1>14. Parts(R, DOMAIN count) = active
  BY <1>10, <1>11
<1> QED
  BY <1>13, <1>14 DEF count, rows, active

LEMMA ActiveCounted == ASSUME NEW i \in Pages PROVE ActiveCountsAgree(i)
<1> DEFINE active == {n \in i.db.incidents : n.status \in ACTIVE_STATUSES}
           shown(r) == MapIncidents(i.db, << >>, r)
<1>1. DashboardCounts(i.db).active = Cardinality(active) /\ DashboardCounts(i.db).critical = Cardinality({n \in active : n.tier = 3})
  BY DEF DashboardCounts, CountOf
<1>2. \A r \in BOOLEAN : {n \in shown(r) : n.status \in ACTIVE_STATUSES} = active
  BY DEF MapIncidents, Passes, ACTIVE_STATUSES, EXCLUDED_INCIDENT_STATUSES
<1>3. i.resolved \in BOOLEAN
  BY ViewsAssumption
<1>4. MapSummary(i.db, << >>, i.resolved).active = Cardinality(active)
  <2>1. MapSummary(i.db, << >>, i.resolved).active = Cardinality({n \in shown(i.resolved) : n.status \in ACTIVE_STATUSES})
    BY DEF MapSummary, CountOf
  <2> QED
    BY <1>2, <1>3, <2>1
<1>5. MapSummary(i.db, << >>, FALSE).critical = Cardinality({n \in active : n.tier = 3})
  <2>1. MapSummary(i.db, << >>, FALSE).critical = Cardinality({n \in shown(FALSE) : Severity(n.tier) = "tier_3"})
    BY DEF MapSummary, CountOf
  <2>2. \A n \in i.db.incidents : (Severity(n.tier) = "tier_3" <=> n.tier = 3) /\ (n.status \in ACTIVE_STATUSES <=> n.status \notin EXCLUDED_INCIDENT_STATUSES)
    BY ViewsAssumption DEF IncidentStored, Severity, ACTIVE_STATUSES, EXCLUDED_INCIDENT_STATUSES
  <2>3. {n \in shown(FALSE) : Severity(n.tier) = "tier_3"} = {n \in active : n.tier = 3}
    BY <2>2 DEF MapIncidents, Passes
  <2> QED
    BY <2>1, <2>3
<1>6. LET reported == ActiveIncidents(i.db, i.clock, << >>) IN
      /\ active \ reported = {n \in active : n.detected > i.clock}
      /\ reported \ active = {n \in i.db.incidents : n.resolved # Null /\ n.detected <= i.clock /\ i.clock < n.resolved}
  <2> DEFINE reported == ActiveIncidents(i.db, i.clock, << >>)
  <2>1. reported \subseteq i.db.incidents
    BY DEF ActiveIncidents, Scoped
  <2> HIDE DEF reported
  <2>2. \A n \in i.db.incidents :
          /\ n.status \in ACTIVE_STATUSES <=> n.resolved = Null
          /\ n \in reported <=> n.detected <= i.clock /\ (n.resolved = Null \/ n.resolved > i.clock)
          /\ n.detected \in Int /\ i.clock \in Int /\ (n.resolved # Null => n.resolved \in Int)
    BY ActiveByDate DEF reported
  <2>3. active \ reported = {n \in active : n.detected > i.clock}
    BY <2>2
  <2>4. reported \ active = {n \in i.db.incidents : n.resolved # Null /\ n.detected <= i.clock /\ i.clock < n.resolved}
    BY <2>1, <2>2
  <2> QED
    BY <2>3, <2>4 DEF reported
<1>7. (\A z \in i.db.zones : z.drawn) => SumOf([z \in MapZones(i.db, << >>) |-> z.active]) = Cardinality(active)
  BY ZonesOnMap
<1> QED
  BY <1>1, <1>4, <1>5, <1>6, <1>7 DEF ActiveCountsAgree

LEMMA QueueShown == ASSUME NEW i \in Pages PROVE QueueOnMap(i)
<1> DEFINE rows == i.db.detections
           with(s) == {d \in rows : d.status = s}
           onMap == MapDetections(i.db)
<1>1. SUFFICES ASSUME \A a \in i.db.assets : a.at # Null
               PROVE  /\ Cardinality(onMap) = QueueStats(i.db).status["new"] + QueueStats(i.db).status["queued"] + QueueStats(i.db).status["under_review"]
                      /\ {d \in rows : DetectionSummary(i.db, d).awaiting} \subseteq onMap
  BY DEF QueueOnMap
<1>2. \A s \in {"new", "queued", "under_review"} : QueueStats(i.db).status[s] = Cardinality(with(s))
  BY DEF QueueStats, CountOf
<1>3. \A d : d \in onMap <=> d \in rows /\ d.status \in {"new", "queued", "under_review"}
  BY <1>1, ViewsAssumption DEF MapDetections
<1>4. {d \in rows : DetectionSummary(i.db, d).awaiting} \subseteq onMap
  BY <1>3 DEF DetectionSummary
<1>5. \A s : IsFiniteSet(with(s))
  <2>1. \A s : with(s) \in SUBSET rows
    OBVIOUS
  <2> HIDE DEF with
  <2> QED
    BY <2>1, FS_Subset, ViewsAssumption
<1>6. \A d : d \in onMap <=> d \in with("new") \union with("queued") \/ d \in with("under_review")
  BY <1>3
<1>7. /\ \A d : ~ (d \in with("new") \union with("queued") /\ d \in with("under_review"))
      /\ with("new") \intersect with("queued") = {}
  OBVIOUS
<1> HIDE DEF with, onMap
<1>8. /\ IsFiniteSet(with("new") \union with("queued"))
      /\ Cardinality(with("new") \union with("queued")) = Cardinality(with("new")) + Cardinality(with("queued"))
  BY <1>5, <1>7, TwoParts
<1>9. Cardinality(onMap) = Cardinality(with("new") \union with("queued")) + Cardinality(with("under_review"))
  BY <1>5, <1>6, <1>7, <1>8, InTwoParts
<1> QED
  BY <1>2, <1>4, <1>8, <1>9

LEMMA NearestListed == ASSUME NEW i \in Pages PROVE NearestFirst(i)
<1> DEFINE kinds == {"asset", "pipeline", "incident"}
           near == {r \in UNION {NearbyRows(i.db, k) : k \in kinds} : Distance(r.at, i.origin) <= i.radius}
           onMap == {[kind |-> "asset", id |-> a.id] : a \in MapAssets(i.db, << >>, i.now)}
                    \union {[kind |-> "pipeline", id |-> s.id] : s \in MapPipelines(i.db, << >>)}
                    \union {[kind |-> "incident", id |-> n.id] : n \in MapIncidents(i.db, << >>, FALSE)}
<1>1. /\ \A a \in i.db.assets : a.at # Null => MapAsset(i.db, a, i.now) \in MapAssets(i.db, << >>, i.now)
      /\ \A s \in i.db.segments : s.at # Null => MapPipeline(i.db, s) \in MapPipelines(i.db, << >>)
      /\ \A n \in i.db.incidents : n.status \notin EXCLUDED_INCIDENT_STATUSES => n \in MapIncidents(i.db, << >>, FALSE)
  BY NoFilter DEF MapAssets, MapPipelines, MapIncidents, Passes
<1>6. (\A a : MapAsset(i.db, a, i.now).id = a.id) /\ (\A s : MapPipeline(i.db, s).id = s.id)
  BY DEF MapAsset, MapPipeline
<1>2. ASSUME NEW r \in near PROVE r.at \in Int /\ [kind |-> r.kind, id |-> r.id] \in onMap
  <2>1. CASE r \in NearbyRows(i.db, "asset")
    <3>1. PICK a \in i.db.assets : a.at # Null /\ r = [kind |-> "asset", id |-> a.id, at |-> a.at]
      BY <2>1 DEF NearbyRows
    <3> QED
      BY <1>1, <1>6, <3>1, ViewsAssumption
  <2>2. CASE r \in NearbyRows(i.db, "pipeline")
    <3>1. PICK s \in i.db.segments : s.at # Null /\ r = [kind |-> "pipeline", id |-> s.id, at |-> s.at]
      BY <2>2 DEF NearbyRows
    <3> QED
      BY <1>1, <1>6, <3>1, ViewsAssumption
  <2>3. CASE r \in NearbyRows(i.db, "incident")
    <3>1. PICK n \in i.db.incidents : n.status \notin EXCLUDED_INCIDENT_STATUSES /\ r = [kind |-> "incident", id |-> n.id, at |-> n.at]
      BY <2>3 DEF NearbyRows
    <3> QED
      BY <1>1, <3>1, ViewsAssumption DEF IncidentStored
  <2> QED
    BY <2>1, <2>2, <2>3
<1> HIDE DEF onMap
<1>3. ASSUME NEW list \in Nearby(i.db, i.origin, i.radius, kinds)
      PROVE  /\ \A k \in DOMAIN list : list[k] \in near
             /\ \A j, k \in DOMAIN list : j < k => ~ (Distance(list[k].at, i.origin) < Distance(list[j].at, i.origin))
  BY DEF Nearby, Listings, SetToSeqs
<1>4. \A place \in Int : Distance(place, i.origin) \in Int
  BY ViewsAssumption DEF Distance
<1> HIDE DEF near
<1>5. ASSUME NEW list \in Nearby(i.db, i.origin, i.radius, kinds)
      PROVE  /\ \A k \in DOMAIN list : [kind |-> list[k].kind, id |-> list[k].id] \in onMap
             /\ \A j, k \in DOMAIN list : j < k => Distance(list[j].at, i.origin) <= Distance(list[k].at, i.origin)
  <2>1. \A k \in DOMAIN list : list[k].at \in Int /\ [kind |-> list[k].kind, id |-> list[k].id] \in onMap
    BY <1>2, <1>3
  <2>2. ASSUME NEW j \in DOMAIN list, NEW k \in DOMAIN list, j < k
        PROVE  Distance(list[j].at, i.origin) <= Distance(list[k].at, i.origin)
    <3>1. PICK y \in Int : y = Distance(list[j].at, i.origin)
      BY <1>4, <2>1
    <3>2. PICK z \in Int : z = Distance(list[k].at, i.origin)
      BY <1>4, <2>1
    <3>3. ~ (z < y)
      BY <1>3, <2>2, <3>1, <3>2
    <3> QED
      BY <3>1, <3>2, <3>3
  <2> QED
    BY <2>1, <2>2
<1> QED
  BY <1>5 DEF NearestFirst, onMap

\* Each database is one that was assumed, whatever is tried before it.
THEOREM PagesHold == ViewsSpec => []PagesAgree
<1> USE DEF ActiveAgree, MaintenanceStates, ActiveBeforeResolved, RelatedMutual, OpenOnMap, NearbyOrder, For
<1> DEFINE Inv == subject = "views" => input \in Pages
<1>1. Untried => Inv
  BY DEF Untried
<1>2. Inv /\ [TryViews]_trial => Inv'
  BY DEF TryViews, Try, trial
<1>3. Inv => PagesAgree
  BY ActiveCounted, MaintenanceTold, ActiveComesFirst, RelatedBothWays, QueueShown, NearestListed DEF PagesAgree
<1> QED
  BY <1>1, <1>2, <1>3, PTL DEF ViewsSpec

-----------------------------------------------------------------------------
(***************************************************************************)
(* Charts: a finite set of integers has a greatest and a least.            *)
(***************************************************************************)
LEMMA GreatestIs ==
  ASSUME NEW S \in SUBSET Int, IsFiniteSet(S), S # {}
  PROVE  Max(S) \in S /\ \A y \in S : y <= Max(S)
<1> DEFINE Topped(s) == \E m \in s : \A y \in s : y <= m
           T == {n \in Nat : \A s \in SUBSET S : s # {} /\ Cardinality(s) <= n => Topped(s)}
<1>1. 0 \in T
  BY NoneIn
<1>2. ASSUME NEW s \in SUBSET S, s # {}, s \ {One(s)} # {} => Topped(s \ {One(s)}) PROVE Topped(s)
  <2> DEFINE k == One(s)
  <2>1. k \in s
    BY <1>2, OneIn
  <2>2. k \in Int /\ s \in SUBSET Int
    BY <2>1
  <2> HIDE DEF k
  <2>3. CASE s \ {k} = {}
    <3>1. \A y \in s : y = k
      BY <2>3
    <3> QED
      BY <2>1, <2>2, <3>1
  <2>4. CASE s \ {k} # {}
    <3>1. PICK m \in s \ {k} : \A y \in s \ {k} : y <= m
      BY <1>2, <2>4 DEF k
    <3>2. CASE k <= m
      BY <2>2, <3>1, <3>2
    <3>3. CASE ~(k <= m)
      <4>1. \A y \in s : y <= k
        BY <2>2, <3>1, <3>3
      <4> QED
        BY <2>1, <4>1
    <3> QED
      BY <3>2, <3>3
  <2> QED
    BY <2>3, <2>4
<1> HIDE DEF Topped
<1>3. ASSUME NEW n \in Nat, n \in T PROVE n + 1 \in T
  <2>1. ASSUME NEW s \in SUBSET S, Cardinality(s) <= n + 1, s # {} PROVE Topped(s)
    <3>1. PICK c \in Nat \ {0} : c = Cardinality(s)
      BY <2>1, FewerIn
    <3>2. c <= n + 1 /\ Cardinality(s \ {One(s)}) = c - 1 /\ s \ {One(s)} \in SUBSET S
      BY <2>1, <3>1, FewerIn
    <3>3. c - 1 <= n
      BY <3>2
    <3>4. s \ {One(s)} # {} => Topped(s \ {One(s)})
      BY <1>3, <3>2, <3>3
    <3> QED
      BY <1>2, <2>1, <3>4
  <2> QED
    BY <2>1
<1>4. \A n \in Nat : n \in T
  <2> HIDE DEF T
  <2> QED
    BY <1>1, <1>3, AllReached
<1>5. Topped(S)
  <2>1. PICK N \in Nat : N = Cardinality(S)
    BY FS_CardinalityType
  <2> QED
    BY <1>4, <2>1
<1>6. PICK m \in S : \A y \in S : m >= y
  BY <1>5 DEF Topped
<1> QED
  BY <1>6 DEF Max

LEMMA ImageThere ==
  ASSUME NEW g, NEW S, IsFiniteSet(S), S = DOMAIN g
  PROVE  \E N : IsFiniteSet(N) /\ \A y : y \in N <=> \E x \in S : y = g[x]
<1>1. IsFiniteSet({g[x] : x \in S})
  BY FiniteImage
<1> QED
  BY <1>1

LEMMA LeastIs ==
  ASSUME NEW S \in SUBSET Int, IsFiniteSet(S), S # {}
  PROVE  Min(S) \in S /\ \A y \in S : Min(S) <= y
<1>0. PICK g : DOMAIN g = S /\ \A x \in S : g[x] = 0 - x
  <2> DEFINE h == [x \in S |-> 0 - x]
  <2>1. DOMAIN h = S /\ \A x \in S : h[x] = 0 - x
    OBVIOUS
  <2> QED
    BY <2>1
<1>1. PICK N : IsFiniteSet(N) /\ \A y : y \in N <=> \E x \in S : y = g[x]
  <2>1. S = DOMAIN g
    BY <1>0
  <2> QED
    BY <2>1, ImageThere
<1>2. N \in SUBSET Int /\ N # {}
  <2>1. ASSUME NEW y \in N PROVE y \in Int
    BY <1>0, <1>1, <2>1
  <2>2. \E y : y \in N
    BY <1>1
  <2> QED
    BY <2>1, <2>2
<1>3. PICK m \in N : \A y \in N : y <= m
  BY <1>1, <1>2, GreatestIs
<1>4. PICK x \in S : m = 0 - x
  BY <1>0, <1>1, <1>3
<1>5. \A y \in S : x <= y
  <2>1. ASSUME NEW y \in S PROVE x <= y
    <3>1. 0 - y \in N
      BY <1>0, <1>1
    <3>2. 0 - y <= m
      BY <1>3, <3>1
    <3> QED
      BY <1>4, <3>2
  <2> QED
    BY <2>1
<1> QED
  BY <1>5 DEF Min

(* An average lies between the values it averages.                         *)
LEMMA SumWithin ==
  ASSUME NEW f, IsFiniteSet(DOMAIN f), NEW lo \in Int, NEW hi \in Int,
         \A k \in DOMAIN f : f[k] \in lo..hi
  PROVE  /\ SumOf(f) \in Int
         /\ lo * Cardinality(DOMAIN f) <= SumOf(f)
         /\ SumOf(f) <= hi * Cardinality(DOMAIN f)
<1> DEFINE D == DOMAIN f
           g == CHOOSE h : Summing(h, f, SUBSET D)
           Good(s) == g[s] \in Int /\ lo * Cardinality(s) <= g[s] /\ g[s] <= hi * Cardinality(s)
           T == {n \in Nat : \A s \in SUBSET D : Cardinality(s) <= n => Good(s)}
<1>1. SumOf(f) = g[D]
  BY DEF SumOf, MapThenSumSet, MapThenFoldSet, Summing, One
<1>2. Summing(g, f, SUBSET D)
  BY SumsThere
<1> HIDE DEF g
<1>3. Good({})
  <2>1. g[{}] = 0 /\ Cardinality({}) = 0
    BY <1>2, FS_EmptySet DEF Summing
  <2> QED
    BY <2>1
<1>4. ASSUME NEW s \in SUBSET D, s # {}, Good(s \ {One(s)}) PROVE Good(s)
  <2>1. One(s) \in D /\ f[One(s)] \in lo..hi
    BY <1>4, OneIn
  <2>2. PICK c \in Nat \ {0} : c = Cardinality(s)
    BY <1>4, FewerIn
  <2>3. Cardinality(s \ {One(s)}) = c - 1
    BY <1>4, <2>2, FewerIn
  <2>4. g[s] = f[One(s)] + g[s \ {One(s)}]
    BY <1>2, <1>4 DEF Summing
  <2>5. PICK a \in Int, b \in Int : a = f[One(s)] /\ b = g[s \ {One(s)}]
    BY <1>4, <2>1
  <2>6. lo <= a /\ a <= hi /\ lo * (c - 1) <= b /\ b <= hi * (c - 1)
    BY <1>4, <2>1, <2>3, <2>5
  <2>7. lo * (c - 1) = lo * c - lo /\ hi * (c - 1) = hi * c - hi
    OBVIOUS
  <2>8. lo * c \in Int /\ hi * c \in Int
    OBVIOUS
  <2>9. lo * c <= a + b /\ a + b <= hi * c
    BY <2>6, <2>7, <2>8
  <2> QED
    BY <2>2, <2>4, <2>5, <2>9
<1> HIDE DEF Good
<1>5. 0 \in T
  <2>1. ASSUME NEW s \in SUBSET D, Cardinality(s) <= 0 PROVE Good(s)
    BY <1>3, <2>1, NoneIn
  <2> QED
    BY <2>1
<1>6. ASSUME NEW n \in Nat, n \in T PROVE n + 1 \in T
  <2>1. ASSUME NEW s \in SUBSET D, Cardinality(s) <= n + 1, s # {} PROVE Good(s)
    <3>1. PICK c \in Nat \ {0} : c = Cardinality(s)
      BY <2>1, FewerIn
    <3>2. c <= n + 1 /\ Cardinality(s \ {One(s)}) = c - 1 /\ s \ {One(s)} \in SUBSET D
      BY <2>1, <3>1, FewerIn
    <3>3. c - 1 <= n
      BY <3>2
    <3>4. Good(s \ {One(s)})
      BY <1>6, <3>2, <3>3
    <3> QED
      BY <1>4, <2>1, <3>4
  <2> QED
    BY <1>3, <2>1
<1>7. \A n \in Nat : n \in T
  <2> HIDE DEF T
  <2> QED
    BY <1>5, <1>6, AllReached
<1>8. Good(D)
  <2>1. PICK N \in Nat : N = Cardinality(D)
    BY FS_CardinalityType
  <2>2. N \in T /\ Cardinality(D) <= N
    BY <1>7, <2>1
  <2> QED
    BY <2>2
<1> QED
  BY <1>1, <1>8 DEF Good

LEMMA SmallerFactor ==
  ASSUME NEW a \in Int, NEW b \in Int, NEW n \in Nat \ {0}, a * n < b * n
  PROVE  a < b
<1> SUFFICES ASSUME b <= a PROVE FALSE
  OBVIOUS
<1>1. PICK d \in Nat : a = b + d
  <2>1. a - b \in Nat /\ a = b + (a - b)
    OBVIOUS
  <2> QED
    BY <2>1
<1>2. a * n = b * n + d * n
  BY <1>1
<1>3. d * n \in Nat /\ b * n \in Int
  OBVIOUS
<1> QED
  BY <1>2, <1>3

LEMMA QuotientWithin ==
  ASSUME NEW s \in Int, NEW n \in Nat \ {0}, NEW lo \in Int, NEW hi \in Int,
         lo * n <= s, s <= hi * n
  PROVE  s \div n \in lo..hi
<1>1. PICK q \in Int : q = s \div n
  OBVIOUS
<1>2. q * n <= s /\ s < q * n + n
  BY <1>1
<1>3. q * n \in Int /\ lo * n \in Int /\ hi * n \in Int /\ (q + 1) * n = q * n + n /\ (hi + 1) * n = hi * n + n
  OBVIOUS
<1>4. lo * n < (q + 1) * n /\ q * n < (hi + 1) * n
  BY <1>2, <1>3
<1>5. lo < q + 1 /\ q < hi + 1
  BY <1>4, SmallerFactor
<1> QED
  BY <1>1, <1>5

LEMMA AvgWithin ==
  ASSUME NEW column, IsFiniteSet(DOMAIN column), NEW lo \in Int, NEW hi \in Int,
         \A x \in DOMAIN column : column[x] # Null => column[x] \in lo..hi, Avg(column) # Null
  PROVE  Avg(column) \in lo..hi
<1> DEFINE present == {x \in DOMAIN column : column[x] # Null}
           f == [x \in present |-> column[x]]
<1>1. present # {} /\ IsFiniteSet(present) /\ DOMAIN f = present /\ \A x \in present : f[x] \in lo..hi
  BY FS_Subset DEF Avg
<1>2. Avg(column) = SumOf(f) \div Cardinality(present)
  BY <1>1 DEF Avg
<1> HIDE DEF f, present
<1>3. PICK n \in Nat \ {0} : n = Cardinality(present)
  BY <1>1, FS_CardinalityType, FS_EmptySet
<1>4. PICK s \in Int : s = SumOf(f) /\ lo * n <= s /\ s <= hi * n
  BY <1>1, <1>3, SumWithin
<1> QED
  BY <1>2, <1>3, <1>4, QuotientWithin

LEMMA AvgOfSome ==
  ASSUME NEW column, Avg(column) # Null
  PROVE  \E x \in DOMAIN column : column[x] # Null
BY DEF Avg

(* A point of averages: its stamp, and its pressure between its rows'.      *)
LEMMA AveragedPoint ==
  ASSUME NEW rows, IsFiniteSet(rows), NEW stamp, NEW p \in Averaged(rows, stamp), p.kpa # Null
  PROVE  /\ \E x \in rows : stamp[x] = p.at /\ x.kpa # Null
         /\ \A lo, hi \in Int : (\A x \in rows : stamp[x] = p.at /\ x.kpa # Null => x.kpa \in lo..hi)
                                => p.kpa \in lo..hi
<1> DEFINE inside == {y \in rows : stamp[y] = p.at}
           column == [x \in inside |-> x["kpa"]]
           PointAt(b) == [at |-> b, kpa |-> Avg([x \in {y \in rows : stamp[y] = b} |-> x["kpa"]]),
                          loss |-> Avg([x \in {y \in rows : stamp[y] = b} |-> x["loss"]])]
<1>1. p.kpa = Avg(column)
  <2>1. PICK b : p = PointAt(b)
    BY DEF Averaged
  <2>2. p.at = b /\ p.kpa = Avg([x \in {y \in rows : stamp[y] = b} |-> x["kpa"]])
    BY <2>1
  <2> QED
    BY <2>2
<1>2. IsFiniteSet(inside) /\ DOMAIN column = inside /\ \A x \in inside : x \in rows /\ stamp[x] = p.at /\ column[x] = x.kpa
  BY FS_Subset
<1> HIDE DEF column, inside
<1>3. \E x \in rows : stamp[x] = p.at /\ x.kpa # Null
  BY <1>1, <1>2, AvgOfSome
<1>4. ASSUME NEW lo \in Int, NEW hi \in Int, \A x \in rows : stamp[x] = p.at /\ x.kpa # Null => x.kpa \in lo..hi
      PROVE  p.kpa \in lo..hi
  <2>1. \A x \in DOMAIN column : column[x] # Null => column[x] \in lo..hi
    BY <1>2, <1>4
  <2> QED
    BY <1>1, <1>2, <2>1, AvgWithin
<1> QED
  BY <1>3, <1>4

LEMMA AveragedForm ==
  ASSUME NEW rows, NEW stamp, NEW p \in Averaged(rows, stamp)
  PROVE  \E b, k, l : p = [at |-> b, kpa |-> k, loss |-> l]
<1> DEFINE Kpa(b)  == Avg([x \in {y \in rows : stamp[y] = b} |-> x["kpa"]])
           Loss(b) == Avg([x \in {y \in rows : stamp[y] = b} |-> x["loss"]])
<1>1. PICK b : p = [at |-> b, kpa |-> Kpa(b), loss |-> Loss(b)]
  BY DEF Averaged
<1> HIDE DEF Kpa, Loss
<1> QED
  BY <1>1

LEMMA AveragedStamps ==
  ASSUME NEW rows, NEW stamp, DOMAIN stamp = rows
  PROVE  /\ IsFiniteSet(rows) => IsFiniteSet(Averaged(rows, stamp))
         /\ \A p \in Averaged(rows, stamp) : \E x \in rows : p.at = stamp[x]
         /\ \A x \in rows : \E p \in Averaged(rows, stamp) : p.at = stamp[x]
<1> DEFINE PointAt(b) == [at |-> b, kpa |-> Avg([x \in {y \in rows : stamp[y] = b} |-> x["kpa"]]),
                          loss |-> Avg([x \in {y \in rows : stamp[y] = b} |-> x["loss"]])]
           g == [x \in rows |-> PointAt(stamp[x])]
<1>0. Averaged(rows, stamp) = {PointAt(b) : b \in {stamp[x] : x \in rows}}
  BY DEF Averaged
<1>1. Averaged(rows, stamp) = {g[x] : x \in rows}
  <2> HIDE DEF PointAt
  <2>1. \A p : p \in Averaged(rows, stamp) <=> \E x \in rows : p = g[x]
    BY <1>0
  <2> QED
    BY <2>1
<1>2. \A x \in rows : g[x].at = stamp[x]
  OBVIOUS
<1>3. DOMAIN g = rows
  OBVIOUS
<1> HIDE DEF g
<1>4. IsFiniteSet(rows) => IsFiniteSet({g[x] : x \in rows})
  BY <1>3, FiniteImage
<1> QED
  BY <1>1, <1>2, <1>4

(* The window, and what of a sensor's readings it shows.                   *)
LEMMA ChartGiven ==
  ASSUME NEW i \in Charts
  PROVE  /\ i.now \in Int /\ i.range \in {60, 360, 1440, 10080} /\ i.cap \in 1..2000
         /\ IsFiniteSet(i.db.assets) /\ IsFiniteSet(i.db.readings)
         /\ \A x \in i.db.readings : x.at \in Int /\ x.at # Null /\ (x.kpa = Null \/ x.kpa \in Int) /\ x.sensor \in SensorIds(i.db)
BY ChartsAssumption, NullAssumption DEF Ranges, Week, ReadingStored

LEMMA LimitIs == ASSUME NEW i \in Charts PROVE i.cap \in Int /\ i.cap > 0 /\ i.cap <= 2000
<1>1. i.cap \in 1..2000
  BY ChartGiven
<1>2. PICK c \in 1..2000 : c = i.cap
  BY <1>1
<1>3. c \in Int /\ c > 0 /\ c <= 2000
  OBVIOUS
<1> QED
  BY <1>2, <1>3

Newest(rows, last) == (\E x \in rows : x.at = last) /\ \A x \in rows : x.at <= last
LEMMA NewestIs ==
  ASSUME NEW i \in Charts, NEW rows \in SUBSET i.db.readings, rows # {}
  PROVE  Max({x.at : x \in rows}) \in Int /\ Newest(rows, Max({x.at : x \in rows}))
<1>1. PICK g : DOMAIN g = rows /\ \A x \in rows : g[x] = x.at
  <2> DEFINE h == [x \in rows |-> x.at]
  <2>1. DOMAIN h = rows /\ \A x \in rows : h[x] = x.at
    OBVIOUS
  <2> QED
    BY <2>1
<1>2. {x.at : x \in rows} = {g[x] : x \in rows}
  <2>1. \A y : y \in {x.at : x \in rows} <=> y \in {g[x] : x \in rows}
    BY <1>1
  <2> QED
    BY <2>1
<1>3. IsFiniteSet({x.at : x \in rows})
  <2>1. IsFiniteSet(rows)
    BY ChartGiven, FS_Subset
  <2>2. IsFiniteSet({g[x] : x \in rows})
    BY <1>1, <2>1, FiniteImage
  <2> QED
    BY <1>2, <2>2
<1>4. PICK S : S = {x.at : x \in rows}
  OBVIOUS
<1>5. S \in SUBSET Int /\ S # {}
  <2>1. \A x \in rows : x.at \in Int
    BY ChartGiven
  <2> QED
    BY <1>4, <2>1
<1>6. Max(S) \in S /\ \A y \in S : y <= Max(S)
  BY <1>3, <1>4, <1>5, GreatestIs
<1> QED
  BY <1>4, <1>5, <1>6 DEF Newest

LEMMA LatestIs ==
  ASSUME NEW i \in Charts
  PROVE  /\ i.db.readings = {} => LatestTime(i.db) = Null
         /\ i.db.readings # {} => LatestTime(i.db) \in Int /\ Newest(i.db.readings, LatestTime(i.db))
BY NewestIs DEF LatestTime

WindowAt(end, range) == [start |-> end - range, end |-> end, closed |-> TRUE, error |-> "none"]
AnchoredAt(i, end) ==
  /\ Anchored(i.db, i.range, i.now) = WindowAt(end, i.range)
  /\ LatestTime(i.db) # Null => end <= i.now
  /\ (LatestTime(i.db) # Null /\ LatestTime(i.db) <= i.now) => (end - i.range <= LatestTime(i.db) /\ LatestTime(i.db) <= end)
  /\ (LatestTime(i.db) # Null /\ i.now - LatestTime(i.db) <= 15) => end = i.now
LEMMA AnchoredIs == ASSUME NEW i \in Charts PROVE \E end \in Int : AnchoredAt(i, end)
<1>1. i.now \in Int /\ i.now # Null /\ i.range \in {60, 360, 1440, 10080}
  BY ChartGiven, NullAssumption
<1>2. PICK last : last = LatestTime(i.db) /\ (last = Null \/ last \in Int)
  BY LatestIs
<1> DEFINE end == IF last # Null /\ i.now - last > i.range THEN last ELSE i.now
<1>3. end \in Int
  BY <1>1, <1>2
<1>4. Anchored(i.db, i.range, i.now) = WindowFrom([range |-> i.range, start |-> Null, end |-> Null], end)
  BY <1>2 DEF Anchored, ResolveWindow, EndOf
<1> DEFINE q == [range |-> i.range, start |-> Null, end |-> Null]
<1>5. ASSUME NEW e \in Int PROVE WindowFrom(q, e) = WindowAt(e, i.range)
  <2>1. e - (e - i.range) = i.range /\ ~(i.range > 10080) /\ ~(e - i.range >= e)
    BY <1>1
  <2>2. q.start = Null /\ q.range = i.range /\ i.range \in Ranges
    BY <1>1 DEF Ranges, Week
  <2> HIDE DEF q
  <2> DEFINE from == e - i.range
             err == IF q.start = Null /\ q.range \notin Ranges THEN "invalid_range"
                    ELSE IF e - from > Week THEN "range_too_large"
                    ELSE IF from >= e THEN "invalid_range" ELSE "none"
  <2>3. err = "none"
    BY <2>1, <2>2 DEF Week
  <2>4. WindowFrom(q, e) = [start |-> from, end |-> e, closed |-> TRUE, error |-> err]
    BY <2>2 DEF WindowFrom
  <2> QED
    BY <2>3, <2>4 DEF WindowAt
<1>6. last # Null => /\ end <= i.now
                     /\ last <= i.now => (end - i.range <= last /\ last <= end)
                     /\ i.now - last <= 15 => end = i.now
  BY <1>1, <1>2
<1> HIDE DEF end
<1>7. AnchoredAt(i, end)
  BY <1>2, <1>3, <1>4, <1>5, <1>6 DEF AnchoredAt
<1> QED
  BY <1>3, <1>7

ShownAt(t, interval) == IF interval = 0 THEN t ELSE BucketOf(t, interval)
LEMMA ShownInOrder ==
  ASSUME NEW interval \in {0, 5, 15}, NEW t \in Int, NEW u \in Int
  PROVE  ShownAt(t, interval) \in Int /\ (t <= u => ShownAt(t, interval) <= ShownAt(u, interval))
<1>1. CASE interval = 0
  BY <1>1 DEF ShownAt
<1>2. CASE interval = 5
  BY <1>2 DEF ShownAt, BucketOf
<1>3. CASE interval = 15
  BY <1>3 DEF ShownAt, BucketOf
<1> QED
  BY <1>1, <1>2, <1>3

RowsShown(i, s, w, interval) ==
  /\ IsFiniteSet(Rows(i.db, s, w, interval))
  /\ \A p \in Rows(i.db, s, w, interval) : \E x \in OfSensor(i.db, s, w) : p.at = ShownAt(x.at, interval)
  /\ \A x \in OfSensor(i.db, s, w) : \E p \in Rows(i.db, s, w, interval) : p.at = ShownAt(x.at, interval)
LEMMA RowsAre ==
  ASSUME NEW i \in Charts, NEW s, NEW w, NEW interval \in {0, 5, 15}
  PROVE  RowsShown(i, s, w, interval)
<1> DEFINE rows == OfSensor(i.db, s, w)
<1>1. IsFiniteSet(rows)
  BY ChartGiven, FS_Subset DEF OfSensor
<1> HIDE DEF rows
<1>2. CASE interval = 0
  <2>1. PICK g : DOMAIN g = rows /\ \A x \in rows : g[x] = [at |-> x.at, kpa |-> x.kpa, loss |-> x.loss]
    <3> DEFINE h == [x \in rows |-> [at |-> x.at, kpa |-> x.kpa, loss |-> x.loss]]
    <3>1. DOMAIN h = rows /\ \A x \in rows : h[x] = [at |-> x.at, kpa |-> x.kpa, loss |-> x.loss]
      OBVIOUS
    <3> HIDE DEF h
    <3> QED
      BY <3>1
  <2>2. Rows(i.db, s, w, interval) = {[at |-> x.at, kpa |-> x.kpa, loss |-> x.loss] : x \in rows}
    BY <1>2 DEF Rows, rows
  <2>3. Rows(i.db, s, w, interval) = {g[x] : x \in rows}
    BY <2>1, <2>2
  <2>4. IsFiniteSet({g[x] : x \in rows})
    BY <1>1, <2>1, FiniteImage
  <2>5. \A x \in rows : g[x].at = x.at
    BY <2>1
  <2> QED
    BY <1>2, <2>3, <2>4, <2>5 DEF RowsShown, rows, ShownAt
<1>3. CASE interval # 0
  <2> DEFINE stamp == [x \in rows |-> BucketOf(x.at, interval)]
  <2>1. Rows(i.db, s, w, interval) = Averaged(rows, stamp)
    BY <1>3 DEF Rows, Bucketed, rows
  <2>2. DOMAIN stamp = rows /\ \A x \in rows : stamp[x] = ShownAt(x.at, interval)
    BY <1>3 DEF ShownAt
  <2> HIDE DEF stamp
  <2>3. /\ IsFiniteSet(Averaged(rows, stamp))
        /\ \A p \in Averaged(rows, stamp) : \E x \in rows : p.at = stamp[x]
        /\ \A x \in rows : \E p \in Averaged(rows, stamp) : p.at = stamp[x]
    BY <1>1, <2>2, AveragedStamps
  <2> QED
    BY <2>1, <2>2, <2>3 DEF RowsShown, rows
<1> QED
  BY <1>2, <1>3

LEMMA UncutRows ==
  ASSUME NEW rows, IsFiniteSet(rows), NEW cap \in Int, ~(Cardinality(rows) > cap)
  PROVE  FirstOf(rows, cap) = rows
<1>1. Cardinality(rows) \in Nat /\ Cardinality(rows) <= cap
  BY FS_CardinalityType
<1>2. ASSUME NEW x \in rows PROVE x \in FirstOf(rows, cap)
  <2> DEFINE before == {y \in rows : y.at <= x.at}
  <2>1. Cardinality(before) \in Nat /\ Cardinality(before) <= Cardinality(rows)
    BY FS_Subset, FS_CardinalityType
  <2> QED
    BY <1>1, <2>1 DEF FirstOf
<1> QED
  BY <1>2 DEF FirstOf

LEMMA EndsThere ==
  ASSUME NEW chart, NEW t \in Int, \E p \in chart : p.at = t, \A p \in chart : p.at \in Int /\ p.at <= t
  PROVE  EndsAt(chart, t)
<1>1. PICK S : S = {x.at : x \in chart}
  OBVIOUS
<1>2. t \in S /\ \A y \in S : y \in Int /\ y <= t
  BY <1>1
<1>3. Max(S) = t
  <2>1. \E x \in S : \A y \in S : x >= y
    BY <1>2
  <2>2. Max(S) \in S /\ \A y \in S : Max(S) >= y
    BY <2>1 DEF Max
  <2>3. PICK m : m = Max(S)
    OBVIOUS
  <2>4. m \in Int /\ m <= t /\ m >= t
    BY <1>2, <2>2, <2>3
  <2> QED
    BY <2>3, <2>4
<1> QED
  BY <1>1, <1>2, <1>3 DEF EndsAt

(* The dashboard's samples: a sensor's points, with the sensor.             *)
SampleOf(i, y) ==
  \E s \in SensorIds(i.db) : \E p \in Rows(i.db, s, Anchored(i.db, i.range, i.now), SeriesInterval(i.range)) :
    y = [sensor |-> s, at |-> p.at, kpa |-> p.kpa, loss |-> p.loss]
Sampled(i, s) ==
  ~Cut(i.db, s, Anchored(i.db, i.range, i.now), SeriesInterval(i.range), i.cap)
    => \A p \in Rows(i.db, s, Anchored(i.db, i.range, i.now), SeriesInterval(i.range)) :
         \E y \in Samples(i.db, i.range, i.now, i.cap) : y.at = p.at
LEMMA IntervalsAre == ASSUME NEW i \in Charts PROVE SeriesInterval(i.range) \in {5, 15} /\ HealthInterval(i.range) \in {0, 5, 15}
BY ChartGiven DEF SeriesInterval, HealthInterval

LEMMA SensorsFinite == ASSUME NEW i \in Charts PROVE IsFiniteSet(SensorIds(i.db))
<1>1. PICK g : DOMAIN g = {x \in i.db.assets : x.sensor} /\ \A x \in i.db.assets : x.sensor => g[x] = x.id
  <2> DEFINE h == [x \in {y \in i.db.assets : y.sensor} |-> x.id]
  <2>1. DOMAIN h = {x \in i.db.assets : x.sensor} /\ \A x \in i.db.assets : x.sensor => h[x] = x.id
    OBVIOUS
  <2> HIDE DEF h
  <2> QED
    BY <2>1
<1>2. SensorIds(i.db) = {g[x] : x \in {y \in i.db.assets : y.sensor}}
  BY <1>1 DEF SensorIds
<1>3. IsFiniteSet({y \in i.db.assets : y.sensor})
  BY ChartGiven, FS_Subset
<1>4. IsFiniteSet({g[x] : x \in {y \in i.db.assets : y.sensor}})
  BY <1>1, <1>3, FiniteImage
<1> QED
  BY <1>2, <1>4

LEMMA SamplesAre ==
  ASSUME NEW i \in Charts
  PROVE  /\ IsFiniteSet(Samples(i.db, i.range, i.now, i.cap))
         /\ \A y \in Samples(i.db, i.range, i.now, i.cap) : SampleOf(i, y)
         /\ \A s \in SensorIds(i.db) : Sampled(i, s)
<1> DEFINE w    == Anchored(i.db, i.range, i.now)
           step == SeriesInterval(i.range)
           rows(s) == FirstOf(Rows(i.db, s, w, step), i.cap)
           samples(s) == {[sensor |-> s, at |-> x.at, kpa |-> x.kpa, loss |-> x.loss] : x \in rows(s)}
           ids == SensorIds(i.db)
<1>1. Samples(i.db, i.range, i.now, i.cap) = UNION {samples(s) : s \in ids}
  <2>1. \A y : y \in Samples(i.db, i.range, i.now, i.cap) <=> \E s \in ids : y \in samples(s)
    BY DEF Samples
  <2> HIDE DEF samples, ids
  <2>2. PICK U : U = UNION {samples(s) : s \in ids}
    OBVIOUS
  <2>3. \A y : y \in U <=> \E s \in ids : y \in samples(s)
    BY <2>2
  <2>4. PICK V : V = Samples(i.db, i.range, i.now, i.cap)
    OBVIOUS
  <2>5. \A y : y \in V <=> y \in U
    BY <2>1, <2>3, <2>4
  <2>6. V = U
    BY <2>5
  <2> QED
    BY <2>2, <2>4, <2>6
<1>2. step \in {0, 5, 15} /\ i.cap \in Int
  <2>1. step \in {0, 5, 15}
    BY IntervalsAre
  <2>2. i.cap \in Int
    BY LimitIs
  <2> QED
    BY <2>1, <2>2
<1>3. \A s : IsFiniteSet(Rows(i.db, s, w, step))
  BY <1>2, RowsAre DEF RowsShown
<1> HIDE DEF w, step
<1>4. \A s : rows(s) \in SUBSET Rows(i.db, s, w, step)
  BY DEF FirstOf
<1>5. \A s : ~(Cardinality(Rows(i.db, s, w, step)) > i.cap) => rows(s) = Rows(i.db, s, w, step)
  BY <1>2, <1>3, UncutRows
<1>6. \A s : IsFiniteSet(rows(s))
  BY <1>3, <1>4, FS_Subset
<1> HIDE DEF rows
<1>7. ASSUME NEW s PROVE IsFiniteSet(samples(s))
  <2>1. PICK g : DOMAIN g = rows(s) /\ \A x \in rows(s) : g[x] = [sensor |-> s, at |-> x.at, kpa |-> x.kpa, loss |-> x.loss]
    <3> DEFINE h == [x \in rows(s) |-> [sensor |-> s, at |-> x.at, kpa |-> x.kpa, loss |-> x.loss]]
    <3>1. DOMAIN h = rows(s) /\ \A x \in rows(s) : h[x] = [sensor |-> s, at |-> x.at, kpa |-> x.kpa, loss |-> x.loss]
      OBVIOUS
    <3> HIDE DEF h
    <3> QED
      BY <3>1
  <2>2. samples(s) = {g[x] : x \in rows(s)}
    BY <2>1
  <2>3. IsFiniteSet({g[x] : x \in rows(s)})
    BY <1>6, <2>1, FiniteImage
  <2> QED
    BY <2>2, <2>3
<1>8. IsFiniteSet(ids)
  BY SensorsFinite
<1> HIDE DEF ids, samples
<1>9. IsFiniteSet(UNION {samples(s) : s \in ids})
  <2>1. PICK g : DOMAIN g = ids /\ \A s \in ids : g[s] = samples(s)
    <3> DEFINE h == [s \in ids |-> samples(s)]
    <3>1. DOMAIN h = ids /\ \A s \in ids : h[s] = samples(s)
      OBVIOUS
    <3> QED
      BY <3>1
  <2>2. {samples(s) : s \in ids} = {g[s] : s \in ids}
    BY <2>1
  <2>3. IsFiniteSet({g[s] : s \in ids})
    BY <1>8, <2>1, FiniteImage
  <2>4. \A x \in {samples(s) : s \in ids} : IsFiniteSet(x)
    BY <1>7
  <2> QED
    BY <2>2, <2>3, <2>4, FS_UNION
<1>10. \A y \in Samples(i.db, i.range, i.now, i.cap) : SampleOf(i, y)
  BY <1>1, <1>4 DEF SampleOf, ids, samples, w, step
<1>11. ASSUME NEW s \in SensorIds(i.db) PROVE Sampled(i, s)
  <2> SUFFICES ASSUME ~Cut(i.db, s, w, step, i.cap), NEW p \in Rows(i.db, s, w, step)
               PROVE  \E y \in Samples(i.db, i.range, i.now, i.cap) : y.at = p.at
    BY DEF Sampled, w, step
  <2>1. p \in rows(s)
    BY <1>5 DEF Cut
  <2>2. [sensor |-> s, at |-> p.at, kpa |-> p.kpa, loss |-> p.loss] \in samples(s)
    BY <2>1 DEF samples
  <2>3. [sensor |-> s, at |-> p.at, kpa |-> p.kpa, loss |-> p.loss].at = p.at
    OBVIOUS
  <2> QED
    BY <1>1, <2>2, <2>3 DEF ids
<1> QED
  BY <1>1, <1>9, <1>10, <1>11

LEMMA SeriesReaches == ASSUME NEW i \in Charts PROVE SeriesReachesLatest(i)
<1> DEFINE w    == Anchored(i.db, i.range, i.now)
           step == SeriesInterval(i.range)
           last == LatestTime(i.db)
           samples == Samples(i.db, i.range, i.now, i.cap)
           series == DashboardSeries(i.db, i.range, i.now, i.cap)
<1> SUFFICES ASSUME last # Null, last <= i.now, \A s \in SensorIds(i.db) : ~Cut(i.db, s, w, step, i.cap)
             PROVE  EndsAt(series, BucketOf(last, step))
  BY DEF SeriesReachesLatest
<1>1. step \in {0, 5, 15} /\ step # 0
  BY IntervalsAre
<1>2. last \in Int /\ Newest(i.db.readings, last)
  BY LatestIs
<1>3. PICK end \in Int : AnchoredAt(i, end)
  BY AnchoredIs
<1>4. w = WindowAt(end, i.range) /\ end - i.range <= last /\ last <= end
  BY <1>3 DEF AnchoredAt
<1>5. \A s : RowsShown(i, s, w, step)
  BY <1>1, RowsAre
<1>6. /\ \A y \in samples : SampleOf(i, y)
      /\ \A s \in SensorIds(i.db) : Sampled(i, s)
  BY SamplesAre
<1>7. \E y \in samples : y.at = ShownAt(last, step)
  <2>1. PICK x \in i.db.readings : x.at = last
    BY <1>2 DEF Newest
  <2>2. In(x.at, w)
    BY <1>4, <2>1 DEF In, WindowAt
  <2>3. x.sensor \in SensorIds(i.db) /\ x \in OfSensor(i.db, x.sensor, w)
    BY <2>2, ChartGiven DEF OfSensor
  <2>4. PICK p \in Rows(i.db, x.sensor, w, step) : p.at = ShownAt(last, step)
    BY <1>5, <2>1, <2>3 DEF RowsShown
  <2> QED
    BY <1>6, <2>3, <2>4 DEF Sampled
<1>8. ASSUME NEW y \in samples PROVE y.at \in Int /\ y.at <= ShownAt(last, step)
  <2>0. PICK s \in SensorIds(i.db) : \E p \in Rows(i.db, s, w, step) : y = [sensor |-> s, at |-> p.at, kpa |-> p.kpa, loss |-> p.loss]
    BY <1>6 DEF SampleOf
  <2>1. PICK p \in Rows(i.db, s, w, step) : y = [sensor |-> s, at |-> p.at, kpa |-> p.kpa, loss |-> p.loss]
    BY <2>0
  <2>2. PICK x \in OfSensor(i.db, s, w) : p.at = ShownAt(x.at, step)
    BY <1>5 DEF RowsShown
  <2>3. x.at \in Int /\ x.at <= last
    BY <1>2, ChartGiven DEF OfSensor, Newest
  <2> HIDE DEF step, last
  <2>4. ShownAt(x.at, step) \in Int /\ ShownAt(x.at, step) <= ShownAt(last, step)
    BY <1>1, <1>2, <2>3, ShownInOrder
  <2>5. y.at = p.at
    BY <2>1
  <2> QED
    BY <2>2, <2>4, <2>5
<1> DEFINE stamp == [x \in samples |-> x.at]
<1>9. series = Averaged(samples, stamp) /\ DOMAIN stamp = samples /\ \A x \in samples : stamp[x] = x.at
  BY DEF DashboardSeries
<1> HIDE DEF stamp, series, samples, step, last, w
<1>10. /\ \A p \in series : \E x \in samples : p.at = stamp[x]
       /\ \A x \in samples : \E p \in series : p.at = stamp[x]
  BY <1>9, AveragedStamps
<1>11. ShownAt(last, step) \in Int /\ ShownAt(last, step) = BucketOf(last, step)
  BY <1>1, <1>2, ShownInOrder DEF ShownAt
<1>12. (\E p \in series : p.at = ShownAt(last, step)) /\ \A p \in series : p.at \in Int /\ p.at <= ShownAt(last, step)
  BY <1>7, <1>8, <1>9, <1>10
<1> QED
  BY <1>11, <1>12, EndsThere

OfOne(i, s) == {x \in i.db.readings : x.sensor = s}
HeardLast(i, s, t) ==
  /\ OfOne(i, s) = {} => t = Null
  /\ OfOne(i, s) # {} => t \in Int /\ Newest(OfOne(i, s), t)
LEMMA LatestOfIs ==
  ASSUME NEW i \in Charts, NEW now, NEW s
  PROVE  /\ HeardLast(i, s, LatestOf(i.db, s, now).at)
         /\ LatestOf(i.db, s, now).freshness = Classify(LatestOf(i.db, s, now).at, now)
<1> DEFINE rows == OfOne(i, s)
           t == IF rows = {} THEN Null ELSE Max({x.at : x \in rows})
<1>1. LatestOf(i.db, s, now).at = t /\ LatestOf(i.db, s, now).freshness = Classify(t, now)
  BY DEF LatestOf, OfOne
<1>2. rows \in SUBSET i.db.readings
  BY DEF OfOne
<1> HIDE DEF rows
<1>3. rows # {} => t \in Int /\ Newest(rows, t)
  BY <1>2, NewestIs
<1>4. HeardLast(i, s, t)
  BY <1>3 DEF HeardLast, rows
<1> HIDE DEF t
<1> QED
  BY <1>1, <1>4

LEMMA HealthItems ==
  ASSUME NEW i \in Charts, NEW s \in SensorIds(i.db)
  PROVE  SensorHealth(i.db, s, i.range, i.now, i.cap).items =
           {Selected(x, Metrics) : x \in FirstOf(Rows(i.db, s, Anchored(i.db, i.range, i.now), HealthInterval(i.range)), i.cap)}
<1> DEFINE w == Anchored(i.db, i.range, i.now)
           step == HealthInterval(i.range)
           q == [range |-> i.range, start |-> w.start, end |-> w.end, limit |-> Null, metrics |-> Metrics, interval |-> step]
<1>1. PICK end \in Int : w = WindowAt(end, i.range)
  BY AnchoredIs DEF AnchoredAt
<1>2. SensorHealth(i.db, s, i.range, i.now, i.cap).items = History(i.db, s, q, i.now, i.cap).items
  BY DEF SensorHealth
<1>3. /\ q.range = i.range /\ q.start = end - i.range /\ q.end = end /\ q.limit = Null
      /\ q.metrics = Metrics /\ q.interval = step
  BY <1>1 DEF WindowAt
<1>4. step \in {0, 5, 15} /\ i.range \in {60, 360, 1440, 10080}
  BY IntervalsAre, ChartGiven
<1> HIDE DEF q
<1>5. EndOf(q, i.now) = end
  BY <1>3, NullAssumption DEF EndOf
<1>6. WindowFrom(q, end) = w
  <2>1. end - (end - i.range) = i.range /\ ~(i.range > 10080) /\ ~(end - i.range >= end) /\ q.start # Null
    BY <1>3, <1>4, NullAssumption
  <2> DEFINE from == end - i.range
             err == IF q.start = Null /\ q.range \notin Ranges THEN "invalid_range"
                    ELSE IF end - from > Week THEN "range_too_large"
                    ELSE IF from >= end THEN "invalid_range" ELSE "none"
  <2>2. err = "none"
    BY <2>1 DEF Week
  <2>3. WindowFrom(q, end) = [start |-> from, end |-> end, closed |-> TRUE, error |-> err]
    BY <1>3, <2>1 DEF WindowFrom
  <2> QED
    BY <1>1, <2>2, <2>3 DEF WindowAt
<1> DEFINE limit == Min({2000, IF q.limit \in {Null, 0} THEN i.cap ELSE q.limit})
           metrics == IF q.metrics = {} THEN Metrics ELSE q.metrics
           error == IF ~\E a \in i.db.assets : a.id = s THEN "not_found"
                    ELSE IF ~IsSensor(i.db, s) THEN "not_a_sensor"
                    ELSE IF w.error # "none" THEN w.error
                    ELSE IF q.interval \notin {0, 1, 5, 15, 60} THEN "invalid_interval"
                    ELSE IF ~ metrics \subseteq Metrics THEN "invalid_metrics"
                    ELSE IF limit < 1 THEN "invalid_limit" ELSE "none"
<1>7. History(i.db, s, q, i.now, i.cap) =
        [error |-> error,
         items |-> IF error = "none" THEN {Selected(x, metrics) : x \in FirstOf(Rows(i.db, s, w, q.interval), limit)} ELSE {}]
  <2> HIDE DEF w
  <2> QED
    BY <1>5, <1>6 DEF History
<1>8. limit = i.cap /\ ~(limit < 1)
  <2>1. PICK c \in Int : c = i.cap /\ c > 0 /\ c <= 2000
    BY LimitIs
  <2>2. limit = Min({2000, c})
    BY <1>3, <2>1
  <2> DEFINE S == {2000, c}
  <2>3. \A y : y \in S <=> y = 2000 \/ y = c
    OBVIOUS
  <2> HIDE DEF S
  <2>4. c \in S /\ \A y \in S : c <= y
    BY <2>1, <2>3
  <2>5. Min(S) \in S /\ \A y \in S : Min(S) <= y
    BY <2>4 DEF Min
  <2>6. PICK m : m = Min(S)
    OBVIOUS
  <2>7. m = c
    BY <2>3, <2>4, <2>5, <2>6
  <2>8. limit = c
    BY <2>2, <2>6, <2>7 DEF S
  <2> HIDE DEF limit
  <2> QED
    BY <2>1, <2>8
<1>9. metrics = Metrics
  BY <1>3
<1>10. w.error = "none"
  BY <1>1 DEF WindowAt
<1>11. IsSensor(i.db, s) /\ \E a \in i.db.assets : a.id = s
  BY DEF IsSensor, SensorIds
<1> HIDE DEF limit, metrics, w, step
<1>12. error = "none"
  BY <1>3, <1>4, <1>8, <1>9, <1>10, <1>11
<1> HIDE DEF error
<1>13. History(i.db, s, q, i.now, i.cap).items = {Selected(x, Metrics) : x \in FirstOf(Rows(i.db, s, w, step), i.cap)}
  BY <1>3, <1>7, <1>8, <1>9, <1>12
<1> QED
  BY <1>2, <1>13 DEF w, step

LEMMA HealthReaches == ASSUME NEW i \in Charts PROVE HealthReachesLatest(i)
<1> DEFINE w    == Anchored(i.db, i.range, i.now)
           step == HealthInterval(i.range)
           page(s) == SensorHealth(i.db, s, i.range, i.now, i.cap)
<1> SUFFICES ASSUME NEW s \in SensorIds(i.db), page(s).freshness = "fresh", page(s).lastAt <= i.now,
                    ~Cut(i.db, s, w, step, i.cap)
             PROVE  EndsAt(page(s).items, ShownAt(page(s).lastAt, step))
  BY DEF HealthReachesLatest, ShownAt
<1>1. step \in {0, 5, 15}
  BY IntervalsAre
<1>2. PICK t : t = LatestOf(i.db, s, i.now).at
  OBVIOUS
<1>3. page(s).lastAt = t /\ Classify(t, i.now) = "fresh" /\ HeardLast(i, s, t)
  BY <1>2, LatestOfIs DEF SensorHealth
<1>4. t # Null /\ i.now - t <= 15
  BY <1>3 DEF Classify
<1>5. t \in Int /\ t <= i.now /\ Newest(OfOne(i, s), t)
  BY <1>3, <1>4 DEF HeardLast
<1>6. PICK end \in Int : AnchoredAt(i, end)
  BY AnchoredIs
<1>7. PICK x \in OfOne(i, s) : x.at = t
  BY <1>5 DEF Newest
<1>8. w = WindowAt(end, i.range) /\ end = i.now
  <2>1. LatestTime(i.db) \in Int /\ t <= LatestTime(i.db)
    BY <1>7, LatestIs DEF OfOne, Newest
  <2>2. LatestTime(i.db) # Null /\ i.now \in Int
    BY <2>1, NullAssumption, ChartGiven
  <2>3. i.now - LatestTime(i.db) <= 15
    BY <1>4, <1>5, <2>1, <2>2
  <2> QED
    BY <1>6, <2>2, <2>3 DEF AnchoredAt
<1>9. x \in OfSensor(i.db, s, w)
  <2>1. i.range \in {60, 360, 1440, 10080} /\ i.now \in Int
    BY ChartGiven
  <2>2. i.now - i.range <= t
    BY <1>4, <1>5, <2>1
  <2>3. In(t, w)
    BY <1>4, <1>5, <1>8, <2>2 DEF In, WindowAt
  <2> QED
    BY <1>7, <2>3 DEF OfSensor, OfOne
<1>10. \A y \in OfSensor(i.db, s, w) : y.at \in Int /\ y.at <= t
  BY <1>5, ChartGiven DEF OfSensor, OfOne, Newest
<1>11. RowsShown(i, s, w, step)
  BY <1>1, RowsAre
<1> DEFINE rows == Rows(i.db, s, w, step)
<1>12. page(s).items = {Selected(p, Metrics) : p \in rows}
  <2>1. page(s).items = {Selected(p, Metrics) : p \in FirstOf(rows, i.cap)}
    BY HealthItems
  <2>2. ~(Cardinality(rows) > i.cap) /\ IsFiniteSet(rows) /\ i.cap \in Int
    BY <1>11, LimitIs DEF Cut, RowsShown
  <2> HIDE DEF rows
  <2>3. FirstOf(rows, i.cap) = rows
    BY <2>2, UncutRows
  <2> QED
    BY <2>1, <2>3
<1> HIDE DEF w, step, page
<1>13. (\E p \in rows : p.at = ShownAt(t, step)) /\ \A p \in rows : p.at \in Int /\ p.at <= ShownAt(t, step)
  <2>1. \A y \in OfSensor(i.db, s, w) : ShownAt(y.at, step) \in Int /\ ShownAt(y.at, step) <= ShownAt(t, step)
    BY <1>1, <1>5, <1>10, ShownInOrder
  <2> QED
    BY <1>7, <1>9, <1>11, <2>1 DEF RowsShown
<1> HIDE DEF rows
<1>14. \A p : Selected(p, Metrics).at = p.at
  BY DEF Selected
<1>15. (\E p \in page(s).items : p.at = ShownAt(t, step)) /\ \A p \in page(s).items : p.at \in Int /\ p.at <= ShownAt(t, step)
  BY <1>12, <1>13, <1>14
<1>16. ShownAt(t, step) \in Int
  BY <1>1, <1>5, ShownInOrder
<1> QED
  BY <1>3, <1>15, <1>16, EndsThere

(* What a sample's pressure is drawn from.                                 *)
LEMMA SeenIs ==
  ASSUME NEW i \in Charts, NEW t
  PROVE  /\ SeenAt(i, t) \in SUBSET Int /\ IsFiniteSet(SeenAt(i, t))
         /\ \A r \in i.db.readings : BucketOf(r.at, SeriesInterval(i.range)) = t /\ r.kpa # Null => r.kpa \in SeenAt(i, t)
<1> DEFINE rows == {y \in i.db.readings : BucketOf(y.at, SeriesInterval(i.range)) = t}
<1>1. \A r \in rows : r \in i.db.readings /\ (r.kpa = Null \/ r.kpa \in Int)
  BY ChartGiven
<1>2. IsFiniteSet(rows)
  BY ChartGiven, FS_Subset
<1>3. SeenAt(i, t) = {r.kpa : r \in rows} \ {Null}
  BY DEF SeenAt
<1>4. \A r \in i.db.readings : BucketOf(r.at, SeriesInterval(i.range)) = t => r \in rows
  OBVIOUS
<1> HIDE DEF rows
<1>5. PICK g : DOMAIN g = rows /\ \A r \in rows : g[r] = r.kpa
  <2> DEFINE h == [r \in rows |-> r.kpa]
  <2>1. DOMAIN h = rows /\ \A r \in rows : h[r] = r.kpa
    OBVIOUS
  <2> HIDE DEF h
  <2> QED
    BY <2>1
<1>6. {r.kpa : r \in rows} = {g[r] : r \in rows}
  BY <1>5
<1>7. IsFiniteSet({g[r] : r \in rows})
  BY <1>2, <1>5, FiniteImage
<1>8. SeenAt(i, t) \in SUBSET {g[r] : r \in rows}
  BY <1>3, <1>6
<1>9. IsFiniteSet(SeenAt(i, t))
  BY <1>7, <1>8, FS_Subset
<1>10. SeenAt(i, t) \in SUBSET Int
  BY <1>1, <1>3
<1>11. \A r \in i.db.readings : BucketOf(r.at, SeriesInterval(i.range)) = t /\ r.kpa # Null => r.kpa \in SeenAt(i, t)
  BY <1>3, <1>4
<1> QED
  BY <1>9, <1>10, <1>11

\* A value drawn from what was seen: something was, and the value lies between.
Drawn(kpas, v) == kpas # {} /\ \A lo, hi \in Int : (\A u \in kpas : u \in lo..hi) => v \in lo..hi
LEMMA SampleDrawn ==
  ASSUME NEW i \in Charts, NEW y \in Samples(i.db, i.range, i.now, i.cap), y.kpa # Null
  PROVE  Drawn(SeenAt(i, y.at), y.kpa)
<1> DEFINE w    == Anchored(i.db, i.range, i.now)
           step == SeriesInterval(i.range)
<1>1. PICK s \in SensorIds(i.db) : \E p \in Rows(i.db, s, w, step) : y = [sensor |-> s, at |-> p.at, kpa |-> p.kpa, loss |-> p.loss]
  BY SamplesAre DEF SampleOf
<1>2. PICK p \in Rows(i.db, s, w, step) : y = [sensor |-> s, at |-> p.at, kpa |-> p.kpa, loss |-> p.loss]
  BY <1>1
<1>3. y.at = p.at /\ y.kpa = p.kpa
  BY <1>2
<1> DEFINE rows == OfSensor(i.db, s, w)
           stamp == [x \in rows |-> BucketOf(x.at, step)]
<1>4. Rows(i.db, s, w, step) = Averaged(rows, stamp)
  <2>1. step # 0
    BY IntervalsAre
  <2> QED
    BY <2>1 DEF Rows, Bucketed
<1>5. IsFiniteSet(rows) /\ \A x \in rows : x \in i.db.readings /\ stamp[x] = BucketOf(x.at, step)
  BY ChartGiven, FS_Subset DEF OfSensor
<1>6. \A x \in rows : stamp[x] = y.at /\ x.kpa # Null => x.kpa \in SeenAt(i, y.at)
  BY <1>5, SeenIs
<1> HIDE DEF rows, stamp
<1>7. /\ \E x \in rows : stamp[x] = p.at /\ x.kpa # Null
      /\ \A lo, hi \in Int : (\A x \in rows : stamp[x] = p.at /\ x.kpa # Null => x.kpa \in lo..hi) => p.kpa \in lo..hi
  <2>1. p \in Averaged(rows, stamp) /\ p.kpa # Null
    BY <1>3, <1>4
  <2> QED
    BY <1>5, <2>1, AveragedPoint
<1>8. SeenAt(i, y.at) # {}
  BY <1>3, <1>6, <1>7
<1>9. ASSUME NEW lo \in Int, NEW hi \in Int, \A u \in SeenAt(i, y.at) : u \in lo..hi PROVE y.kpa \in lo..hi
  <2>1. \A x \in rows : stamp[x] = p.at /\ x.kpa # Null => x.kpa \in lo..hi
    BY <1>3, <1>6, <1>9
  <2> QED
    BY <1>3, <1>7, <2>1
<1> QED
  BY <1>8, <1>9 DEF Drawn

LEMMA PointsWithin == ASSUME NEW i \in Charts PROVE PointsWithinReadings(i)
<1> DEFINE samples == Samples(i.db, i.range, i.now, i.cap)
           stamp == [x \in samples |-> x.at]
           series == DashboardSeries(i.db, i.range, i.now, i.cap)
<1> SUFFICES ASSUME NEW x \in DashboardPoints(i.db, i.range, i.now, i.cap)
             PROVE  SeenAt(i, x.at) # {} /\ x.kpa \in Min(SeenAt(i, x.at))..Max(SeenAt(i, x.at))
  BY DEF PointsWithinReadings
<1>1. series = Averaged(samples, stamp) /\ \A y \in samples : stamp[y] = y.at
  BY DEF DashboardSeries
<1>2. PICK p \in series : p.kpa # Null /\ x = [p EXCEPT !.loss = IF @ = Null THEN 0 ELSE @]
  BY DEF DashboardPoints
<1>3. x.at = p.at /\ x.kpa = p.kpa
  <2>1. PICK b, k, l : p = [at |-> b, kpa |-> k, loss |-> l]
    BY <1>1, AveragedForm
  <2> HIDE DEF series, samples, stamp
  <2> QED
    BY <1>2, <2>1
<1>4. IsFiniteSet(samples) /\ \A y \in samples : y.kpa # Null => Drawn(SeenAt(i, y.at), y.kpa)
  BY SamplesAre, SampleDrawn
<1> HIDE DEF series, samples, stamp
<1>5. /\ \E y \in samples : stamp[y] = p.at /\ y.kpa # Null
      /\ \A lo, hi \in Int : (\A y \in samples : stamp[y] = p.at /\ y.kpa # Null => y.kpa \in lo..hi) => p.kpa \in lo..hi
  BY <1>1, <1>2, <1>4, AveragedPoint
<1>6. SeenAt(i, p.at) # {}
  BY <1>1, <1>4, <1>5 DEF Drawn
<1>7. PICK kpas : kpas = SeenAt(i, p.at)
  OBVIOUS
<1>8. kpas \in SUBSET Int /\ IsFiniteSet(kpas) /\ kpas # {}
  BY <1>6, <1>7, SeenIs
<1>9. /\ Max(kpas) \in kpas /\ \A u \in kpas : u <= Max(kpas)
      /\ Min(kpas) \in kpas /\ \A u \in kpas : Min(kpas) <= u
  BY <1>8, GreatestIs, LeastIs
<1>10. PICK lo \in Int, hi \in Int : lo = Min(kpas) /\ hi = Max(kpas)
  BY <1>8, <1>9
<1>11. \A u \in kpas : u \in lo..hi
  BY <1>8, <1>9, <1>10
<1>12. \A y \in samples : stamp[y] = p.at /\ y.kpa # Null => y.kpa \in lo..hi
  BY <1>1, <1>4, <1>7, <1>11 DEF Drawn
<1>13. p.kpa \in lo..hi
  BY <1>5, <1>12
<1> QED
  BY <1>3, <1>6, <1>7, <1>10, <1>13

(* Who is fresh: one row for a sensor on every page.                       *)
LEMMA SameCount ==
  ASSUME NEW g, IsFiniteSet(DOMAIN g), \A x, y \in DOMAIN g : g[x] = g[y] => x = y,
         NEW T, \A y : y \in T <=> \E x \in DOMAIN g : y = g[x]
  PROVE  Cardinality(T) = Cardinality(DOMAIN g)
<1> DEFINE h == [x \in DOMAIN g |-> g[x]]
<1>1. h \in [DOMAIN g -> T] /\ \A x \in DOMAIN g : h[x] = g[x]
  OBVIOUS
<1> HIDE DEF h
<1>2. h \in Injection(DOMAIN g, T)
  BY <1>1 DEF Injection, IsInjective
<1>3. h \in Surjection(DOMAIN g, T)
  BY <1>1 DEF Surjection
<1>4. h \in Bijection(DOMAIN g, T)
  BY <1>2, <1>3 DEF Bijection
<1>5. ExistsBijection(DOMAIN g, T)
  BY <1>4 DEF ExistsBijection
<1> QED
  BY <1>5, FS_Bijection



LEMMA FreshCounted ==
  ASSUME NEW i \in Charts, NEW now, NEW state
  PROVE  LET batch   == {[id |-> s, latest |-> LatestOf(i.db, s, now)] : s \in SensorIds(i.db)}
             sensors == [sensors |-> {[id |-> s, zone |-> "z1"] : s \in SensorIds(i.db)}, readings |-> i.db.readings]
             fresh   == {s \in SensorIds(i.db) : LatestOf(i.db, s, now).freshness = state}
         IN  /\ Cardinality({b \in batch : b.latest.freshness = state}) = Cardinality(fresh)
             /\ Cardinality({s \in Sensors(sensors, << >>) : Classify(LatestReading(sensors, s), now) = state}) = Cardinality(fresh)
<1> DEFINE batch   == {[id |-> s, latest |-> LatestOf(i.db, s, now)] : s \in SensorIds(i.db)}
           sensors == [sensors |-> {[id |-> s, zone |-> "z1"] : s \in SensorIds(i.db)}, readings |-> i.db.readings]
           fresh   == {s \in SensorIds(i.db) : LatestOf(i.db, s, now).freshness = state}
           shown   == {b \in batch : b.latest.freshness = state}
           counted == {s \in Sensors(sensors, << >>) : Classify(LatestReading(sensors, s), now) = state}
<1>1. IsFiniteSet(fresh)
  BY SensorsFinite, FS_Subset
<1>2. Cardinality(shown) = Cardinality(fresh)
  <2> DEFINE Row(s) == [id |-> s, latest |-> LatestOf(i.db, s, now)]
  <2>1. \A s : Row(s).id = s /\ Row(s).latest.freshness = LatestOf(i.db, s, now).freshness
    OBVIOUS
  <2>2. \A y : y \in batch <=> \E s \in SensorIds(i.db) : y = Row(s)
    OBVIOUS
  <2> HIDE DEF Row, batch
  <2>3. \A y : y \in shown <=> \E s \in fresh : y = Row(s)
    BY <2>1, <2>2
  <2> HIDE DEF fresh, shown
  <2>4. PICK g : DOMAIN g = fresh /\ \A s \in fresh : g[s] = Row(s)
    <3> DEFINE h == [s \in fresh |-> Row(s)]
    <3>1. DOMAIN h = fresh /\ \A s \in fresh : h[s] = Row(s)
      OBVIOUS
    <3> HIDE DEF h
    <3> QED
      BY <3>1
  <2>5. \A x, y \in DOMAIN g : g[x] = g[y] => x = y
    BY <2>1, <2>4
  <2>6. \A y : y \in shown <=> \E x \in DOMAIN g : y = g[x]
    BY <2>3, <2>4
  <2> QED
    BY <1>1, <2>4, <2>5, <2>6, SameCount
<1>3. Cardinality(counted) = Cardinality(fresh)
  <2>1. PICK g : DOMAIN g = fresh /\ \A s \in fresh : g[s] = [id |-> s, zone |-> "z1"]
    <3> DEFINE h == [s \in fresh |-> [id |-> s, zone |-> "z1"]]
    <3>1. DOMAIN h = fresh /\ \A s \in fresh : h[s] = [id |-> s, zone |-> "z1"]
      OBVIOUS
    <3> HIDE DEF h
    <3> QED
      BY <3>1
  <2>2. \A x, y \in DOMAIN g : g[x] = g[y] => x = y
    <3> HIDE DEF fresh
    <3>1. \A x \in DOMAIN g : g[x].id = x
      BY <2>1
    <3> QED
      BY <3>1
  <2>3. ASSUME NEW s PROVE LatestReading(sensors, [id |-> s, zone |-> "z1"]) = LatestOf(i.db, s, now).at
    <3> DEFINE ats == {r.at : r \in OfOne(i, s)}
    <3>1. LatestReading(sensors, [id |-> s, zone |-> "z1"]) = IF ats = {} THEN Null ELSE Max(ats)
      BY DEF LatestReading, OfOne
    <3>2. LatestOf(i.db, s, now).at = IF OfOne(i, s) = {} THEN Null ELSE Max(ats)
      BY DEF LatestOf, OfOne
    <3>3. ats = {} <=> OfOne(i, s) = {}
      OBVIOUS
    <3> HIDE DEF ats
    <3> QED
      BY <3>1, <3>2, <3>3
  <2>4. Sensors(sensors, << >>) = {[id |-> s, zone |-> "z1"] : s \in SensorIds(i.db)}
    <3>1. sensors.sensors = {[id |-> s, zone |-> "z1"] : s \in SensorIds(i.db)}
      OBVIOUS
    <3> HIDE DEF sensors
    <3>2. \A x : x \in Sensors(sensors, << >>) <=> x \in sensors.sensors
      BY NoFilter DEF Sensors, InScope
    <3> QED
      BY <3>1, <3>2
  <2> HIDE DEF sensors
  <2>5. \A s : Classify(LatestReading(sensors, [id |-> s, zone |-> "z1"]), now) = LatestOf(i.db, s, now).freshness
    BY <2>3, LatestOfIs
  <2>6. \A y : y \in counted <=> \E x \in DOMAIN g : y = g[x]
    BY <2>1, <2>4, <2>5
  <2> HIDE DEF fresh, counted
  <2> QED
    BY <1>1, <2>1, <2>2, <2>6, SameCount
<1> QED
  BY <1>2, <1>3

LEMMA SummaryEndsThere ==
  ASSUME NEW i \in Charts
  PROVE  NetworkSummary(i.db, i.now).lastAt = LatestTime(i.db)
<1> DEFINE batch == {[id |-> s, latest |-> LatestOf(i.db, s, i.now)] : s \in SensorIds(i.db)}
           times == {b.latest.at : b \in batch} \ {Null}
           Heard(s) == LatestOf(i.db, s, i.now).at
<1>1. NetworkSummary(i.db, i.now).lastAt = IF times = {} THEN Null ELSE Max(times)
  BY DEF NetworkSummary
<1>2. \A t : t \in times <=> t # Null /\ \E s \in SensorIds(i.db) : t = Heard(s)
  <2> HIDE DEF Heard
  <2>1. \A t : t \in {b.latest.at : b \in batch} <=> \E s \in SensorIds(i.db) : t = [id |-> s, latest |-> LatestOf(i.db, s, i.now)].latest.at
    OBVIOUS
  <2>2. \A s : [id |-> s, latest |-> LatestOf(i.db, s, i.now)].latest.at = Heard(s)
    BY DEF Heard
  <2> QED
    BY <2>1, <2>2
<1>3. \A s : HeardLast(i, s, Heard(s))
  BY LatestOfIs
<1> HIDE DEF Heard, batch, times
<1>4. CASE i.db.readings = {}
  <2>1. LatestTime(i.db) = Null
    BY <1>4, LatestIs
  <2>2. \A s : Heard(s) = Null
    BY <1>3, <1>4 DEF HeardLast, OfOne
  <2>3. times = {}
    BY <1>2, <2>2
  <2> QED
    BY <1>1, <2>1, <2>3
<1>5. CASE i.db.readings # {}
  <2>1. PICK last \in Int : last = LatestTime(i.db) /\ Newest(i.db.readings, last)
    BY <1>5, LatestIs
  <2>2. PICK x \in i.db.readings : x.at = last
    BY <2>1 DEF Newest
  <2>3. x \in OfOne(i, x.sensor) /\ x.sensor \in SensorIds(i.db)
    BY ChartGiven DEF OfOne
  <2>4. \A t \in times : t \in Int /\ t <= last
    <3>1. ASSUME NEW t \in times PROVE t \in Int /\ t <= last
      <4>1. PICK s : t = Heard(s) /\ t # Null
        BY <1>2
      <4>2. t \in Int /\ \E y \in OfOne(i, s) : y.at = t
        BY <1>3, <4>1 DEF HeardLast, Newest
      <4> QED
        BY <2>1, <4>2 DEF Newest, OfOne
    <3> QED
      BY <3>1
  <2>5. Heard(x.sensor) = last
    <3>1. PICK t : t = Heard(x.sensor)
      OBVIOUS
    <3>2. t \in Int /\ Newest(OfOne(i, x.sensor), t)
      BY <1>3, <2>3, <3>1 DEF HeardLast
    <3>3. last <= t /\ t <= last
      BY <2>1, <2>2, <2>3, <3>2 DEF Newest, OfOne
    <3> QED
      BY <3>1, <3>2, <3>3
  <2>6. last \in times
    BY <1>2, <2>3, <2>5, NullAssumption
  <2>7. Max(times) = last
    <3>1. \E t \in times : \A y \in times : t >= y
      BY <2>4, <2>6
    <3>2. Max(times) \in times /\ \A y \in times : Max(times) >= y
      BY <3>1 DEF Max
    <3>3. PICK m : m = Max(times)
      OBVIOUS
    <3>4. m \in Int /\ m <= last /\ m >= last
      BY <2>4, <2>6, <3>2, <3>3
    <3> QED
      BY <3>3, <3>4
  <2> QED
    BY <1>1, <2>1, <2>6, <2>7
<1> QED
  BY <1>4, <1>5

\* A sensor fresh later was fresh at the earlier moment, and one offline then is offline later.
LEMMA EarlierIsFresher ==
  ASSUME NEW i \in Charts, NEW s, i.clock <= i.now
  PROVE  /\ LatestOf(i.db, s, i.now).freshness = "fresh" => LatestOf(i.db, s, i.clock).freshness = "fresh"
         /\ LatestOf(i.db, s, i.clock).freshness = "offline" => LatestOf(i.db, s, i.now).freshness = "offline"
<1>1. PICK t : t = LatestOf(i.db, s, i.now).at
  OBVIOUS
<1>2. LatestOf(i.db, s, i.clock).at = t
  BY <1>1 DEF LatestOf
<1>3. t = Null \/ t \in Int
  BY <1>1, LatestOfIs DEF HeardLast
<1>4. /\ LatestOf(i.db, s, i.now).freshness = Classify(t, i.now)
      /\ LatestOf(i.db, s, i.clock).freshness = Classify(t, i.clock)
  BY <1>1, <1>2, LatestOfIs
<1>5. i.now \in Int /\ i.clock \in Int
  BY ChartsAssumption
<1>6. CASE t = Null
  BY <1>4, <1>6 DEF Classify
<1>7. CASE t # Null
  BY <1>3, <1>4, <1>5, <1>7 DEF Classify
<1> QED
  BY <1>6, <1>7

LEMMA FreshEverywhere == ASSUME NEW i \in Charts PROVE FreshnessAgrees(i)
<1> DEFINE Batch(now) == {[id |-> s, latest |-> LatestOf(i.db, s, now)] : s \in SensorIds(i.db)}
           sensors == [sensors |-> {[id |-> s, zone |-> "z1"] : s \in SensorIds(i.db)}, readings |-> i.db.readings]
           states  == {"fresh", "stale", "offline"}
           Told(now, state)    == {s \in SensorIds(i.db) : LatestOf(i.db, s, now).freshness = state}
           Fresh(now, state)   == Cardinality(Told(now, state))
           Shown(now, state)   == Cardinality({b \in Batch(now) : b.latest.freshness = state})
           Counted(now, state) == Cardinality({s \in Sensors(sensors, << >>) : Classify(LatestReading(sensors, s), now) = state})
<1>1. \A now, state : Shown(now, state) = Fresh(now, state) /\ Counted(now, state) = Fresh(now, state)
  BY FreshCounted
<1>2. \A now : NetworkSummary(i.db, now).byState = [state \in states |-> Shown(now, state)]
  BY DEF NetworkSummary
<1>3. Freshness(sensors, << >>, i.clock) = [state \in states |-> Counted(i.clock, state)]
  BY DEF Freshness
<1>4. Fresh(i.now, "fresh") = Cardinality({s \in SensorIds(i.db) : SensorHealth(i.db, s, i.range, i.now, i.cap).freshness = "fresh"})
  BY DEF SensorHealth
<1>5. \A now, state : IsFiniteSet(Told(now, state)) /\ Fresh(now, state) \in Nat
  <2>1. \A now, state : Told(now, state) \in SUBSET SensorIds(i.db)
    OBVIOUS
  <2> HIDE DEF Told
  <2> QED
    BY <2>1, SensorsFinite, FS_Subset, FS_CardinalityType
<1>6. i.clock <= i.now => /\ Fresh(i.clock, "fresh") >= Fresh(i.now, "fresh")
                         /\ Fresh(i.clock, "offline") <= Fresh(i.now, "offline")
  <2>1. SUFFICES ASSUME i.clock <= i.now
                 PROVE  Fresh(i.clock, "fresh") >= Fresh(i.now, "fresh") /\ Fresh(i.clock, "offline") <= Fresh(i.now, "offline")
    OBVIOUS
  <2>2. Told(i.now, "fresh") \in SUBSET Told(i.clock, "fresh") /\ Told(i.clock, "offline") \in SUBSET Told(i.now, "offline")
    BY <2>1, EarlierIsFresher
  <2> HIDE DEF Told
  <2>3. Fresh(i.now, "fresh") <= Fresh(i.clock, "fresh") /\ Fresh(i.clock, "offline") <= Fresh(i.now, "offline")
    BY <1>5, <2>2, FS_Subset
  <2> HIDE DEF Fresh
  <2> QED
    BY <1>5, <2>3
<1> HIDE DEF Fresh, Shown, Counted, Told
<1>7. Freshness(sensors, << >>, i.clock) = NetworkSummary(i.db, i.clock).byState
  BY <1>1, <1>2, <1>3
<1>8. \A now : \A state \in states : NetworkSummary(i.db, now).byState[state] = Fresh(now, state)
  BY <1>1, <1>2
<1>9. NetworkSummary(i.db, i.now).byState["fresh"] = Cardinality({s \in SensorIds(i.db) : SensorHealth(i.db, s, i.range, i.now, i.cap).freshness = "fresh"})
  BY <1>4, <1>8
<1>10. i.clock <= i.now =>
         /\ Freshness(sensors, << >>, i.clock)["fresh"] >= NetworkSummary(i.db, i.now).byState["fresh"]
         /\ Freshness(sensors, << >>, i.clock)["offline"] <= NetworkSummary(i.db, i.now).byState["offline"]
  BY <1>6, <1>7, <1>8
<1> QED
  BY <1>7, <1>9, <1>10, SummaryEndsThere DEF FreshnessAgrees

\* Whatever readings are stored: the dashboard's chart and a fresh sensor's end at the newest
\* reading there is, unless the limit cuts them or it is dated later than now; every point
\* lies between the readings of its bucket; and the pages agree on who is fresh,
\* the reports as of their own clock (services/telemetry.py, analytics.py).
THEOREM ChartsHold == ChartsSpec => []ChartsTrue
<1> DEFINE Tried == subject = "telemetry" => input \in Charts
<1>1. Untried => Tried
  BY DEF Untried
<1>2. Tried /\ [TryTelemetry]_trial => Tried'
  BY DEF TryTelemetry, Try, trial
<1>3. Tried => ChartsTrue
  BY SeriesReaches, HealthReaches, PointsWithin, FreshEverywhere
     DEF ChartsTrue, ChartsCurrent, PointsTrue, FreshAgree, For, ChartsReachLatest
<1> QED
  BY <1>1, <1>2, <1>3, PTL DEF ChartsSpec
=============================================================================
