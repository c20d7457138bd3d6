---------------------------- MODULE ThreatAlerts ----------------------------
(***************************************************************************)
(* How the investigation agent turns telemetry windows into alerts         *)
(* (agents/investigation_agent/aia/pipeline.py).  process_batch detects,   *)
(* investigates, registers and reports; it runs in the thread of the Redis *)
(* listener and in those of POST /v1/investigate (aia/api.py), and all     *)
(* share one ActiveIncidentTracker and one RetryTracker without a lock.    *)
(*                                                                         *)
(* One statement of a tracker method is one step: a test, the read of what *)
(* was tested, the clear it decided on and each dict the clear pops are    *)
(* steps of their own.  A read raises KeyError when another thread has     *)
(* removed the key, and the whole batch is lost with it.                   *)
(*                                                                         *)
(* Abstracted: what a window measures (each is found normal or suspicious),*)
(* the verdict of the investigation graph, severity tiers (active_tiers    *)
(* with them), elapsed time (an incident grows old at any moment), the     *)
(* archive.                                                                *)
(***************************************************************************)
EXTENDS FiniteSets, Naturals

CONSTANTS
  Clusters,    \* sensor clusters
  Callers,     \* threads that run process_batch
  Windows,     \* <<cluster, n>>: the windows a batch may hold
  Batches,     \* the sets of windows that arrive as a batch
  Threshold,   \* normal_clear_threshold
  MaxRetries,  \* MAX_INSUFFICIENT_DATA_RETRIES; retries are counted up to it
  Faults       \* "forward": handing the output on, to Redis or the platform, may fail

ASSUME WindowsAssumption   == Windows \subseteq Clusters \X Nat
ASSUME BatchesAssumption   == Batches \subseteq SUBSET Windows
ASSUME ThresholdAssumption == Threshold \in Nat \ {0}
ASSUME RetriesAssumption   == MaxRetries \in Nat \ {0}
ASSUME FaultsAssumption    == Faults \subseteq {"forward"}

VARIABLES
  pc,         \* control point of each caller
  todo,       \* windows it has still to detect
  found,      \* windows it has to investigate
  confirmed,  \* windows it has to register
  threats,    \* windows reported in its output
  cur,        \* window it is handling in a tracker method
  clearer,    \* the method that called clear, or "none"
  active,     \* keys of active_incidents
  old,        \* active incidents past cooldown_seconds
  keyed,      \* keys of normal_counts
  normals,    \* normal_counts
  retries,    \* consecutive_cycles, up to MaxRetries
  by,         \* history: callers that registered the current incident
  racing,     \* history: callers past their test when it was first registered
  alerted,    \* history: incidents whose alert reached the platform
  lost        \* history: incidents with an alert lost on the way

lists   == <<todo, found, confirmed, threats>>
tracker == <<active, old, keyed, normals>>
history == <<by, racing, alerted, lost>>
vars == <<pc, lists, cur, clearer, tracker, retries, history>>

InMethod == {"count", "compare", "suspect", "clear", "drop", "lookup", "reset", "enter", "zero"}
Points   == InMethod \union {"idle", "detect", "investigate", "register", "forward"}
Clearers == {"record_normal", "_run_detection", "register_incident"}

TypeOK ==
  /\ pc \in [Callers -> Points]
  /\ todo \in [Callers -> SUBSET Windows]
  /\ found \in [Callers -> SUBSET Windows]
  /\ confirmed \in [Callers -> SUBSET Windows]
  /\ threats \in [Callers -> SUBSET Windows]
  /\ cur \in [Callers -> Windows \union {<<>>}]
  /\ \A t \in Callers : pc[t] \in InMethod => cur[t] \in Windows
  /\ clearer \in [Callers -> Clearers \union {"none"}]
  /\ active \subseteq Clusters
  /\ old \subseteq active
  /\ keyed \subseteq Clusters
  /\ normals \in [Clusters -> Nat]
  /\ retries \in [Clusters -> 0..MaxRetries]
  /\ by \in [Clusters -> SUBSET Callers]
  /\ racing \in [Clusters -> SUBSET Callers]
  /\ alerted \subseteq Clusters
  /\ lost \subseteq Clusters

Init ==
  /\ pc = [t \in Callers |-> "idle"]
  /\ todo = [t \in Callers |-> {}]
  /\ found = [t \in Callers |-> {}]
  /\ confirmed = [t \in Callers |-> {}]
  /\ threats = [t \in Callers |-> {}]
  /\ cur = [t \in Callers |-> <<>>]
  /\ clearer = [t \in Callers |-> "none"]
  /\ active = {} /\ old = {} /\ keyed = {}
  /\ normals = [c \in Clusters |-> 0]
  /\ retries = [c \in Clusters |-> 0]
  /\ by = [c \in Clusters |-> {}]
  /\ racing = [c \in Clusters |-> {}]
  /\ alerted = {} /\ lost = {}

ClusterOf(w) == w[1]
Hold(t, w)   == cur' = [cur EXCEPT ![t] = w]
Goto(t, p)   == pc' = [pc EXCEPT ![t] = p]
Put(t, w, list)  == [list EXCEPT ![t] = @ \union {w}]
Drop(t, w, list) == [list EXCEPT ![t] = @ \ {w}]

\* Incidents caller t registered whose alert is in its output, or in its return value.
Reported(t) ==
  {c \in Clusters :
     /\ t \in by[c]
     /\ \/ \E w \in threats[t] : ClusterOf(w) = c
        \/ pc[t] = "zero" /\ ClusterOf(cur[t]) = c}

\* Callers that will register c, having found no incident of it.
Entering(c) ==
  {t \in Callers :
     /\ pc[t] = "enter" \/ (pc[t] = "drop" /\ clearer[t] = "register_incident")
     /\ ClusterOf(cur[t]) = c}

\* A KeyError leaves process_batch: its output is gone, its registrations stay.
Fails(t) ==
  /\ todo' = [todo EXCEPT ![t] = {}]
  /\ found' = [found EXCEPT ![t] = {}]
  /\ confirmed' = [confirmed EXCEPT ![t] = {}]
  /\ threats' = [threats EXCEPT ![t] = {}]
  /\ lost' = lost \union Reported(t)
  /\ Goto(t, "idle")
  /\ Hold(t, <<>>)
  /\ UNCHANGED <<clearer, tracker, retries, by, racing, alerted>>

(***************************************************************************)
(* clear, whoever calls it: active_incidents, then normal_counts.          *)
(***************************************************************************)
Calls(t, method) ==
  /\ clearer' = [clearer EXCEPT ![t] = method]
  /\ Goto(t, "clear")
  /\ UNCHANGED cur

ClearIncident(t) ==
  /\ pc[t] = "clear"
  /\ LET c == ClusterOf(cur[t]) IN
       /\ active' = active \ {c}
       /\ old' = old \ {c}
       /\ by' = [by EXCEPT ![c] = {}]
       /\ racing' = [racing EXCEPT ![c] = {}]
       /\ alerted' = alerted \ {c}
       /\ lost' = lost \ {c}
  /\ Goto(t, "drop")
  /\ UNCHANGED <<lists, cur, clearer, keyed, normals, retries>>

\* The method that called clear goes on: the window is investigated after all, or its
\* incident registered anew.
ClearCount(t) ==
  /\ pc[t] = "drop"
  /\ LET c == ClusterOf(cur[t]) IN
       /\ keyed' = keyed \ {c}
       /\ normals' = [normals EXCEPT ![c] = 0]
  /\ clearer' = [clearer EXCEPT ![t] = "none"]
  /\ IF clearer[t] = "register_incident"
       THEN Goto(t, "enter") /\ UNCHANGED cur
       ELSE Goto(t, "detect") /\ Hold(t, <<>>)
  /\ found' = IF clearer[t] = "_run_detection" THEN Put(t, cur[t], found) ELSE found
  /\ UNCHANGED <<todo, confirmed, threats, active, old, retries, history>>

ZeroNormals(c) ==
  /\ keyed' = keyed \union {c}
  /\ normals' = [normals EXCEPT ![c] = 0]

\* An incident is past its ten minutes.
Age(c) ==
  /\ c \in active \ old
  /\ old' = old \union {c}
  /\ UNCHANGED <<clearer, pc, lists, cur, active, keyed, normals, retries, history>>

Receive(t) ==
  /\ pc[t] = "idle"
  /\ \E batch \in Batches : todo' = [todo EXCEPT ![t] = batch]
  /\ Goto(t, "detect")
  /\ UNCHANGED <<found, confirmed, threats, cur, clearer, tracker, retries, history>>

(***************************************************************************)
(* _run_detection and record_normal.                                       *)
(***************************************************************************)
WindowNormal(t, w) ==
  /\ pc[t] = "detect"
  /\ w \in todo[t]
  /\ todo' = Drop(t, w, todo)
  /\ IF ClusterOf(w) \in active
       THEN Hold(t, w) /\ Goto(t, "count")
       ELSE UNCHANGED <<cur, pc>>
  /\ UNCHANGED <<clearer, found, confirmed, threats, tracker, retries, history>>

Count(t) ==
  /\ pc[t] = "count"
  /\ LET c == ClusterOf(cur[t]) IN
       /\ keyed' = keyed \union {c}
       /\ normals' = [normals EXCEPT ![c] = IF c \in keyed THEN @ + 1 ELSE 1]
  /\ Goto(t, "compare")
  /\ UNCHANGED <<clearer, lists, cur, active, old, retries, history>>

CompareCalm(t) ==
  /\ pc[t] = "compare"
  /\ LET c == ClusterOf(cur[t]) IN
       /\ c \in keyed
       /\ IF normals[c] >= Threshold
            THEN Calls(t, "record_normal")
            ELSE Goto(t, "detect") /\ Hold(t, <<>>) /\ UNCHANGED clearer
  /\ UNCHANGED <<lists, tracker, retries, history>>

CompareRaises(t) ==
  /\ pc[t] = "compare"
  /\ ClusterOf(cur[t]) \notin keyed
  /\ Fails(t)

WindowSuspicious(t, w) ==
  /\ pc[t] = "detect"
  /\ w \in todo[t]
  /\ todo' = Drop(t, w, todo)
  /\ IF ClusterOf(w) \in active
       THEN Hold(t, w) /\ Goto(t, "suspect") /\ UNCHANGED found
       ELSE found' = Put(t, w, found) /\ UNCHANGED <<cur, pc>>
  /\ UNCHANGED <<clearer, confirmed, threats, tracker, retries, history>>

SuspectKept(t) ==          \* mutant: an old incident goes on suppressing
  /\ pc[t] = "suspect"
  /\ ClusterOf(cur[t]) \in active
  /\ Goto(t, "detect")
  /\ Hold(t, <<>>)
  /\ UNCHANGED <<clearer, lists, tracker, retries, history>>

\* is_active, its second half: suppress, or let go of an old incident.
Suspect(t) ==
  /\ pc[t] = "suspect"
  /\ ClusterOf(cur[t]) \in active
  /\ IF ClusterOf(cur[t]) \in old
       THEN Calls(t, "_run_detection")
       ELSE Goto(t, "detect") /\ Hold(t, <<>>) /\ UNCHANGED clearer
  /\ UNCHANGED <<lists, tracker, retries, history>>

SuspectRaises(t) ==
  /\ pc[t] = "suspect"
  /\ ClusterOf(cur[t]) \notin active
  /\ Fails(t)

\* detect_and_learn: any window may be found normal or suspicious.
Detect(t, w) == WindowNormal(t, w) \/ WindowSuspicious(t, w)

DetectionEnds(t) ==
  /\ pc[t] = "detect"
  /\ todo[t] = {}
  /\ Goto(t, "investigate")
  /\ UNCHANGED <<clearer, lists, cur, tracker, retries, history>>

(***************************************************************************)
(* _investigate_cluster: an error of the graph counts as a confirmed       *)
(* anomaly; insufficient data is counted and escalated in the log only.    *)
(***************************************************************************)
InvestigateConfirmed(t, w) ==
  /\ pc[t] = "investigate"
  /\ w \in found[t]
  /\ found' = Drop(t, w, found)
  /\ confirmed' = Put(t, w, confirmed)
  /\ retries' = [retries EXCEPT ![ClusterOf(w)] = 0]
  /\ UNCHANGED <<clearer, pc, todo, threats, cur, tracker, history>>

InvestigateOther(t, w) ==
  /\ pc[t] = "investigate"
  /\ w \in found[t]
  /\ found' = Drop(t, w, found)
  /\ retries' = [retries EXCEPT ![ClusterOf(w)] = 0]
  /\ UNCHANGED <<clearer, pc, todo, confirmed, threats, cur, tracker, history>>

InvestigateInsufficient(t, w) ==
  /\ pc[t] = "investigate"
  /\ w \in found[t]
  /\ found' = Drop(t, w, found)
  /\ retries' = [retries EXCEPT ![ClusterOf(w)] = IF @ < MaxRetries THEN @ + 1 ELSE @]
  /\ UNCHANGED <<clearer, pc, todo, confirmed, threats, cur, tracker, history>>

\* The investigation graph may reach any verdict.
Investigate(t, w) ==
  InvestigateConfirmed(t, w) \/ InvestigateOther(t, w) \/ InvestigateInsufficient(t, w)

InvestigationEnds(t) ==
  /\ pc[t] = "investigate"
  /\ found[t] = {}
  /\ Goto(t, "register")
  /\ UNCHANGED <<clearer, lists, cur, tracker, retries, history>>

(***************************************************************************)
(* The registration loop of process_batch and register_incident.           *)
(***************************************************************************)
RegisterUnchecked(t, w) ==   \* mutant: every confirmed window is alerted
  /\ pc[t] = "register"
  /\ w \in confirmed[t]
  /\ confirmed' = Drop(t, w, confirmed)
  /\ Hold(t, w)
  /\ Goto(t, "enter")
  /\ UNCHANGED <<clearer, todo, found, threats, tracker, retries, history>>

Register(t, w) ==
  /\ pc[t] = "register"
  /\ w \in confirmed[t]
  /\ confirmed' = Drop(t, w, confirmed)
  /\ Hold(t, w)
  /\ Goto(t, IF ClusterOf(w) \in active THEN "lookup" ELSE "enter")
  /\ UNCHANGED <<clearer, todo, found, threats, tracker, retries, history>>

Lookup(t) ==
  /\ pc[t] = "lookup"
  /\ ClusterOf(cur[t]) \in active
  /\ IF ClusterOf(cur[t]) \in old
       THEN Calls(t, "register_incident")
       ELSE Goto(t, "reset") /\ UNCHANGED <<cur, clearer>>
  /\ UNCHANGED <<lists, tracker, retries, history>>

\* Still anomalous: the count of normal windows starts again.
Reset(t) ==
  /\ pc[t] = "reset"
  /\ ZeroNormals(ClusterOf(cur[t]))
  /\ Goto(t, "register")
  /\ Hold(t, <<>>)
  /\ UNCHANGED <<lists, clearer, active, old, retries, history>>

LookupRaises(t) ==
  /\ pc[t] = "lookup"
  /\ ClusterOf(cur[t]) \notin active
  /\ Fails(t)

\* The incident of the cluster in hand begins, or begins again.
Activate(t, c) ==
  /\ active' = active \union {c}
  /\ old' = old \ {c}
  /\ by' = [by EXCEPT ![c] = @ \union {t}]
  /\ racing' = [racing EXCEPT ![c] = IF c \in active THEN @ ELSE Entering(c)]

EnterQuiet(t) ==            \* mutant: registers as update_incident would, unreported
  /\ pc[t] = "enter"
  /\ Activate(t, ClusterOf(cur[t]))
  /\ Goto(t, "register")
  /\ Hold(t, <<>>)
  /\ UNCHANGED <<lists, clearer, keyed, normals, retries, alerted, lost>>

Enter(t) ==
  /\ pc[t] = "enter"
  /\ Activate(t, ClusterOf(cur[t]))
  /\ Goto(t, "zero")
  /\ UNCHANGED <<lists, cur, clearer, keyed, normals, retries, alerted, lost>>

\* ... and the window goes into the output with its alert.
Zero(t) ==
  /\ pc[t] = "zero"
  /\ ZeroNormals(ClusterOf(cur[t]))
  /\ threats' = Put(t, cur[t], threats)
  /\ Goto(t, "register")
  /\ Hold(t, <<>>)
  /\ UNCHANGED <<todo, found, confirmed, clearer, active, old, retries, history>>

RegistrationEnds(t) ==
  /\ pc[t] = "register"
  /\ confirmed[t] = {}
  /\ Goto(t, IF threats[t] = {} THEN "idle" ELSE "forward")
  /\ UNCHANGED <<clearer, lists, cur, tracker, retries, history>>

(***************************************************************************)
(* forward_to_aquapulse_platform: one attempt, an error is only logged.    *)
(***************************************************************************)
Forward(t) ==
  /\ pc[t] = "forward"
  /\ \/ alerted' = alerted \union Reported(t) /\ UNCHANGED lost
     \/ "forward" \in Faults /\ lost' = lost \union Reported(t) /\ UNCHANGED alerted
  /\ threats' = [threats EXCEPT ![t] = {}]
  /\ Goto(t, "idle")
  /\ UNCHANGED <<clearer, todo, found, confirmed, cur, tracker, retries, by, racing>>

ProcessBatch(t) ==
  \/ \E w \in Windows : Detect(t, w) \/ Investigate(t, w) \/ Register(t, w)
  \/ Count(t) \/ CompareCalm(t) \/ CompareRaises(t)
  \/ Suspect(t) \/ SuspectRaises(t) \/ DetectionEnds(t)
  \/ InvestigationEnds(t)
  \/ ClearIncident(t) \/ ClearCount(t)
  \/ Lookup(t) \/ LookupRaises(t) \/ Reset(t) \/ Enter(t) \/ Zero(t) \/ RegistrationEnds(t)
  \/ Forward(t)

Next ==
  \/ \E c \in Clusters : Age(c)
  \/ \E t \in Callers : Receive(t) \/ ProcessBatch(t)

Spec == Init /\ [][Next]_vars

\* Batches keep coming, a thread runs on, and the monotonic clock advances.
FairSpec ==
  /\ Spec
  /\ \A t \in Callers : WF_vars(Receive(t)) /\ WF_vars(ProcessBatch(t))
  /\ \A c \in Clusters : WF_vars(Age(c))

-----------------------------------------------------------------------------
\* Telemetry is suppressed only for an incident that has been alerted, is about to
\* be, or lost its alert to a failed request or a batch that raised: no
\* interleaving of the callers registers an incident that nobody reports.
AlertAccounted ==
  \A c \in active : c \in alerted \union lost \/ \E t \in Callers : c \in Reported(t)

\* Only a race alerts twice: whoever registers an incident that is registered already
\* had found none before it began and has not alerted for it yet, whatever the others
\* clear and register meanwhile and however often the cluster is in its batch.
OnlyRacersAlert ==
  \A t \in Callers : pc[t] = "enter" =>
    LET c == ClusterOf(cur[t]) IN by[c] # {} => t \in racing[c] \ by[c]

\* pipeline.py:58 "Tracks active leak incidents per cluster to guarantee EXACTLY ONE alert
\* is dispatched per fault injection lifecycle."
ExactlyOneAlert == \A c \in Clusters : Cardinality(by[c]) <= 1

\* Suppression ends: an incident whose alert was lost, or whose leak goes on, is
\* let go of and can be alerted again (the ten-minute limit of is_active).
SuppressionEnds == \A c \in Clusters : c \in active ~> c \notin active
=============================================================================
