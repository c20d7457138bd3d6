--------------------------- MODULE ResponseAgent ---------------------------
(***************************************************************************)
(* The response agent (agents/response_agent): one run of its graph per    *)
(* grant or denial the network agent dispatches, on a pool of threads.     *)
(* A run checks that the device is reachable, lets an LLM propose and a    *)
(* guardrail decide, notifies the operator and closes the valve, reads the *)
(* operator's answer, gives the network path back, writes the audit entry  *)
(* and publishes it.  Runs share valves, network paths and the audit log.  *)
(*                                                                         *)
(* One action per node, and one more at each external call of a node that  *)
(* makes several.  Abstracted: wording, the reasoning trace, signal        *)
(* quality, retries inside one HTTP call, the order of the pool's queue.   *)
(***************************************************************************)
EXTENDS FiniteSets, Naturals

CONSTANTS
  Runs,       \* graph invocations dispatched
  Devices,    \* clusters, each with its valve
  Paths,      \* network guarantees (QoD sessions and slices)
  None,       \* no network guarantee: the request was denied
  Cluster,    \* [Runs -> Devices] the device a run is about
  Tier,       \* [Runs -> 1..3] severity tier
  Grant,      \* [Runs -> Paths \union {None}] the path granted
  Foreign,    \* devices whose id is not "cluster-desert-..."
  Mapped,     \* devices of DEFAULT_DEVICE_MSISDN_MAP
  Workers,    \* threads of the dispatch pool
  Faults      \* external parts that may fail; "body": replies that are no JSON object

ASSUME ClusterAssumption == Cluster \in [Runs -> Devices]
ASSUME TierAssumption    == Tier \in [Runs -> 1..3]
ASSUME GrantAssumption   == Grant \in [Runs -> Paths \union {None}] /\ None \notin Paths
ASSUME KindAssumption    == Foreign \subseteq Devices /\ Mapped \subseteq Devices \ Foreign
ASSUME WorkersAssumption == Workers \in Nat
ASSUME FaultsAssumption  ==
  Faults \subseteq {"probe", "body", "chain", "valve", "release", "late", "sink"}

VARIABLES
  pc,          \* the node each run is at
  reachable,   \* runs whose check returned reachable
  answered,    \* runs whose check got an answer from the service
  decision,    \* decision of each run
  notified,    \* runs with notification_sent
  alarmed,     \* runs that have sent the EMERGENCY notification
  sent,        \* runs with valve_command_sent
  confirmed,   \* runs with valve_command_confirmed
  override,    \* human_override_response of each run
  released,    \* runs with network_released
  closed,      \* valves that are closed
  inflight,    \* runs whose command may still reach the valve
  held,        \* network paths still reserved
  audit,       \* the audit log
  kept,        \* history: runs whose path the release server was asked for and kept
  broke        \* history: the call whose exception ended a run, or "none"

checks   == <<reachable, answered>>
messages == <<notified, alarmed>>
commands == <<sent, confirmed, closed, inflight>>
network  == <<released, held>>
ended    == <<kept, broke>>
vars == <<pc, checks, decision, messages, commands, override, network, audit, ended>>

Decisions == {"log_only", "alert_and_await", "autonomous_isolate", "escalate_unreachable"}
Answers   == {"none", "confirmed", "overridden", "timed_out"}
Nodes     == {"queued", "check", "plan", "execute", "command", "emergency", "override",
              "release", "audit", "publish", "done", "failed"}
Calls     == {"check", "chain", "valve", "release", "audit", "publish"}
Ended     == {"done", "failed"}
Running(r) == pc[r] \notin {"queued"} \union Ended

Entry == [run: Runs, reachable: BOOLEAN, decision: Decisions, sent: BOOLEAN,
          confirmed: BOOLEAN, answer: Answers, released: BOOLEAN]

TypeOK ==
  /\ pc \in [Runs -> Nodes]
  /\ reachable \subseteq Runs /\ answered \subseteq Runs
  /\ decision \in [Runs -> Decisions \union {"none"}]
  /\ notified \subseteq Runs /\ alarmed \subseteq Runs
  /\ sent \subseteq Runs /\ confirmed \subseteq Runs
  /\ override \in [Runs -> Answers]
  /\ released \subseteq Runs
  /\ closed \subseteq Devices
  /\ inflight \subseteq Runs
  /\ held \subseteq Paths
  /\ audit \subseteq Entry
  /\ kept \subseteq Runs
  /\ broke \in [Runs -> Calls \union {"none"}]

Init ==
  /\ pc = [r \in Runs |-> "queued"]
  /\ reachable = {} /\ answered = {}
  /\ decision = [r \in Runs |-> "none"]
  /\ notified = {} /\ alarmed = {}
  /\ sent = {} /\ confirmed = {}
  /\ override = [r \in Runs |-> "none"]
  /\ released = {}
  /\ closed = {} /\ inflight = {}
  /\ held = {Grant[r] : r \in Runs} \ {None}
  /\ audit = {}
  /\ kept = {} /\ broke = [r \in Runs |-> "none"]

Goto(r, node) == pc' = [pc EXCEPT ![r] = node]

\* _invoke_response_graph logs whatever leaves the graph; what the node had
\* written is not in the state it never returned, and no later node runs.
Breaks(r, call) ==
  /\ Goto(r, "failed")
  /\ broke' = [broke EXCEPT ![r] = call]
  /\ UNCHANGED kept

\* _invoke_response_graph: a free thread of the pool takes the run up.
Start(r) ==
  /\ pc[r] = "queued"
  /\ Cardinality({q \in Runs : Running(q)}) < Workers
  /\ Goto(r, "check")
  /\ UNCHANGED <<checks, decision, messages, commands, override, network, audit, ended>>

(***************************************************************************)
(* reachability_check.  An id that is not a desert cluster passes without  *)
(* a check.  When no endpoint answers, a mapped cluster is reported        *)
(* reachable and any other unreachable.  A reply that is no JSON object    *)
(* raises in the client, again in the fallback, and ends the run.          *)
(***************************************************************************)
CheckSkipped(r) ==
  /\ pc[r] = "check"
  /\ Cluster[r] \in Foreign
  /\ reachable' = reachable \union {r}
  /\ Goto(r, "plan")
  /\ UNCHANGED <<answered, decision, messages, commands, override, network, audit, ended>>

CheckAnswered(r) ==
  /\ pc[r] = "check"
  /\ Cluster[r] \notin Foreign
  /\ \E up \in BOOLEAN : reachable' = IF up THEN reachable \union {r} ELSE reachable
  /\ answered' = answered \union {r}
  /\ Goto(r, "plan")
  /\ UNCHANGED <<decision, messages, commands, override, network, audit, ended>>

CheckUnansweredRaises(r) ==  \* mutant: the client lets the last error through
  /\ pc[r] = "check"
  /\ Cluster[r] \notin Foreign
  /\ "probe" \in Faults
  /\ Goto(r, "failed")
  /\ UNCHANGED <<checks, decision, messages, commands, override, network, audit, ended>>

CheckUnanswered(r) ==
  /\ pc[r] = "check"
  /\ Cluster[r] \notin Foreign
  /\ "probe" \in Faults
  /\ reachable' = IF Cluster[r] \in Mapped THEN reachable \union {r} ELSE reachable
  /\ Goto(r, "plan")
  /\ UNCHANGED <<answered, decision, messages, commands, override, network, audit, ended>>

CheckRaises(r) ==
  /\ pc[r] = "check"
  /\ Cluster[r] \notin Foreign
  /\ "body" \in Faults
  /\ Breaks(r, "check")
  /\ UNCHANGED <<checks, decision, messages, commands, override, network, audit>>

(***************************************************************************)
(* llm_response_planner.  Whatever the LLM proposes (log_only when it      *)
(* raises), the guardrail decides from tier and reachability alone.        *)
(***************************************************************************)
GuardrailsTierOnly(proposed, tier, up) ==  \* mutant: reachability not looked at
  CASE tier = 1 -> "log_only"
    [] tier = 2 -> "alert_and_await"
    [] tier = 3 -> "autonomous_isolate"

EnforceGuardrails(proposed, tier, up) ==
  IF ~up THEN "escalate_unreachable"
  ELSE CASE tier = 1 -> "log_only"
         [] tier = 2 -> "alert_and_await"
         [] tier = 3 -> "autonomous_isolate"

Plan(r) ==
  /\ pc[r] = "plan"
  /\ \E proposed \in Decisions :
       decision' = [decision EXCEPT ![r] =
                      EnforceGuardrails(proposed, Tier[r], r \in reachable)]
  /\ Goto(r, "execute")
  /\ UNCHANGED <<checks, messages, commands, override, network, audit, ended>>

\* The chain is built before the try: without a GROQ_API_KEY the run ends here.
PlanRaises(r) ==
  /\ pc[r] = "plan"
  /\ "chain" \in Faults
  /\ Breaks(r, "chain")
  /\ UNCHANGED <<checks, decision, messages, commands, override, network, audit>>

(***************************************************************************)
(* execute_response: notify, then close the valve, then report a command   *)
(* that was not confirmed.                                                 *)
(***************************************************************************)
ExecuteLog(r) ==
  /\ pc[r] = "execute"
  /\ decision[r] = "log_only"
  /\ Goto(r, "override")
  /\ UNCHANGED <<checks, decision, messages, commands, override, network, audit, ended>>

\* NotificationClient.send returns True even when every request failed.
ExecuteNotify(r) ==
  /\ pc[r] = "execute"
  /\ decision[r] # "log_only"
  /\ notified' = notified \union {r}
  /\ Goto(r, IF decision[r] = "autonomous_isolate" THEN "command" ELSE "override")
  /\ UNCHANGED <<checks, decision, alarmed, commands, override, network, audit, ended>>

\* isolate: the actuator closes the valve and says so.
CommandConfirmed(r) ==
  /\ pc[r] = "command"
  /\ sent' = sent \union {r}
  /\ confirmed' = confirmed \union {r}
  /\ closed' = closed \union {Cluster[r]}
  /\ Goto(r, "override")
  /\ UNCHANGED <<inflight, checks, decision, messages, override, network, audit, ended>>

CommandUnconfirmedSilent(r) ==   \* mutant: an unconfirmed command is not reported
  /\ pc[r] = "command"
  /\ "valve" \in Faults
  /\ sent' = sent \union {r}
  /\ \/ UNCHANGED <<closed, inflight>>
     \/ closed' = closed \union {Cluster[r]} /\ UNCHANGED inflight
     \/ inflight' = inflight \union {r} /\ UNCHANGED closed
  /\ Goto(r, "override")
  /\ UNCHANGED <<confirmed, checks, decision, messages, override, network, audit, ended>>

\* ... or refuses, or its reply is lost or is not JSON, or the call times out.
CommandUnconfirmed(r) ==
  /\ pc[r] = "command"
  /\ "valve" \in Faults
  /\ sent' = sent \union {r}
  /\ \/ UNCHANGED <<closed, inflight>>
     \/ closed' = closed \union {Cluster[r]} /\ UNCHANGED inflight
     \/ inflight' = inflight \union {r} /\ UNCHANGED closed
  /\ Goto(r, "emergency")
  /\ UNCHANGED <<confirmed, checks, decision, messages, override, network, audit, ended>>

\* A reply that is JSON but no object: payload.get raises what isolate does not turn
\* into a ValveCommandError, and the command is neither confirmed nor reported.
CommandRaises(r) ==
  /\ pc[r] = "command"
  /\ "body" \in Faults
  /\ sent' = sent \union {r}
  /\ \/ UNCHANGED closed
     \/ closed' = closed \union {Cluster[r]}
  /\ Breaks(r, "valve")
  /\ UNCHANGED <<inflight, confirmed, checks, decision, messages, override, network, audit>>

Emergency(r) ==
  /\ pc[r] = "emergency"
  /\ alarmed' = alarmed \union {r}
  /\ Goto(r, "override")
  /\ UNCHANGED <<checks, decision, notified, commands, override, network, audit, ended>>

\* valve-actuator-sim: a request the client gave up on is served all the same.
CommandArrives(r) ==
  /\ r \in inflight
  /\ inflight' = inflight \ {r}
  /\ closed' = closed \union {Cluster[r]}
  /\ UNCHANGED <<pc, checks, decision, messages, sent, confirmed, override, network, audit, ended>>

(***************************************************************************)
(* human_override: the poller is asked once; nothing reopens the valve.    *)
(***************************************************************************)
HumanOverrideStops(r) ==     \* mutant: an overridden run skips the release
  /\ pc[r] = "override"
  /\ IF decision[r] = "autonomous_isolate"
       THEN \E answer \in Answers \ {"none"} : override' = [override EXCEPT ![r] = answer]
       ELSE UNCHANGED override
  /\ Goto(r, IF override'[r] = "overridden" THEN "audit" ELSE "release")
  /\ UNCHANGED <<checks, decision, messages, commands, network, audit, ended>>

HumanOverride(r) ==
  /\ pc[r] = "override"
  /\ IF decision[r] = "autonomous_isolate"
       THEN \E answer \in Answers \ {"none"} : override' = [override EXCEPT ![r] = answer]
       ELSE UNCHANGED override
  /\ Goto(r, "release")
  /\ UNCHANGED <<checks, decision, messages, commands, network, audit, ended>>

(***************************************************************************)
(* release_network: the path goes at the server although the reply may     *)
(* come after the client's five seconds; a failure is not retried.         *)
(***************************************************************************)
ReleaseSkipped(r) ==
  /\ pc[r] = "release"
  /\ Grant[r] = None
  /\ Goto(r, "audit")
  /\ UNCHANGED <<checks, decision, messages, commands, override, network, audit, ended>>

ReleaseUnheard(r) ==         \* mutant: a release counts as done without a reply
  /\ pc[r] = "release"
  /\ Grant[r] # None
  /\ "release" \in Faults
  /\ released' = released \union {r}
  /\ \/ held' = held \ {Grant[r]}
     \/ UNCHANGED held
  /\ Goto(r, "audit")
  /\ UNCHANGED <<checks, decision, messages, commands, override, audit, ended>>

ReleaseConfirmed(r) ==
  /\ pc[r] = "release"
  /\ Grant[r] # None
  /\ held' = held \ {Grant[r]}
  /\ released' = released \union {r}
  /\ Goto(r, "audit")
  /\ UNCHANGED <<checks, decision, messages, commands, override, audit, ended>>

ReleaseUnconfirmed(r) ==
  /\ pc[r] = "release"
  /\ Grant[r] # None
  /\ \/ "late" \in Faults /\ held' = held \ {Grant[r]} /\ UNCHANGED kept
     \/ "release" \in Faults /\ kept' = kept \union {r} /\ UNCHANGED held
  /\ Goto(r, "audit")
  /\ UNCHANGED <<released, checks, decision, messages, commands, override, audit, broke>>

\* The release client reads its reply the same way.
ReleaseRaises(r) ==
  /\ pc[r] = "release"
  /\ Grant[r] # None
  /\ "body" \in Faults
  /\ \/ held' = held \ {Grant[r]}
     \/ UNCHANGED held
  /\ Breaks(r, "release")
  /\ UNCHANGED <<released, checks, decision, messages, commands, override, audit>>

(***************************************************************************)
(* audit_writer: ActuationResult needs a ReachabilityStatus, which a       *)
(* foreign device does not have; the sink writes to a file.                *)
(***************************************************************************)
EntryOf(r) ==
  [run |-> r, reachable |-> r \in reachable, decision |-> decision[r],
   sent |-> r \in sent, confirmed |-> r \in confirmed, answer |-> override[r],
   released |-> r \in released]

WriteAudit(r) ==
  /\ pc[r] = "audit"
  /\ Cluster[r] \notin Foreign
  /\ audit' = audit \union {EntryOf(r)}
  /\ Goto(r, "publish")
  /\ UNCHANGED <<checks, decision, messages, commands, override, network, ended>>

WriteAuditRaises(r) ==
  /\ pc[r] = "audit"
  /\ Cluster[r] \in Foreign \/ "sink" \in Faults
  /\ Breaks(r, "audit")
  /\ UNCHANGED <<checks, decision, messages, commands, override, network, audit>>

\* One attempt at the platform, whose failure is not retried.
Publish(r) ==
  /\ pc[r] = "publish"
  /\ Goto(r, "done")
  /\ UNCHANGED <<audit, checks, decision, messages, commands, override, network, ended>>

\* So does the platform's client, when the entry is written.
PublishRaises(r) ==
  /\ pc[r] = "publish"
  /\ "body" \in Faults
  /\ Breaks(r, "publish")
  /\ UNCHANGED <<audit, checks, decision, messages, commands, override, network>>

Node(r) ==
  \/ CheckSkipped(r) \/ CheckAnswered(r) \/ CheckUnanswered(r) \/ CheckRaises(r)
  \/ Plan(r) \/ PlanRaises(r)
  \/ ExecuteLog(r) \/ ExecuteNotify(r)
  \/ CommandConfirmed(r) \/ CommandUnconfirmed(r) \/ CommandRaises(r) \/ Emergency(r)
  \/ HumanOverride(r)
  \/ ReleaseSkipped(r) \/ ReleaseConfirmed(r) \/ ReleaseUnconfirmed(r) \/ ReleaseRaises(r)
  \/ WriteAudit(r) \/ WriteAuditRaises(r)
  \/ Publish(r) \/ PublishRaises(r)

Next == \E r \in Runs : Start(r) \/ Node(r) \/ CommandArrives(r)

Spec == Init /\ [][Next]_vars

\* A pool thread runs on: every external call has a timeout.
FairSpec == Spec /\ \A r \in Runs : WF_vars(Start(r)) /\ WF_vars(Node(r))

-----------------------------------------------------------------------------
Audited(r) == \E e \in audit : e.run = r

\* A valve is closed, or about to be, only for a run of the highest tier that
\* found the device reachable, whatever the LLM proposed and whatever became of
\* the network request (_enforce_guardrails).
ValveJustified ==
  \A d \in closed \union {Cluster[r] : r \in inflight} :
    \E r \in sent : Cluster[r] = d /\ Tier[r] = 3 /\ r \in reachable

\* A valve command nobody confirmed has been reported to the operator as an
\* emergency, or is about to be, before its late closure can surprise anybody;
\* but for one whose reply was no JSON object, which ends its run unreported
\* (actuator_client.py:24, outside what execute_response's except branch catches).
Accounted(r) == r \in alarmed \/ pc[r] = "emergency" \/ broke[r] = "valve"

UnconfirmedReported ==
  /\ \A r \in sent \ confirmed : Accounted(r)
  /\ \A d \in closed : \E r \in sent : Cluster[r] = d /\ (r \in confirmed \/ Accounted(r))

\* What the audit log says stays true while other runs and late calls go on: a
\* confirmed valve is closed, a released path is free, a command was sent exactly
\* on an isolate decision and then to a device found reachable, and a run has one
\* entry (audit_writer's ActuationResult).
AuditTruth ==
  \A e \in audit :
    /\ e.confirmed => e.sent /\ Cluster[e.run] \in closed
    /\ e.released => Grant[e.run] \notin held
    /\ e.sent <=> e.decision = "autonomous_isolate"
    /\ e.sent => e.reachable /\ e.answer # "none"
    /\ \A f \in audit : f.run = e.run => f = e

\* Every run about a desert cluster ends with an audit entry, although each of the
\* services may fail to answer or refuse (the nodes' fallbacks), unless it meets
\* an exception no node expects: a reply that is no JSON object, a missing key
\* of the language model, a sink that cannot be written.
EveryRunAudited ==
  \A r \in Runs : Cluster[r] \notin Foreign => <>(Audited(r) \/ broke[r] # "none")

\* Every granted network path is given back for good, also by a run that could not
\* act, was overridden or will not be audited, unless the release server kept it or
\* one of those exceptions ended the run before it was released (release_network_node).
PathsGivenBack ==
  \A r \in Runs : Grant[r] # None =>
    <>[](Grant[r] \notin held \/ r \in kept \/ broke[r] \in {"check", "chain", "valve", "release"})

\* README.md:36 "if the agent cannot confirm a device is reachable, it treats it
\* as unreachable ... (never fire a command blind)".
FailClosed == sent \subseteq answered
=============================================================================
