# AquaPulse: a TLA+ verification project

AquaPulse detects leaks in a water network and closes valves.  Sensor windows go
through an *investigation agent*, confirmed threats through Redis to a *network
agent* that asks a 5G operator for a guaranteed path, the resulting grant or
denial to a *response agent* that decides and moves the valve, and every step to
a *platform* (FastAPI and PostgreSQL) where operators work detections, incidents
and maintenance.  A *testbed* simulates the water and its sensors.  This
directory models the parts whose correctness depends on ordering, interleaving,
failure, boundaries or long sequences of calls.

Paths below are relative to the repository's `src/`; `app/` is
`plateform/backend/app/`.

## 1. Inventory

| Part | State it keeps | Operations | Hard behaviour | Modelled by |
| --- | --- | --- | --- | --- |
| Network agent, slice lifecycle (`agents/network_agent/webhook_server.py`, `release_server.py`, `camara_api.py`) | `PENDING_ATTACHMENTS`, one watcher thread per registration, the slice at the operator | register, poll/activate/reap/attach, notifications, release | two channels race for one dict entry and one flag; stale polls; late notifications | `SliceLifecycle` |
| Network agent, request batches (`runner.py`, `graph.py`, `nodes/`) | none between messages | collect, rank, group, call tools, emit, dispatch, prepare a slice at the start | cut before ranking, calls chosen by a model, swallowed failures | `RequestBatch` |
| Response agent (`agents/response_agent`) | the graph state of one incident; the valve; the audit log | reachability, decision, execution, override window, release, audit, publish | lost replies, a step failing after the valve moved, unreachable devices | `ResponseAgent` |
| Investigation agent, threat alerts (`agents/investigation_agent/aia/pipeline.py`, `api.py`) | `ActiveIncidentTracker`, `RetryTracker` | process a batch: detect, suppress, investigate, register, forward | two callers share the trackers unlocked; windows of calm; cooldown | `ThreatAlerts` |
| Investigation agent, verdicts (`aia/nodes/`, `ml_model/inference.py`) | baselines | score a window, decide a classification, assess, publish | thresholds, failures that look like answers | `AgentVerdicts`; baselines in `Testbed` |
| Platform, incident operations (`app/services/operations.py`, `app/incident/workflow.py`) | incidents, response tasks, timeline | acknowledge, assign, start, approve, resolve, false alarm, reopen; task create/start/complete/cancel | long operation sequences, concurrent requests, tasks frozen by incident status | `IncidentOperations` |
| Platform, maintenance (`app/services/maintenance.py`) | plans, work orders, their history, assets' maintenance dates | create, assign, reschedule, start, complete, cancel, plan create/update/disable, generation | transactions over plan, order, asset and number rows that do not lock the same things | `Maintenance` |
| Platform, detection triage and engine (`app/services/investigation.py`, `app/detection/`) | detections, incidents of promotions | review, dismiss, reopen, merge, promote; run the rules | two rows locked by a merge; a run's delayed writes over operators' | `DetectionTriage` |
| Platform, detection rules and scores (`app/detection/rules.py`, `scoring.py`) | none | evaluate a rule over a window, score, prioritise | partial readings, boundaries | `DetectionRules` |
| Platform, device network health (`app/services/network_health.py`, `app/network/`) | snapshots of the devices' network | refresh one, refresh all, list, summarise | one event loop over blocking transactions, slow providers, numbers that are none | `DeviceNetwork`, `NetworkViews` |
| Platform, agent ingest and telemetry ingest (`app/services/integrations.py`, `telemetry.py`, `app/integrations/`) | runs, findings, recommendations, identity mappings, readings | accept an investigation or a response result, import mappings, insert a reading | keys looked up before the constraint that decides | `Ingest` |
| Platform and agents, contracts (`app/integrations/`, `aia/api.py`, the agents' senders) | the agents' status rows | validate, check a contract, redact, adapt | retries, what an answer is told to mean | `AgentContracts`; nested payloads in `Redaction` |
| Platform, lists, map, analytics, telemetry charts | none of their own | filters, counts, windows, buckets | pages that must agree with one another | `OperationsViews`, `Analytics`, `TelemetryViews` |
| Platform, demonstration seed and clean-up (`app/scripts/seed_*.py`, `cleanup_dummy_agent_data.py`) | the rows of the demonstration | seed, seed again, clean up | a seed over what operators did meanwhile | `Seeds` |
| Platform, telemetry simulator (`app/scripts/simulate_telemetry.py`) | none | cycles of a scenario | a scenario the rules must tell | `TelemetrySimulator` |
| Simulator testbed and evaluation (`water-pipeline-testbed`) | clusters, faults, windows | tick, inject, clear, reset, outage, batch; run the scenarios | faults over moving water, an agent that learns from what it sees | `Testbed` |
| Valve actuator, notification service, CAMARA integration | a dict of valves, nothing, nothing | small request handlers | stand-ins for outside services | as environment |
| Frontend, migrations, agent audit pages | none of their own | presentation | none | no |

How they interact.  The investigation agent forwards its output over Redis and
HTTP (fire and forget).  The network agent turns each threat into a grant or a
denial, either at once (request batches) or when a slice is ready (slice
lifecycle), and submits it to a pool of threads that run the response agent's
graph in the same process.  The response agent calls the reachability service,
the notification service and the valve, gives the network path back through the
network agent's release server, appends to `audit_log.jsonl` and posts the entry
to the platform.  On the platform every request is one database transaction;
network refreshes are coroutines of one event loop that hold one across an await.
The engine reads what the telemetry ingest wrote; promoting a detection makes an
incident.

### What makes each part correct

* Slice lifecycle: every incident of a registered slice is granted or denied;
  no channel decides it twice.
* Request batches: each threat of the batch is asked for once, the most urgent
  first; a decision that was told well starts one response.
* Response agent: a valve closes only for a confirmed, critical and reachable
  case; whatever cannot be confirmed is reported; the audit log is true and
  complete; network paths are given back.
* Threat alerts: a suppressed cluster has been alerted; one alert per incident, but for those that race for it;
  suppression ends.
* Verdicts: physical evidence decides over the forest's score; a failure of the
  network's interface is never a verdict about the device.
* Incident operations: row, timeline and tasks agree whatever the interleaving;
  nothing is closed over open work unknowingly.
* Maintenance: one open order per plan, no cycle lost or doubled, an asset's date
  is the first of its enabled plans, terminal orders stay.
* Triage: one open detection of a condition, no merge cycle, one incident per
  promotion, no transition on a status another request changed.
* Network health: no old observation passes as fresh; a batch is all or nothing.
* Ingest: what is stored is whole, what is told is so, every delivery is answered.
* Views: pages that show the same thing agree; a window neither loses a row nor
  counts it twice.
* Seeds: a seed succeeds over any state operators leave and a second one changes
  nothing.
* Testbed: faults do what the agent is evaluated against.

The hazards of each part, with the line where they bite and the property that
covers them, are in `PROJECT.json`.

## 2. Plan

Done, in this order: `SliceLifecycle` (implementing the abstract
`IncidentDecision`), `ResponseAgent`, `ThreatAlerts`, `IncidentOperations`, each
with proofs; then `Maintenance`, `DetectionTriage`, `DeviceNetwork` and `Ingest`,
each with proofs; then the functions, checked together in one run: `DetectionRules`,
`AgentVerdicts`, `NetworkViews`, `Analytics`, `AgentContracts`,
`OperationsViews`, `Seeds`, `RequestBatch`, `TelemetryViews`, `TelemetrySimulator`, `Testbed`; last the
proofs about the functions: `DetectionRules`, `AgentVerdicts`, `NetworkViews`,
`AgentContracts`, `Analytics`, `OperationsViews`, `RequestBatch`, `TelemetryViews`, `Seeds`;
and the abstract `DetectionLife`, which the triage and the engine together implement,
`MaintenanceBook`, which the maintenance implements, and `IncidentDesk`, which the
incident operations implement.

## 3. Modules

A component with state has a specification, an `MC` module that names the constants of its
instances, its `.cfg` files and a `Proofs` module. Bounds are constants, and a fault is an element
of the constant `Faults` where a run says which calls may fail. A calculation is a module of
operators without state of its own: `Trials` gives it a state of the calculation's name and one input
(`Try` takes an input, `For` states a property of it). The inputs are a constant of the module, with an
assumption on what an input may be; `MCCalculations` gives the sets the run enumerates. Commented
"mutant" definitions are the plausible mistakes the properties are tested with.

### SliceLifecycle

One slice.  `slice` and `order` are the operator's view; `pending` is the dict
entry `PENDING_ATTACHMENTS[slice_id]`, which holds the registration that made it;
`attempted` is its `activation_attempted` flag; `pc`/`view` are a watcher's
position in `monitor_slice_lifecycle` and what its last poll returned; `hook` is
the notification the event loop is handling; `attach` holds the next device of
each of the two possible `attach_all_devices` loops; `grants`/`denies` count what
the response agent is sent.  `BadDevices` and `BadEntries` are the malformed parts of
a registration: an attach loop ends at the first of either (`Raises`), a loop of
denials before the first bad entry (`Listed`).

A watcher's iteration is cut where the code reads something and acts on it later:
`WatchPoll` (the state), `WatchOperating` (`slice_id in PENDING_ATTACHMENTS`),
`WatchTake` (the `pop`), `WatchActivate` (the call after the flag), `WatchReap`
and `WatchReapNotify` (the delete, then the dict read for the denials),
`AttachDevice` (one device).  Notifications may be late, repeated or out of order.
`ReleaseDeactivate`, `ReleaseDelete` and `ReleaseGivesUp` are `delete_network_slice`
as called by the release server.  The operator's transitions are external.

`IncidentDecision` is what the watchers promise alone: one decision per incident,
never changed, denials possibly in a batch.  The watchers implement it step by
step until a notification takes an entry (`DecidesOnce`), and where no
notification comes and registrations do not overlap the whole specification does
(`WatcherImplements`).

### ResponseAgent

A run is one invocation of the graph.  `pc` is its node, the other variables are
the fields of its state that matter (`decision`, `sent`, `confirmed`, `override`,
`released`) as sets of runs, the world (`closed` valves, `held` paths,
`inflight` commands that may still arrive) and the audit log.  One action per node and
per external call, with an action for each way the call can end: answered,
unanswered, raising.  The clients catch `requests.RequestException`; a reply that
is JSON and no object passes that and raises an `AttributeError` one line later
(`"body"` in `Faults`), which ends the run wherever it is (`CheckRaises`,
`CommandRaises`, `ReleaseRaises`, `PublishRaises`).  `broke` and `kept` are
history: the call that ended a run, and the paths the release server kept.  `EnforceGuardrails` is the code's own function applied to any
proposal of the model.  `CommandArrives` is a command whose reply was lost and that
the actuator carries out later.

### ThreatAlerts

Callers of `process_batch` (the Redis listener and the API's threads) over one
tracker.  A statement of a tracker method is a step: the test of a dict and the read
of what was tested (`Suspect`/`SuspectRaises`, `Count`/`CompareCalm`/`CompareRaises`,
`Lookup`/`LookupRaises`), the clear that was decided on and the two dicts it pops
(`ClearIncident`, `ClearCount`; `clearer` is the method it returns to), and the writes
of a registration (`Reset`, `Enter`, `Zero`).  `Fails` is the KeyError that leaves
`process_batch`.  The verdict of detector and graph is any (`Detect`,
`Investigate`): which it is, `AgentVerdicts` says.  `by`, `racing`, `alerted` and
`lost` are history for the properties.

### IncidentOperations

Sessions serve requests.  `Request` locks the incident row (`SELECT ... FOR
UPDATE`) and reads it, `LockTask` locks a task, each service method is one action
from its checks to its commit, and `Refuse` ends a request at any point before
that: a failed check, an idempotent repetition, a database error.  `seen` is what
the transaction read; the methods decide on it, as the code does on its ORM row.
`next` in `seen` is the number `next_public_id` computed, so that two sessions may
compute the same; the second insert then breaks the unique constraint.  Numbers
are compared as text, hence `IdLimit`.

`IncidentDesk` is the same without transactions: each request that succeeds is one step
that decides on the incident as it then is, on its open tasks and on which numbers are
taken, and changes that incident only.  `IncidentOperations` implements it (`EachAtOnce`),
each request at its commit.

### Maintenance

One asset, its plans and their work orders.  `tx[s]` is the open transaction of a
request or of the generator: the rows it has locked (`locks`), the unique numbers
its flushed rows hold (`holds`), what it has written and not committed (`rows`,
`row`, `moved`).  `LockOrder` with one of `Assign` to `Cancel` is an operation on an
order, `CreateOrder` opens one, and `InsertRows` flushes what these write and its history
event (which take the next numbers).  `CreatePlan` loads the asset and `InsertPlan`
writes the plan; `LockPlan` locks one and `UpdatePlan` or `DisablePlan` writes it; each of
the three flushes its event too and computes the asset's date from the plans it then sees.
`Commit` publishes, the date only if it differs from the one loaded (`seen`): an attribute
set to the value the session loaded is left out of the UPDATE.
`GenerateDue` to `PlanFails` are `generate_due_work_orders`: the plans are queried,
then locked one by one and looked at again, then each has its order created under a
savepoint.  An event of an order pins its plan's row by the foreign key
(`PinFree`).  `Fail` is a refusal, a broken constraint, a deadlock's victim or a
lost database.

`MaintenanceBook` is the same without transactions: a plan's change, an order's
opening, a generator's whole run over several plans and each operation on an order is
one step, which decides on the plans and orders it then finds and sets the asset's date
by them.  `Maintenance` implements it (`OneAfterAnother`), each transaction at its
commit; what neither promises is that a run finds every due plan.  In one case the code
does what no serial order would: `create_plan` loads the asset without a lock
(`services/maintenance.py:399`), and when a change of another plan then moves its date away
from just the value that the new plan makes right, the new plan's date is not written.
The book's `CreatePlan` may therefore leave the date, and `AssetDateRefreshed`, the other
half of `OneAfterAnother`, says that this is the only case in which it does.

### DetectionTriage

Detections of `Keys` (a sensor and a rule), requests of operators and runs of the
engine.  A request locks the one row it changes (`Lock`; a merge the second with
`LockOther`) and decides on the status it read under the lock (`seen`).
`TakeNumber` and `Promote` are the two halves of a promotion between which another
may take the incident number.  A run of the engine (`StartRun` to `CommitRun`) reads
without locks, remembers what it updated (`recovered`, `repeated`) and sends it at
its next flush (`FlushRow`), where it waits for the rows' locks.  Whether a key
triggers is a choice; `DetectionRules` says which windows do.

`DetectionLife` is what requests and runs promise together, without sessions, locks or
transactions: each request, and each whole run, is one step that decides on the
detections as they then are; a run ends the conditions of some keys and opens one
detection for each of some others, of which none stands in the queue.  The whole
specification implements it (`LivesOneByOne`).  Any number of runs may be at work, as
nothing in the code prevents: the history variable `overlapped` has the runs that were
at work beside another, and `raced` marks a detection such a run opened, or opened again
after the other had ended it.  A marked detection does not count as standing, so that the
properties say what overlapping runs can do and that nothing else does it.

### DeviceNetwork

Refreshes of network snapshots on one event loop.  `Begin` is `refresh_many` (or
`refresh_device`) up to the provider, `Answer` one device's answer or error,
`Finish` the persisting and the commit.  A flush waits for any transaction that
holds a snapshot number; since the call is blocking, the wait stops the whole loop
(`loop`).  `Fail` is an exception that is not the provider's, `Restart` a restart
of the process.

### Ingest

Deliveries of results and readings as threads.  `Accept`, `Look`, `Check`, `Number`,
`Flush`, `Resolve` and `Commit` cut `accept_investigation_result` and
`accept_response_result` at the points where another transaction may commit:
before the second lookup of the idempotency key, the lookup of the items, the
number, the flush of the run (which holds its number), the resolution of the names
and the commit.  `Receive` and `Insert` are `TelemetryService.ingest`; `ImportRead`
and `ImportCommit` an import of identity mappings with `apply_stored_mappings`, which
writes the columns of findings and recommendations (`ColumnsOf`) and makes the warnings
anew of all names (`NamesOf`), a response's cluster included, only where a column changed.
`told`, `base` and `first` are what the answer speaks of and what it began from.

### The functions

Each module is a set of operators on records, with the property of each as an
operator over one input:

* `DetectionRules`: the rules over a window of readings, score and priority.
* `AgentVerdicts`: the detector's guardrails, the decision over the network's
  answers, severity tier, the published network status.  Slopes, fits and the
  forest's score are inputs.
* `NetworkViews`: from the provider's answer to the row, retries of a call, the
  choice of a provider and of a number to ask with, lists and summaries.
* `Analytics`: windows, buckets, series and counts by zone, over the tables of zones,
  sensors, detections and incidents.
* `AgentContracts`: validators, the contract check and the client that later
  accepts or refuses, the agent's status row, the adapters to the agents' forms, the
  verdict on a valve, the agents' status page with its cache.
* `Redaction`: what is removed from a nested payload, recursive over its values.
* `OperationsViews`: lists, filters and orders of incidents, assets and detections,
  the map and what is near a place.  Where a query leaves ties open, a list is any
  member of a set: `Listings` are all the orders the query may answer with.
* `Seeds`: the demonstration seed as one function of the database it finds,
  from the catalogues in `app/data`; the clean-up of agents' results.
* `RequestBatch`: from a message to the decisions dispatched: filter, cut, rank,
  group, the tools, the emits, the preparation of a slice at the start.
* `TelemetryViews`: charts, summaries and freshness of readings.  A chart is the set of
  its points, shown in the order of their times.
* `TelemetrySimulator`: the cycles of the telemetry simulator and what the rules make
  of them.
* `Testbed`: one cluster of the simulated network with its fault library (a
  recursive `After` over ticks), the agent that learns a baseline from its batches,
  the evaluation's scenarios.  The testbed's `aia_service` is not in the
  repository: what it answers is modelled from its uses and marked external.

`NullValue` declares the one constant they share for an absent value, which is no
number. `MCCalculations` gives, for each calculation, inputs on both sides of every
threshold the code compares with.

## 4. Runs

| Run | Instance | What it shows |
| --- | --- | --- |
| `slice_race` | 2 registrations that may overlap, 4 incidents (the last entry malformed), 2 devices, 2 notifications, all faults | `NoLostIncident`, `DecisionBound`: what two racing channels still guarantee; `DecidesOnce`: until a notification takes an entry the watchers implement `IncidentDecision` |
| `slice_live` | 1 registration, 3 incidents (the last device malformed), 3 notifications, attach and delete may fail | `EventuallyDecided` under fairness |
| `response_runs` | 3 runs, one per kind of device, two over one slice, 2 pool threads, all faults, late commands | `ValveJustified`, `UnconfirmedReported`, `AuditTruth`, `EveryRunAudited`, `PathsGivenBack`, each but for the exceptions its comment names |
| `response_fail_closed` | reachability service down | violated: a defaulted answer closes a valve |
| `alert_shared` | 1 cluster, 2 callers, 2 windows a batch, threshold 2, platform may fail | `AlertAccounted`; `OnlyRacersAlert`: who alerts for an incident that has been alerted had found none before it began; `SuppressionEnds`, no deadlock |
| `alert_exactly_one` | 1 cluster, 2 callers, 1 window | violated: two callers alert for one incident |
| `operations` | 2 incidents, 2 sessions, one task number, symmetric | `TimelineTruth`, `EachAtOnce`, no deadlock |
| `maintenance` | 2 sessions, 2 plans, 2 orders (one of them free of a plan), 2 dates, symmetric | `OneOpenOrder`, `HistoryKept`, `OneAfterAnother`; `DeadlocksKnown`: which requests may wait for each other in a ring |
| `triage` | 2 operators, 2 runs of the engine, 1 key, 2 detections, 2 incidents, symmetric | `OneOpenDetection`, `IncidentsMatch`, `MergesEnd`, `LivesOneByOne`, no deadlock |
| `network_refresh` | 2 overlapping refreshes over 2 cellular devices and a valve, clock to 3 | `NotStaleIsRecent`, `BatchIsWhole`, `LoopStopsBehindBatch`, `RefreshesEnd` |
| `ingest` | 3 deliveries of 6 payloads (shared keys, shared anomalies, a mock batch, a response, two readings of one moment), 1 import of one of two files (a response's cluster alone; all other names, with a device disabled) | `WholeResults`, `AnsweredTrue`, `WarningsMatch`, `EveryDeliveryAnswered` |
| `calculations` | one state per calculation and input | the ten groups below |

The groups of `calculations`, each the conjunction of named properties, stated in
the calculation's module where that is one:

* `RulesSound`: a hit lies in its window's readings; a worse observation never
  scores lower.
* `VerdictsCautious`: physical evidence decides over the forest; a failed answer is
  no verdict about a device; what is published was reachable or its
  investigation crashed; a worse fall never lowers the tier.
* `AnswersKept`: an answer fits the table's checks and the lengths of its columns but
  in the three cases it names (a coordinate that is not a number, an area type or a
  first connectivity type stored as it came); a call ends with its
  first lasting attempt; a summary counts every device; only sandbox numbers
  leave the platform.
* `AgentsToldTrue`: an agent is healthy or compatible only by its own answers, a
  cached status is the one written last before and its age, from its probe, less than
  the cache's seconds and the length of its call (calls overlap), a compatible agent is accepted by the client, what is
  listed opens, what is forwarded is valid, the verdict on a valve is that of the
  agent's audit.
* `ReportsAddUp`: the two windows of a comparison share nothing; series and zones
  add up to their totals.
* `PagesAgree`: dashboard, map and zones count the same incidents, and the reports
  differ by exactly what is dated after their frozen clock; filters and told states
  of maintenance agree; the order of lists; related detections are related both
  ways; what is near is on the map.
* `SeedsRepeat`: a seed succeeds over whatever operators did, a second changes
  nothing, what is theirs stays; a clean-up deletes what it counted.
* `BatchesHeard`: each cluster is asked for once, the most urgent first; what the
  operator made is told, but for lost replies and the devices attached before one whose
  imsi is no number; each decision starts one run, and none does after an error; the
  slice of the start operates.
* `ChartsTrue`: a chart ends at the newest reading unless its limit cuts it; a
  point lies between its readings; pages agree on freshness, and the reports say what
  the summary said at their frozen clock.
* `RecursionsSound`, the calculations over sequences: no secret is kept at any depth
  of a payload; the rules tell each scenario of the simulator; the evaluation's scenarios come out as expected but for two; a
  baseline learnt in health tells faults, one learnt in a fault does the
  opposite; a frozen sensor repeats itself while the water moves.

The two violated runs are disagreements between the code and its own words;
`PROJECT.json` quotes both.  Type invariants are theorems of all modules with state
(section 5).

### Bounds, and why they are enough

* Slice: two registrations are what it takes for one to replace the other's
  entry, two devices for an attach loop to be overtaken, two notifications for an
  AVAILABLE and an OPERATING one or a repetition.  The malformed entry or device is
  the last, so that there are incidents before it to be spared.
* Response: one run per kind of device (mapped, desert but not mapped, other), since
  the kinds do not interact but over paths and threads; two of the three share a
  slice, and two threads run them at once.  Two runs on one valve are left to the
  theorems, which have any number.
* Alerts: clusters meet only in a batch that fails as a whole, and a failing
  batch needs no second cluster; two windows of one cluster are what the request
  model allows and what makes a caller meet its own registration.  The threshold
  is 2 so that counts of two callers interleave below it.
* Operations: two sessions on two incidents give every pair of locks.
  `IdLimit = 1` makes numbers collide and run out within reach.  Symmetry over
  incidents and sessions is sound: the run has no liveness property.
* Maintenance: two plans are what two generators need to lock in different
  orders, two dates what it takes to change that order; one order of a plan and
  one that may be of none give an edit of either kind.  `MaxLoose` only keeps
  free orders from using up `MaxOrders`.  Two sessions wait in rings of two; of longer
  ones the theorem `WaitsKnown` speaks, for any number of sessions.
* Triage: two detections can be merged into each other, replaced and reopened, or opened
  by two runs at once, and two incident numbers make a collision.  Keys do not interact
  but through the flush of one run, for which two rows of one key do.  A third detection
  (longer chains of merges) is out of TLC's reach beside two runs; the theorems have any
  number of detections, keys, operators and runs.
* Network: two refreshes overlap in every order of beginnings, answers and ends; the
  clock outlives the cache (1) and the stale limit (2).
* Ingest: two threads race for a number or an item while a third repeats a key; an
  import may fall between any two steps.
* Calculations: inputs lie at and beside each threshold; the reports' frozen clock lies
  behind and ahead of the server's, before and after incidents, their ends and readings.

The proofs remove these bounds from the properties they cover.

### Deadlock

`operations`, `alert_shared` and `triage` check it.  In `operations` it is the question
whether two requests can wait for each other's locks (`LockTask` waits while the
row is held).  In `maintenance` and `triage` a waiting request may always `Fail`, as
the database's deadlock detection makes it; there the waits are stated themselves
(`DeadlocksKnown`, `MergesEnd`).  The other runs stop when their registrations,
runs, refreshes or deliveries are done.

### Fairness

* `SliceLifecycle`: threads run on and a poll eventually succeeds (WF per thread);
  a slice polled PENDING again and again passes its time limit at some poll (SF on
  `WatchReap`, which is enabled at each such poll and disabled between them); the
  operator completes or fails an activation it accepted (WF).  Nothing is assumed
  of the delivery of notifications.  A failing *activate* is excluded:
  the code tries it once, and a slice that stays AVAILABLE is then waited for
  without end.
* `ResponseAgent`: pool threads run on (WF per run), as every external call has a
  timeout.  Nothing is assumed about which way a call ends, nor that a late command
  ever arrives.
* `ThreatAlerts`: batches keep coming (the simulator's stream), threads run on, the
  monotonic clock advances (WF).  Nothing is assumed about verdicts.
* `DeviceNetwork`: a call to the provider ends (httpx has a timeout) and an idle loop
  runs what is ready (WF per answer and per finish).  A stopped loop is outside.
* `Ingest`: threads run on (WF per thread); who holds a number waits for nothing.

## 5. Proofs

Checked by TLAPS for every value of the constants that satisfies the named
assumptions of the module:

| Module | Theorems | Inductive invariant |
| --- | --- | --- |
| `SliceLifecycleProofs` | `TypeCorrect`, `NoIncidentLost`, `DecisionsBounded`, `ActivationsBounded`, `WatcherDecidesOnce`, `WatcherImplements`; `RequestsHold` | `ActivationInv` counts what each channel still has to send; `JobInv` ties the attach loops to the watcher's position and the dict entry; `SoloInv` says what one live watcher may rely on |
| `ResponseAgentProofs` | `TypeCorrect`, `ClosuresJustified`, `EmergenciesReported`, `AuditStaysTrue` | `RunInv`: what a run's node says about its decision, command and path; `ValveInv`: a closed valve has a run that commanded it; `LogInv`: an entry is its run as it still stands |
| `ThreatAlertsProofs` | `TypeCorrect`, `ActiveIncidentsAccounted`, `SecondAlertsRaced`; `VerdictsHold` | `ByInv`: an incident is active exactly while somebody has registered it; `RaceInv`: who enters a registered incident was entering when it began |
| `IncidentOperationsProofs` | `TypeCorrect`, `OperationsImplementDesk`, `ResolutionsKnow`, `TimelineTells`, `ResponsesAssigned`, `TasksStay`; `ReportsHold`, `PagesHold`, `ChartsHold` | `LockInv`: one holder per row; `SeenInv`: what was read under the lock is still so; `NumberInv`: numbers are given out once |
| `MaintenanceProofs` | `TypeCorrect`, `OneOpen`, `HistoryStays`, `DateRefreshed`, `WaitsKnown`, `MaintenanceImplementsBook`; `SeedsHold` | `Apart`: no row and no number has two holders; `AllGood`: what a transaction has read under its locks is still so, and what it will write agrees with it; `Room`; for the refinement `AllReady`: what it has in hand at its commit |
| `DetectionTriageProofs` | `TypeCorrect`, `PromotionsMatch`, `MergesOrdered`, `OneOpen`, `OnlyAllowed`, `TriageImplementsLife`; `RulesHold` | `Locks`: no row has two holders; `Known`: what a request has read of its rows is still so; `Runs`: what a run remembers; `Matched`, `Ending`; `Races`: which runs overlap; `Replaced`, `AllApart` |
| `DeviceNetworkProofs` | `TypeCorrect`, `BatchesWhole`, `LoopStops`, `FreshIsRecent`; `AnswersHold` | `Dated`: a row is stamped no later than observed; `Pending`: what a refresh has in hand; `Single`: one refresh at most has flushed rows; `Whole`: `BatchIsWhole` over the set of rows |
| `IngestProofs` | `TypeCorrect`, `ResultsWhole`, `AnswersTrue`, `WarningsTold`; `ContractsHold` | `Numbers`: the runs' numbers are 1 to their number; `Threads`: a number that is held is free and held alone, one that was computed lies above what the thread began from |

None of the safety properties is inductive alone.  `NoLostIncident`, for example,
speaks of a watcher that has returned; the step in which it returns needs to know
that its entry was in the dict, or had been popped by somebody who attaches
(`SoloInv`), which in turn needs the attach loops' progress (`JobInv`).
`ClosedKnowingly` needs that the tasks a resolution counted under the lock are
still the tasks (`SeenInv`), which is where the row locks enter, and that another
incident's new task cannot be one of them (`NumberInv`).  The same two make each
request one step of `IncidentDesk` (`OperationsImplementDesk`): what it read is so at its
commit, and a task it moves or adds is no other incident's.  `AuditTruth` follows from
`LogInv`: the entry is a copy of fields that no later step of any run changes, so
each conjunct is one about the run itself.

In the maintenance what a transaction will write is checked long before it commits.
The invariant says what keeps it right meanwhile: a plan's lock for its row and for
the absence of an open order (`RowsGood`, `MovedGood`), the order's lock for the row
an edit read (`EditGood`), and the event's number, which every change of a plan
holds, for the asset's date (`PlanGood`): nobody locks the asset, yet no two
transactions that change its plans can both have passed their inserts.  That the
generator's queue exists at all, a sorted enumeration of a finite set of plans, is a
lemma of its own (`Sortable`); `Plans` is therefore assumed finite.

`WaitsKnown` is of rings of any length.  Who holds a number wants no other and
waits, if at all, for a pin, so a ring in which a number is waited for has an edit in it; the edit
waits for a plan's lock, and whoever holds that wants a number, or is a generator at
its locks and waits for another plan.  A ring without one is of such generators alone.

`MaintenanceImplementsBook` needs a little more (`AllReady`), of the same kind: the
plans a transaction opens orders of are still enabled, because they are locked; it has
one order for each plan it moves on; and the date that an update or a disabling has loaded
is still the asset's, because whoever writes that date, the completion of an order too,
holds the event's number.  Of a plan's creation that is not so, which loads the date
before it asks for the number.

In the triage `IncidentsMatch` needs that a promotion's detection is still in review
when the promotion writes (`Known`, from `Locks`) and that its number is at most one
too high, so that one the unique constraint lets through is the next.  Merges end
because a merge's target is active under the merge's own lock, hence not in any
chain; they do not wait for each other because each waits only for a later number.
`OneOpen`, `OnlyAllowed` and `TriageImplementsLife` hold for any number of runs: a run
opens a detection only where its key has none that stands, and no request makes one
stand again without its history saying so; another run can, but then both are at work at
once (`Races`) and what it opens is marked.  That is also why a run, although it looks without
locks and publishes much later, is one step of `DetectionLife` at its commit: what it
looked up as absent is still absent (`Replacing`), what it repeats is still held unless
it overlapped, and, visiting each key once, it opens none of a key whose detection it
notes (`AllApart`).  A request is one step because its row stays locked from its reading
to its commit (`Known`).

In the network refreshes the step that needs the invariant is the end of a batch: its
own flushed rows may be written only because nobody else has any (`Single`), and a
refresh that stops the loop is behind one whose flushed rows are of devices without
a number (`Pending`).  `FreshIsRecent` rests on the order of the stamp and the
observation (`Dated`), not on the order of commits.

In the ingest `AnsweredTrue` says of a result that ended in an error that another was
stored since it began.  The thread itself only sees its number taken, so the
invariant keeps that the number it computed lies above the highest it began from,
and that numbers have no gaps: a number that is taken is at most the highest, which
has then grown.  The same pair gives the clash on an item at the commit, since an
item that was looked up as absent and is there has come with a run of its own.

Each proof has a lemma per part of the invariant with one step per action.
`WatcherDecidesOnce`, `WatcherImplements`, `TriageImplementsLife`,
`MaintenanceImplementsBook` and `OperationsImplementDesk` are refinements:
initial states map to initial states and every step to a step of the abstract
specification or a stutter, under the invariant; for `WatcherDecidesOnce` as long as no
notification has taken an entry and no registrations overlap.

Some theorems state what a refined specification implies and a reader wants to see by
itself, so that no run checks it a second time: `ResolutionsKnow` (no task stays open
under a resolution unnoticed), `ResponsesAssigned`, `TasksStay`, `DateRefreshed` (the
asset's date after a change of a plan) and `OnlyAllowed` (the workflow's transitions).

### The calculations

The theorem of a calculation (after the semicolon in the table) says that its group of
section 4 holds of every input its assumption admits; the invariant is only that the
input is one of them, and the work is in the lemmas about the operators.

* `RulesHold` (`RulesSound`): windows of readings of any length, in order of time and
  none of the future, as the engine's query returns them; pairs of scored
  observations of any numbers.  It needs that each rule's scan keeps the times it
  found in order, and that each term of the score grows with its observation.
* `VerdictsHold` (`VerdictsCautious`): any deviations, forest scores, answers and
  pairs of observations.
* `AnswersHold` (`AnswersKept`): any answers and rows, any number of retries and of
  devices.  Assumed: a stored status is one of the column's five, and the numbers the
  operator configures are numbers of the sandbox.
* `ContractsHold` (`AgentsToldTrue`): any history of requests, rows and audit
  entries.  Assumed: a run's id is a key; what the agents' own models say of the
  batches and entries they send (tiers from 1 to 3, a command only of an isolation).
* `ReportsHold` (`ReportsAddUp`): any finite tables and any allowed interval, under the
  foreign keys from detections to sensors and from sensors and incidents to zones.
  The sums over buckets and zones are counts of disjoint parts (`SumOfParts`, whose
  induction is over sets and needs no operator).
* `PagesHold` (`PagesAgree`): any finite tables with the constraints the code's own
  writers keep (`IncidentStored`: an incident's times agree with its status, its zone
  is there), dated before or after either clock, and every order a query may return.
* `RequestsHold` (`BatchesHeard`): threats with numbers where they have a key, any
  messages, errors, answers and polls.  A sorted list is what ranks its members: each rank is
  taken once, since ranks are as many as members (`SortedIs`), so ranking and grouping
  lose no threat and count none twice; decisions and runs correspond by the positions
  that two filters, one after the other, take (`TakenTwice`); the two polls are loops,
  of which `LoopThere` says that they have outcomes and `LoopKeeps` what they keep.
* `ChartsHold` (`ChartsTrue`): any finite set of readings of known sensors, one of a
  sensor at a time, whether dated before now or after; any of the ranges and any limit
  up to 2000, and either clock ahead of the other.  An average of integers lies between them (`SumWithin`, `QuotientWithin`),
  and so does an average of averages (`AveragedPoint`, used once for the sensors'
  buckets and once for the dashboard's); buckets keep the order of times
  (`ShownInOrder`); the anchored window holds the newest reading (`AnchoredIs`).

* `SeedsHold` (`SeedsRepeat`), after the maintenance proofs: any tables of rows as the platform stores them, and any
  agents' results with the foreign keys and unique ids of their tables.  Assumed: of
  readings marked as the seed's and of the demonstration's history there is only what a
  seed wrote, and an incident is resolved where its status says so.  `SeedDatabaseIs`
  gives the seed as one equation per table (`SeedOperationsIs` for the longest step);
  that a second seed changes nothing is then a fact about each table alone.  A number is
  left to its operator by a flag in a row the seed rewrites, so `SeededTwice` shows that
  the row it wrote tells the next seed the same.

The assumptions are evaluated by the run `calculations` on its own inputs, among which
each of the cases they leave open occurs.

### Only model-checked

* The liveness properties (`EventuallyDecided`, `EveryRunAudited`, `PathsGivenBack`,
  `SuppressionEnds`, `RefreshesEnd`, `EveryDeliveryAnswered`), which rest on fairness
  and ENABLED.
* `RecursionsSound`: nested payloads and the ticks of the water are recursive
  definitions, and what they compute for every input is an induction over data; what
  the simulator's scenarios make of the rules' thresholds holds of its own values, which
  the run takes, not of every base.
* The violated property, which is a counterexample.

## 6. What the work shows

Holds, for every interleaving modelled: the slice's two channels lose no incident
and decide it at most twice, unless a slice is registered again under a live
watcher; valves close only when guardrails say so; the audit log stays true of a
world in which commands arrive late; unlocked trackers never suppress an incident
nobody reported or lost by a fault; row locks suffice for incidents and tasks, for
maintenance cycles and for triage (not for an asset's next date, below); a refresh of the network never passes an old
observation as fresh and a batch is whole; what the ingest stores is whole and what
it tells is so.

Two conditions qualify this.  A second registration of a live slice voids
both decision properties (`AllowOverlap`), and `AlertAccounted` counts an alert lost
to a failed request or a raised KeyError as accounted for: the incident then goes
on suppressing until it is old or calm.

What the code does and its reader may not expect, met while modelling.  The first two
are the runs `response_fail_closed` and `alert_exactly_one`; the others are described by the model (a property
excepts exactly them, or an action has them as an outcome).

Agents:

* The reachability check does not fail closed: without an answer a mapped cluster
  counts as reachable and its valve is closed (`reachability_client.py:122`).
* Two callers of `process_batch` alert for one incident (`pipeline.py:100`), although the
  tracker is there "to guarantee EXACTLY ONE alert" (line 58).
* A run about a device outside the desert clusters decides and acts, then fails
  in the audit node (`audit_writer.py:12`).  So does any run that meets a reply that
  is JSON and no object, at whichever service, or no JSON at the reachability one (`reachability_client.py:98`,
  `actuator_client.py:24`, `network_release_agent.py:34`): it ends there, unaudited,
  its path kept.  The response agent's README has "you must never skip audit
  logging" (line 15) and that "network errors, timeouts, or bad JSON" are caught
  (line 36); `EveryRunAudited` and `PathsGivenBack` except those runs by name.
* The valve command among them is the worst: the command may have closed the valve,
  and nobody is told that it was not confirmed (`execute_response.py:35` catches
  `ValveCommandError` alone).  `UnconfirmedReported` excepts it.
* A malformed device or `incident_context` entry ends the loop that meets it and
  leaves its incident and those after it undecided (`webhook_server.py:106`, `:41`).
* Runs that share a slice: the first to finish deletes it for the others
  (`release_network.py:18`).
* The reaper may delete, on a stale poll, a slice that operates by then
  (`webhook_server.py:184`; its docstring, line 71, has "wedged/failed slice").
* Three normal windows clear an incident whatever suspicious ones lie between
  (`pipeline.py:215`; line 61 says consecutive).
* The notification client returns True whatever happened; the planner builds its
  chain outside the try that holds the fallback (`llm_response_planner.py:102`); the
  flags `requeue` and `escalate_to_human` are read by nobody (`pipeline.py:258`).
* A graph that crashes on a suspicion publishes it as a confirmed anomaly, offline,
  tier 1 (`pipeline.py:244-252`).  Windows of fewer than five readings are tier 1
  whatever the fall; criticality 1 counts as high.
* The congestion facade swallows the API's failure and returns a static profile
  per cluster, although `investigation.py` says a failure is never interpreted as a
  reading (`camara_client.py:240-268`).
* A batch is cut to its first ten threats before it is ranked, and grouping by zone
  undoes the rank across zones; an explicit `severity_tier: null` loses the
  message; an exception in the graph drops its decisions but leaves the sessions
  it made (an imsi that is no number, `request_slicing.py:30`, or an unknown device,
  `request_qod.py:67`, raises out of its tool, and whether that ends the graph is the
  library's choice); a session whose reply is lost is told as failed; a slice that failed to be prepared attaches with an empty id
  (`runner.py`, `graph.py`).

Platform:

* A collision of run numbers in the ingest answers 500 and the sender does not
  retry: the result is lost.  The idempotency key is looked up twice and not unique,
  and the agents' default batch id is one for all, so that a second result under it
  is dropped as a duplicate.
* Two overlapping runs of the engine, which nothing prevents, open two detections of one
  condition; so does reopening a dismissed detection that was replaced.  A merge
  and a run may wait for each other.
* A plan created while another's date is changed may leave the asset's next maintenance
  at that other's, although the new plan is due first: its date equals the one loaded
  before and is not written (`services/maintenance.py:399`, `:576`).
* An edit of a work order and a request that holds its plan may wait for each other,
  and so may two generators; the database ends it.
* Bulk refreshes with a device that has no number can stop the event loop until a
  restart.  A refresh loses its whole batch by one answer with a coordinate that is not
  a number, which passes the range check, or with a connectivity or area type longer
  than its column, which nothing checks (`network/device_network.py:102`, `:160`).
* A chart's limit keeps the oldest rows; the network health chart is anchored at the
  newest reading of all sensors; absent packet loss is shown as 0.  A reading dated
  later than now is accepted, and one is enough to keep the window at now: an older
  network's charts are then empty (`SeriesReachesLatest` excepts it).
* The analytics' clock stands still at the demonstration's date
  (`analytics_constants.py:19`), as its docstring says; the other pages go by the
  server's.  The reports' active incidents therefore miss those detected after it and
  still hold those resolved after it, and a sensor that went silent after it stays
  fresh there: `PagesAgree` and `ChartsTrue` say so exactly.
* The map's "critical" counts resolved incidents when these are shown, the
  dashboard's does not; "scheduled" maintenance also lists what is upcoming; the
  queue's highest priority counts closed detections; nearby places say 0
  active incidents.
* A response run's cluster warning is not refreshed by an import that maps its cluster
  alone (`integrations/identity.py:113` leaves it out of what has changed, `:144` warns
  of it): `WarningsMatch` excepts it;
  `last_seen_at` may go back; an agent's row stays healthy when a remote check
  raises; mock runs are hidden and their findings shown.
* A reseed deletes results on the ids the real agents use, and every task but the
  demonstration's three, whose numbers are given out again while old events still
  name them.

Testbed:

* Of the evaluation's scenarios, a degrading pump raises no suspicion in its forty
  seconds; the large leak is first suspected on a window of fewer than five
  readings, which is of tier 1 where 2 is the least expected, and the active
  incident silences the later, fuller windows; sensor drift is suspected only by the
  forest, while the evaluation reads the latest result of any scenario.
* A baseline is learnt from the first batch whatever it shows: an agent that joins
  in a fault is blind to it and suspects the healthy cluster ever after.

## 7. Not modelled

* The learned models (isolation forest, language model) and regressions: their
  results are inputs or choices.
* Elapsed time in the agents, except that deadlines may pass at any moment.
* The stand-in services (valve actuator, notification, CAMARA), which are the
  environment of the agents' modules and can fail there.
* Views that only present rows (agent audit, incident details, forms of
  maintenance rows), free text search, the frontend, migrations (their constraints
  are part of the modules).

## 8. Running

    tlc -config SliceRace.cfg MCSliceLifecycle
    tlapm SliceLifecycleProofs.tla

and likewise for the runs in `PROJECT.json`.  The longest runs take two to four
minutes on two workers.
