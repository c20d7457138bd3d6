-------------------------------- MODULE Seeds --------------------------------
(***************************************************************************)
(* The demonstration seed of the platform (app/scripts/seed_*.py and the   *)
(* catalogues of app/data) and the clean-up of dummy agent rows, as        *)
(* functions from a database to the database they leave.                   *)
(*                                                                         *)
(* db holds assets [id -> [zone, segment, status, number, demo, seen]],    *)
(* incidents [number -> [status, acked, started, resolved, code]], events  *)
(* [incident, id, task], tasks [id -> [incident, status, started, done]],  *)
(* plans [id -> [asset, enabled, due]], orders [id -> [plan, status,       *)
(* assigned, started, completed, cancelled]], history [id, order, plan,    *)
(* to], readings [sensor, at, seed], agents [code -> [enabled, health]],   *)
(* and the agents' results [runs, findings, advice, log, mappings].        *)
(* Times are hours relative to SEED_NOW; wording, places and the values    *)
(* measured are left out.                                                  *)
(***************************************************************************)
EXTENDS NullValue, Trials, Sequences, FiniteSetsExt, Functions

-----------------------------------------------------------------------------
(***************************************************************************)
(* The catalogues.  An asset: id, zone, segment, status, and whether it is *)
(* numbered: the catalogue gives it a SIM number.                          *)
(***************************************************************************)
SENSORS == {
  <<"SNS-CRN-014", "CRN", "CRN-TRUNK-4.2", "online", "unnumbered">>, <<"SNS-CRN-013", "CRN", "CRN-TRUNK-4.2", "online", "unnumbered">>,
  <<"SNS-HBR-007", "HBR", "HBR-XFER-7", "online", "numbered">>, <<"SNS-HBR-008", "HBR", "HBR-XFER-7", "online", "unnumbered">>,
  <<"SNS-AIN-221", "AIN", "AIN-FEED-3", "degraded", "numbered">>, <<"SNS-AIN-220", "AIN", "AIN-FEED-3", "offline", "unnumbered">>,
  <<"SNS-JED-112", "JED", "JED-OBHUR-12", "online", "unnumbered">>, <<"SNS-JED-114", "JED", "JED-OBHUR-12", "online", "unnumbered">>,
  <<"SNS-DOH-044", "DOH", "DOH-LUS-2", "degraded", "numbered">>, <<"SNS-DOH-043", "DOH", "DOH-LUS-2", "online", "unnumbered">>,
  <<"SNS-MCT-009", "MCT", "MCT-MUTRAH", "online", "unnumbered">>, <<"SNS-MCT-010", "MCT", "MCT-MUTRAH", "online", "numbered">>,
  <<"SNS-CAS-031", "CAS", "CAS-RING-B", "degraded", "numbered">>, <<"SNS-RUH-078", "RUH", "RUH-IND-2", "online", "unnumbered">>,
  <<"SNS-RUH-080", "RUH", "RUH-IND-2", "online", "unnumbered">>, <<"SNS-AMM-015", "AMM", "AMM-ABDALI", "online", "unnumbered">>}
VALVES == {
  <<"VLV-CRN-014", "CRN", "CRN-TRUNK-4.2", "online", "unnumbered">>, <<"VLV-CRN-015", "CRN", "CRN-TRUNK-4.2", "online", "unnumbered">>,
  <<"VLV-HBR-007", "HBR", "HBR-XFER-7", "online", "unnumbered">>, <<"VLV-AIN-018", "AIN", "AIN-FEED-3", "online", "unnumbered">>,
  <<"VLV-JED-112", "JED", "JED-OBHUR-12", "online", "unnumbered">>, <<"VLV-DOH-044", "DOH", "DOH-LUS-2", "online", "unnumbered">>,
  <<"VLV-MCT-009", "MCT", "MCT-MUTRAH", "online", "unnumbered">>, <<"VLV-CAS-031", "CAS", "CAS-RING-B", "degraded", "unnumbered">>,
  <<"VLV-RUH-078", "RUH", "RUH-IND-2", "online", "unnumbered">>, <<"VLV-AMM-015", "AMM", "AMM-ABDALI", "online", "unnumbered">>}
GATEWAYS == {
  <<"CRN-GW-01", "CRN", "CRN-TRUNK-4.2", "online", "numbered">>, <<"HBR-GW-02", "HBR", "HBR-XFER-7", "online", "numbered">>,
  <<"AIN-GW-01", "AIN", "AIN-FEED-3", "degraded", "numbered">>, <<"JED-GW-01", "JED", "JED-OBHUR-12", "online", "numbered">>,
  <<"DOH-GW-02", "DOH", "DOH-LUS-2", "online", "numbered">>, <<"MCT-GW-01", "MCT", "MCT-MUTRAH", "online", "numbered">>,
  <<"CAS-GW-04", "CAS", "CAS-RING-B", "degraded", "numbered">>, <<"RUH-GW-01", "RUH", "RUH-IND-2", "online", "numbered">>,
  <<"AMM-GW-03", "AMM", "AMM-ABDALI", "online", "numbered">>}
SEGMENTS == {"CRN-TRUNK-4.2", "HBR-XFER-7", "AIN-FEED-3", "JED-OBHUR-12", "DOH-LUS-2", "MCT-MUTRAH", "CAS-RING-B",
             "RUH-IND-2", "AMM-ABDALI"}
\* Incident, zone, segment, sensor, valve, status.
INCIDENTS == {
  <<"INC-1842", "CRN", "CRN-TRUNK-4.2", "SNS-CRN-014", "VLV-CRN-014", "investigating">>,
  <<"INC-1835", "HBR", "HBR-XFER-7", "SNS-HBR-007", "VLV-HBR-007", "awaiting_approval">>,
  <<"INC-1841", "AIN", "AIN-FEED-3", "SNS-AIN-221", "VLV-AIN-018", "investigating">>,
  <<"INC-1833", "JED", "JED-OBHUR-12", "SNS-JED-112", "VLV-JED-112", "investigating">>,
  <<"INC-1838", "DOH", "DOH-LUS-2", "SNS-DOH-044", "VLV-DOH-044", "investigating">>,
  <<"INC-1840", "MCT", "MCT-MUTRAH", "SNS-MCT-009", "VLV-MCT-009", "investigating">>,
  <<"INC-1836", "CAS", "CAS-RING-B", "SNS-CAS-031", "VLV-CAS-031", "investigating">>,
  <<"INC-1837", "RUH", "RUH-IND-2", "SNS-RUH-078", "VLV-RUH-078", "resolved">>,
  <<"INC-1834", "AMM", "AMM-ABDALI", "SNS-AMM-015", "VLV-AMM-015", "resolved">>}
TIMELINES == {[incident |-> n[1], id |-> "timeline", task |-> Null] : n \in INCIDENTS}
SNAPSHOTS == {"HBR-GW-02", "CRN-GW-01", "SNS-HBR-007", "SNS-AIN-221", "VLV-CRN-014", "MCT-GW-01", "AIN-GW-01"}

CATALOGUE == SENSORS \union VALVES \union GATEWAYS

Ids(rows) == {r[1] : r \in rows}
TheRow(rows, id) == CHOOSE r \in rows : r[1] = id
Numbered(s) == s[5] = "numbered"
\* _get_or_create of a set of rows.
Put(stored, new) == [id \in DOMAIN stored \union DOMAIN new |-> IF id \in DOMAIN new THEN new[id] ELSE stored[id]]
Failed(db) == db.error # "none"

-----------------------------------------------------------------------------
(***************************************************************************)
(* Assets.  A number the catalogue did not give is kept.                   *)
(***************************************************************************)
KeepNumberNever(assets, id) == FALSE                          \* mutant
KeepNumber(assets, id) == id \in DOMAIN assets /\ assets[id].number # Null /\ ~assets[id].demo

SeedAsset(assets, s) ==
  [zone |-> s[2], segment |-> s[3], status |-> s[4], seen |-> 0,
   number |-> IF KeepNumber(assets, s[1]) THEN assets[s[1]].number ELSE IF Numbered(s) THEN "catalogue" ELSE Null,
   demo |-> ~KeepNumber(assets, s[1]) /\ Numbered(s)]
\* A segment is in the zone of the first incident on it; without one the seed fails.
SegmentZone(segment) == CHOOSE z \in {n[2] : n \in INCIDENTS} : \E n \in INCIDENTS : n[3] = segment /\ n[2] = z
SeedAssets(db) ==
  IF \/ \E s \in SEGMENTS : s \notin {n[3] : n \in INCIDENTS}
     \/ \E s \in CATALOGUE : s[3] \notin SEGMENTS \/ SegmentZone(s[3]) # s[2]
  THEN [db EXCEPT !.error = "asset_zone_segment_mismatch"]
  ELSE [db EXCEPT !.assets = Put(@, [id \in Ids(CATALOGUE) |-> SeedAsset(db.assets, TheRow(CATALOGUE, id))])]

-----------------------------------------------------------------------------
(***************************************************************************)
(* Incidents: the catalogue's are put back as it describes them, with its  *)
(* timeline alone.                                                         *)
(***************************************************************************)
SeedIncident(n) ==
  [status |-> n[6], acked |-> Null, started |-> Null, resolved |-> n[6] = "resolved",
   code |-> CASE n[1] = "INC-1837" -> "false_alarm" [] n[1] # "INC-1837" /\ n[6] = "resolved" -> "other" [] OTHER -> Null]
SeedIncidents(db) ==
  IF \E n \in INCIDENTS : n[4] \notin DOMAIN db.assets \/ n[5] \notin DOMAIN db.assets
  THEN [db EXCEPT !.error = "asset_missing"]
  ELSE [db EXCEPT !.incidents = Put(@, [id \in Ids(INCIDENTS) |-> SeedIncident(TheRow(INCIDENTS, id))]),
                  !.events = {e \in @ : e.incident \notin Ids(INCIDENTS)} \union TIMELINES]

-----------------------------------------------------------------------------
(***************************************************************************)
(* Readings: nothing is inserted when as many as expected are there.       *)
(***************************************************************************)
HORIZON == 3
OFFLINE_END == 1
ExpectedReadings(assets) ==
  {[sensor |-> a, at |-> t, seed |-> TRUE] :
     a \in {x \in Ids(SENSORS) : assets[x].status # "offline"}, t \in (-HORIZON)..0}
  \union {[sensor |-> a, at |-> t, seed |-> TRUE] :
     a \in {x \in Ids(SENSORS) : assets[x].status = "offline"}, t \in (-HORIZON)..(-OFFLINE_END)}
ReadingsToInsert(db) ==
  IF Cardinality({r \in db.readings : r.seed}) = Cardinality(ExpectedReadings(db.assets)) THEN {}
  ELSE ExpectedReadings(db.assets)
\* ON CONFLICT DO NOTHING: a row is known by its sensor, time and source.
SeedReadings(db) ==
  LET all == db.readings \union ReadingsToInsert(db) IN
  [db EXCEPT !.readings = all,
             !.assets = [a \in DOMAIN @ |-> IF \E r \in all : r.sensor = a
                                            THEN [@[a] EXCEPT !.seen = Max({r.at : r \in {x \in all : x.sensor = a}})]
                                            ELSE @[a]]]

-----------------------------------------------------------------------------
(***************************************************************************)
(* Operations.  Every task but the three of the demonstration is deleted.  *)
(***************************************************************************)
SeedReview(db) == [db EXCEPT !.review = IF @ = "new" THEN "under_review" ELSE @]

DEMO_TASKS == {"TASK-000001", "TASK-000002", "TASK-000003"}
DemoTask(id) ==
  [incident |-> "INC-1842", status |-> CASE id = "TASK-000001" -> "in_progress" [] id = "TASK-000002" -> "completed" [] OTHER -> "todo",
   started |-> CASE id = "TASK-000001" -> -4 [] id = "TASK-000002" -> -3 [] OTHER -> Null,
   done |-> IF id = "TASK-000002" THEN -1 ELSE Null]
AddEvent(events, incident, id, task) ==
  IF \E e \in events : e.incident = incident /\ e.id = id THEN events
  ELSE events \union {[incident |-> incident, id |-> id, task |-> task]}

ForgetTasks(db) ==
  [db EXCEPT !.tasks = Restrict(@, DOMAIN @ \intersect DEMO_TASKS),
             !.events = {IF e.task \in DOMAIN db.tasks \ DEMO_TASKS THEN [e EXCEPT !.task = Null] ELSE e : e \in @}]
Acknowledged(row)   == [row EXCEPT !.status = "investigating", !.acked = 0]
Resolved(row, code) == [row EXCEPT !.resolved = TRUE, !.code = code]
Responding(row)     == [row EXCEPT !.status = "investigating", !.started = IF row.started = Null THEN -2 ELSE row.started]

Acknowledge1836(db) ==
  IF db.incidents["INC-1836"].acked # Null THEN db
  ELSE [db EXCEPT !.incidents["INC-1836"] = Acknowledged(@), !.events = AddEvent(@, "INC-1836", "ops-ack", Null)]
Resolve(db, n, code, event) ==
  IF db.incidents[n].status # "resolved" THEN db
  ELSE [db EXCEPT !.incidents[n] = Resolved(@, code), !.events = AddEvent(@, n, event, Null)]
Respond1842(db) ==
  LET n == "INC-1842" IN
  [db EXCEPT !.incidents[n] = Responding(@), !.tasks = Put(@, [t \in DEMO_TASKS |-> DemoTask(t)]),
             !.events = AddEvent(AddEvent(AddEvent(@, n, "ops-response", Null), n, "ops-task-1", "TASK-000001"),
                                 n, "ops-task-2", "TASK-000002")]
SeedOperations(db) ==
  Respond1842(Resolve(Resolve(Acknowledge1836(ForgetTasks(db)), "INC-1834", "monitoring_completed", "ops-resolved"),
                      "INC-1837", "false_alarm", "ops-false"))

-----------------------------------------------------------------------------
(***************************************************************************)
(* Maintenance: the plans, orders and history of the demonstration alone.  *)
(***************************************************************************)
DemoPlans == <<"SNS-HBR-007", "VLV-CRN-014", "HBR-GW-02", "SNS-CRN-014", "CRN-GW-01", "VLV-HBR-007", "SNS-JED-112",
               "AIN-GW-01", "SNS-DOH-044">>
DUE == <<4, 20, 20, 60, 90, -1, 10, 14, -2>>
PlanValues(p) == [asset |-> DemoPlans[p], enabled |-> p # 9, due |-> DUE[p]]
\* Six orders: their plans (0 for none) and statuses, and how far each has come.
OrderPlans    == <<2, 1, 4, 3, 5, 0>>
OrderStatuses == <<"scheduled", "scheduled", "assigned", "in_progress", "completed", "cancelled">>
\* _ORDER_DEFAULTS: what an order of the demonstration does not say is cleared.
SeedOrder(o) == [plan |-> OrderPlans[o], status |-> OrderStatuses[o], assigned |-> o \in 3..5, started |-> o \in 4..5,
                 completed |-> o = 5, cancelled |-> o = 6]
\* What each event of the history left its order in; the plans' own events come first.
DemoHistory == {[id |-> p, order |-> 0, plan |-> p, to |-> IF p = 9 THEN "plan_disabled" ELSE "plan_created"] : p \in 1..9}
               \union {[id |-> 10 + k, order |-> <<1, 2, 3, 3, 4, 4, 5, 6>>[k], plan |-> <<2, 1, 4, 4, 3, 3, 5, 0>>[k],
                        to |-> <<"scheduled", "scheduled", "scheduled", "assigned", "assigned", "in_progress", "completed",
                                 "cancelled">>[k]] : k \in 1..8}
SeedMaintenance(db) ==
  IF \E p \in 1..9 : DemoPlans[p] \notin DOMAIN db.assets THEN [db EXCEPT !.error = "asset_missing"]
  ELSE LET kept == {e \in db.history : \E d \in DemoHistory : d.id = e.id} IN
       [db EXCEPT !.plans = [p \in 1..9 |-> PlanValues(p)],
                  !.orders = [o \in 1..6 |-> SeedOrder(o)],
                  !.history = kept \union {d \in DemoHistory : \A e \in kept : e.id # d.id}]

-----------------------------------------------------------------------------
(***************************************************************************)
(* Dummy agent rows: a run that is mock, the network agent's, one of the   *)
(* historical five, or linked to a finding or advice on a demo identifier; *)
(* and all that belongs to it.  Every event of the log numbered AAE is one.*)
(***************************************************************************)
DummyRuns(r) ==
  {x \in r.runs : \/ x.mock \/ x.network \/ x.historical
                  \/ \E f \in r.findings \union r.advice : f.run = x.id /\ f.demo}
Dummy(r) ==
  LET runs == {x.id : x \in DummyRuns(r)} IN
  [runs |-> DummyRuns(r),
   findings |-> {f \in r.findings : f.demo \/ f.run \in runs}, advice |-> {f \in r.advice : f.demo \/ f.run \in runs},
   log |-> {e \in r.log : e.mock \/ e.numbered \/ e.network \/ e.demo \/ e.run \in runs},
   mappings |-> {x \in r.mappings : x.demo}]
Counts(d) == [runs |-> Cardinality(d.runs), findings |-> Cardinality(d.findings), advice |-> Cardinality(d.advice),
              log |-> Cardinality(d.log), mappings |-> Cardinality(d.mappings)]
\* A finding or advice left on a deleted run fails the whole clean-up.
DeleteDummy(r) ==
  LET d == Dummy(r) left == [k \in DOMAIN r |-> r[k] \ d[k]] IN
  IF \E f \in left.findings \union left.advice : f.run \in {x.id : x \in d.runs}
  THEN [error |-> "integrity", left |-> r, deleted |-> Counts([k \in DOMAIN r |-> {}])]
  ELSE [error |-> "none", left |-> left, deleted |-> Counts(d)]
\* The command: refused in production, and without --confirm it only counts.
Cleanup(r, production, confirm) ==
  IF production THEN [error |-> "refused", left |-> r, selected |-> Null]
  ELSE [error |-> IF confirm THEN DeleteDummy(r).error ELSE "none", selected |-> Counts(Dummy(r)),
        left |-> IF confirm THEN DeleteDummy(r).left ELSE r]

\* The two agents are switched off, whatever they answered last; the network agent's row is reset.
SeedAgents(db) ==
  [db EXCEPT !.agents = Put(@, [c \in {"investigation_agent", "response_agent", "network_agent"} |->
       [enabled |-> FALSE, health |-> IF c # "network_agent" /\ c \in DOMAIN db.agents THEN db.agents[c].health ELSE "disabled"]])]
SeedNetworkAudit(db) == LET done == DeleteDummy(db.results) IN
  IF done.error # "none" THEN [db EXCEPT !.error = done.error] ELSE [db EXCEPT !.results = done.left]
SeedDeviceNetwork(db) ==
  IF SNAPSHOTS \subseteq DOMAIN db.assets THEN [db EXCEPT !.snapshots = @ \union SNAPSHOTS]
  ELSE [db EXCEPT !.error = "asset_missing"]

\* seed_database: one transaction, in this order; an error leaves the database as it was.
Unless(db, next) == IF Failed(db) THEN db ELSE next
ThenIncidents(db)   == Unless(db, SeedIncidents(db))
ThenOperations(db)  == Unless(db, SeedOperations(SeedReview(SeedReadings(db))))
ThenMaintenance(db) == Unless(db, SeedMaintenance(SeedAgents(db)))
ThenAudit(db)       == Unless(db, SeedNetworkAudit(db))
ThenNetwork(db)     == Unless(db, SeedDeviceNetwork(db))
SeedDatabase(db) ==
  LET done == ThenNetwork(ThenAudit(ThenMaintenance(ThenOperations(ThenIncidents(SeedAssets(db))))))
  IN IF Failed(done) THEN [db EXCEPT !.error = done.error] ELSE done

-----------------------------------------------------------------------------
(***************************************************************************)
(* Predicates of the runs, over a database an operator has worked in.      *)
(***************************************************************************)
SeedsAgain(db) == LET after == SeedDatabase(db) IN after.error = "none" /\ SeedDatabase(after) = after
OwnNumbers(db) ==
  \A s \in CATALOGUE :
    LET own == s[1] \in DOMAIN db.assets /\ db.assets[s[1]].number # Null /\ ~db.assets[s[1]].demo
    IN SeedDatabase(SeedDatabase(db)).assets[s[1]].number =
         IF own THEN db.assets[s[1]].number ELSE IF Numbered(s) THEN "catalogue" ELSE Null
OrdersAgree(db) ==
  LET after == SeedDatabase(db) IN
  \A o \in DOMAIN after.orders :
    LET row == after.orders[o] story == {e \in after.history : e.order = o} IN
    /\ row.started => row.status \in {"in_progress", "completed"}
    /\ row.completed <=> row.status = "completed"
    /\ row.cancelled <=> row.status = "cancelled"
    /\ \E e \in story : e.to = row.status /\ \A f \in story : f.id <= e.id
    /\ \A e \in story : e.plan = row.plan
ReadingsWhole(db) ==
  LET after == SeedDatabase(db) IN
  /\ ExpectedReadings(after.assets) \union {r \in db.readings : ~r.seed} \subseteq after.readings
  /\ \A a \in Ids(SENSORS) : after.assets[a].seen = Max({r.at : r \in {x \in after.readings : x.sensor = a}})
NothingDangles(db) ==
  LET after == SeedDatabase(db) IN
  /\ \A e \in after.events : e.task = Null \/ e.task \in DOMAIN after.tasks
  /\ \A n \in DOMAIN after.incidents : after.incidents[n].resolved <=> after.incidents[n].status = "resolved"
  /\ \A n \in DOMAIN db.incidents \ Ids(INCIDENTS) : after.incidents[n] = db.incidents[n]
CleanupExact(i) ==
  LET r == i.results result == Cleanup(r, i.production, i.confirm)
      twice == Cleanup(result.left, FALSE, TRUE) IN
  /\ i.production \/ ~i.confirm => result.left = r
  /\ result.error \in {"none", "refused"}
  /\ ~i.production /\ i.confirm =>
        /\ result.selected = [k \in DOMAIN r |-> Cardinality(r[k]) - Cardinality(result.left[k])]
        /\ twice.left = result.left
        /\ \A f \in (r.findings \ result.left.findings) \union (r.advice \ result.left.advice) :
              f.run \notin {x.id : x \in result.left.runs}
        /\ \A f \in result.left.findings \union result.left.advice : ~f.demo /\ \E x \in result.left.runs : x.id = f.run /\ ~x.mock

-----------------------------------------------------------------------------
(* Databases to seed and clean-ups, each looked at by itself: the rows as the platform      *)
(* stores them, and of the seed's own readings and history only what it wrote.               *)
CONSTANTS Seedings, Cleanups

Tables == {"error", "assets", "incidents", "events", "tasks", "plans", "orders", "history", "readings", "agents",
           "results", "review", "snapshots"}
\* A finding's run is there, and an id is one run's.
ResultsStored(r) ==
  /\ r = [runs |-> r.runs, findings |-> r.findings, advice |-> r.advice, log |-> r.log, mappings |-> r.mappings]
  /\ \A k \in DOMAIN r : IsFiniteSet(r[k])
  /\ \A x, y \in r.runs : x.id = y.id => x = y
  /\ \A f \in r.findings \union r.advice : \E x \in r.runs : x.id = f.run
AssetStored(row) ==
  /\ row.demo \in BOOLEAN
  /\ row = [zone |-> row.zone, segment |-> row.segment, status |-> row.status, seen |-> row.seen,
            number |-> row.number, demo |-> row.demo]
EventStored(db, e) == /\ e = [incident |-> e.incident, id |-> e.id, task |-> e.task]
                      /\ e.task \in DOMAIN db.tasks \union {Null}
ReadingsStored(readings) ==
  /\ IsFiniteSet(readings)
  /\ {r \in readings : r.seed} \subseteq ExpectedReadings([a \in Ids(SENSORS) |-> [status |-> TheRow(SENSORS, a)[4]]])
DatabaseStored(db) ==
  /\ db = [t \in Tables |-> db[t]] /\ db.error = "none"
  /\ \A a \in DOMAIN db.assets : AssetStored(db.assets[a])
  /\ \A n \in DOMAIN db.incidents : db.incidents[n].resolved <=> db.incidents[n].status = "resolved"
  /\ \A e \in db.events : EventStored(db, e)
  /\ \A e \in db.history, d \in DemoHistory : e.id = d.id => e = d
  /\ ReadingsStored(db.readings) /\ ResultsStored(db.results)

ASSUME SeedingsAssumption == \A db \in Seedings : DatabaseStored(db)
ASSUME CleanupsAssumption == \A i \in Cleanups : /\ ResultsStored(i.results)
                                                /\ i.production \in BOOLEAN /\ i.confirm \in BOOLEAN

TrySeeds   == Try("seeds", Seedings)
TryCleanup == Try("cleanup", Cleanups)
SeedsSpec  == Untried /\ [][TrySeeds \/ TryCleanup]_trial

\* Seeding succeeds whatever operators did, and a second time changes nothing (seed_database.py).
SeedTwice == For("seeds", SeedsAgain(input))
\* A number an operator gave survives every seed, and one the catalogue gave follows it (seed_database.py).
OwnNumberKept == For("seeds", OwnNumbers(input))
\* After a seed an order's fields, status and history tell the same (seed_maintenance.py).
SeededOrders == For("seeds", OrdersAgree(input))
\* A seed completes the readings, keeps the measured ones and dates each sensor by its latest (seed_telemetry.py).
SeededReadings == For("seeds", ReadingsWhole(input))
\* A seed leaves promoted incidents alone and no event on a task that is gone (seed_operations.py).
SeedKeepsWhole == For("seeds", NothingDangles(input))
\* A clean-up deletes what its dry run counts, at once, and no run loses a part of its results (cleanup_dummy_agent_data.py).
CleanExactly == For("cleanup", CleanupExact(input))

\* A seed succeeds over what operators did, keeps what is theirs and is whole; a clean-up
\* deletes what it counted (app/scripts).
SeedsRepeat == SeedTwice /\ OwnNumberKept /\ SeededOrders /\ SeededReadings
  /\ SeedKeepsWhole /\ CleanExactly
==============================================================================
