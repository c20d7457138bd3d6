--------------------------- MODULE OperationsViews ---------------------------
(***************************************************************************)
(* The lists, details, counts and the map of the platform as functions of  *)
(* the stored rows: services and repositories of map, assets, incidents    *)
(* and detections.                                                         *)
(*                                                                         *)
(* db holds the sets of rows: zones [id, drawn], segments [id, zone, at],  *)
(* assets [id, type, status, zone, segment, at, due, number, seen],        *)
(* incidents [id, zone, segment, sensor, valve, tier, status, detected,    *)
(* resolved, started, loss, at], detections [id, sensor, rule, status,     *)
(* priority, score, start, end, detected], findings [detection, stored]    *)
(* and readings [sensor, at, kpa].  A place is an integer of metres along  *)
(* a line, Null where none is stored; number is how many digits a SIM has. *)
(* Free text search is left out.                                           *)
(***************************************************************************)
EXTENDS Analytics, Sequences, SequencesExt

ACTIVE_STATUSES == {"investigating", "awaiting_approval"}
EXCLUDED_INCIDENT_STATUSES == {"resolved"}
Severity(tier) == <<"tier_1", "tier_2", "tier_3">>[tier]

\* A filter names the values its rows must have.
Passes(row, filter) == \A k \in DOMAIN filter : row[k] = filter[k]
CountOf(rows, P(_)) == Cardinality({x \in rows : P(x)})

\* One sort: by keys in order, each ascending, or each descending with Null last in both.
Less(a, b, descending) == IF a = Null \/ b = Null THEN a # Null ELSE IF descending THEN a > b ELSE a < b
Precedes(k, l, descending) ==
  \E i \in DOMAIN k : k[i] # l[i] /\ Less(k[i], l[i], descending) /\ \A j \in 1..(i - 1) : k[j] = l[j]

\* The orders a query may answer its rows in: rows that tie come either way round.
Listings(rows, Before(_, _)) ==
  {list \in SetToSeqs(rows) : \A j, k \in DOMAIN list : j < k => ~Before(list[k], list[j])}

-----------------------------------------------------------------------------
(***************************************************************************)
(* Assets.                                                                 *)
(***************************************************************************)
Month == 30 * 1440
MaintenanceState(a, now) ==
  CASE a.due = Null                               -> "not_scheduled"
    [] a.due # Null /\ a.due <= now               -> "due"
    [] a.due # Null /\ a.due > now /\ a.due <= now + Month -> "upcoming"
    [] OTHER                                      -> "scheduled"
MaintenanceFilter(assets, which, now) ==
  {a \in assets : a.due # Null /\ CASE which = "due" -> a.due <= now
                                    [] which = "upcoming" -> a.due > now /\ a.due <= now + Month
                                    [] which = "scheduled" -> a.due > now}

StatusRank(status) == CASE status = "online" -> 3 [] status = "degraded" -> 2 [] status = "offline" -> 1 [] OTHER -> 0
AssetKey(a, by) == CASE by = "status" -> <<StatusRank(a.status), a.id>>
                     [] by = "next_maintenance" -> <<a.due, a.id>>
                     [] by = "last_seen" -> <<a.seen, a.id>>
                     [] OTHER -> <<a.id>>

\* An asset on another zone's segment fails whatever shows it.
ZoneConsistent(db, a) == a.segment = Null \/ \E s \in db.segments : s.id = a.segment /\ s.zone = a.zone
\* The country and the last four digits are shown; up to seven digits are shown whole.
Masked(digits) == IF digits = Null THEN Null
                  ELSE IF digits <= 4 THEN 0 ELSE digits - 4 - Min({3, Max({1, digits - 4})})
AssetSummary(a, now) == [id |-> a.id, status |-> a.status, maintenance |-> MaintenanceState(a, now),
                         cellular |-> a.number # Null, hidden |-> Masked(a.number)]

\* The summary is of all assets, whatever the list is filtered by.
ListAssets(db, filter, which, now) ==
  LET rows == {a \in db.assets : Passes(a, filter)}
      shown == IF which = "any" THEN rows ELSE MaintenanceFilter(rows, which, now)
  IN IF \E a \in shown : ~ZoneConsistent(db, a) THEN [error |-> "asset_zone_segment_mismatch"]
     ELSE [error |-> "none", items |-> {AssetSummary(a, now) : a \in shown},
           total |-> Cardinality(db.assets),
           due |-> CountOf(db.assets, LAMBDA a : a.due # Null /\ a.due <= now),
           status |-> [s \in {"online", "degraded", "offline"} |-> CountOf(db.assets, LAMBDA a : a.status = s)]]

\* A gateway's incidents are its zone's.
RelatedIncidents(db, a) ==
  {n \in db.incidents : CASE a.type = "sensor" -> n.sensor = a.id
                          [] a.type = "valve"  -> n.valve = a.id
                          [] OTHER             -> n.zone = a.zone}
SensorHealthScore(battery, loss) ==
  LET b == IF battery = Null THEN 80 ELSE battery l == IF loss = Null THEN 0 ELSE loss
  IN Max({0, Min({100, (b + 100 - l) \div 2})})
\* Only a sensor's health comes from its readings; the others' is generated.
HealthSeries(a) == IF a.type = "sensor" THEN "sensor_readings" ELSE "mock_recent_health"
SensorCounts(db) == LET sensors == {a \in db.assets : a.type = "sensor"} IN
                    <<CountOf(sensors, LAMBDA a : a.status = "online"), Cardinality(sensors)>>

-----------------------------------------------------------------------------
(***************************************************************************)
(* Incidents.                                                              *)
(***************************************************************************)
IncidentRank(status) ==
  CASE status = "awaiting_approval" -> 3 [] status = "investigating" -> 2 [] status = "resolved" -> 1 [] OTHER -> 0
IncidentKey(n, by) ==
  CASE by = "severity"       -> <<n.tier, n.detected>>
    [] by = "status"         -> <<IncidentRank(n.status), n.detected>>
    [] by = "estimated_loss" -> <<n.loss, n.detected>>
    [] by = "priority"       -> <<n.tier, IncidentRank(n.status), n.detected>>
    [] OTHER                 -> <<n.detected>>
ListIncidents(db, filter, by, descending) ==
  Listings({n \in db.incidents : Passes(n, filter)},
           LAMBDA x, y : Precedes(IncidentKey(x, by), IncidentKey(y, by), descending))

DashboardCounts(db) ==
  LET active == {n \in db.incidents : n.status \in ACTIVE_STATUSES} IN
  [active |-> Cardinality(active), critical |-> CountOf(active, LAMBDA n : n.tier = 3),
   loss |-> MapThenSumSet(LAMBDA n : n.loss, active),
   awaiting |-> CountOf(active, LAMBDA n : n.status = "awaiting_approval"),
   responding |-> CountOf(active, LAMBDA n : n.status = "investigating" /\ n.started # Null)]

-----------------------------------------------------------------------------
(***************************************************************************)
(* Detections.                                                             *)
(***************************************************************************)
PriorityRank(p) == CASE p = "critical" -> 4 [] p = "high" -> 3 [] p = "medium" -> 2 [] p = "low" -> 1 [] OTHER -> 0
DetectionKey(d, by) == CASE by = "priority" -> <<PriorityRank(d.priority), d.id>>
                         [] by = "score"    -> <<d.score, d.id>>
                         [] OTHER           -> <<d.detected, d.id>>
FindingOf(db, d) == {f \in db.findings : f.detection = d.id /\ \A g \in db.findings : g.detection = d.id => g.stored <= f.stored}
DetectionSummary(db, d) ==
  [id |-> d.id, status |-> d.status, finding |-> FindingOf(db, d) # {},
   awaiting |-> FindingOf(db, d) = {} /\ d.status \in {"new", "queued"}]

RelatedDetections(db, d) ==
  {e \in db.detections : e.sensor = d.sensor /\ e.rule # d.rule /\ e.start <= d.end /\ e.end >= d.start}

\* The counts and the highest are of all detections, the closed ones too.
QueueStats(db) ==
  LET rows == db.detections
      rank == [d \in rows |-> <<PriorityRank(d.priority), d.score>>]
  IN [status |-> [s \in {"new", "queued", "under_review"} |-> CountOf(rows, LAMBDA d : d.status = s)],
      high |-> CountOf(rows, LAMBDA d : d.priority = "high"), critical |-> CountOf(rows, LAMBDA d : d.priority = "critical"),
      highest |-> {d \in rows : \A e \in rows : ~Precedes(rank[e], rank[d], TRUE)}]

\* What the investigation agent would be given: the latest reading is looked up twice.
AgentInput(db, d, now) ==
  [id |-> d.id, start |-> d.start, end |-> d.end, freshness |-> Classify(LatestReading(db, [id |-> d.sensor]), now)]

-----------------------------------------------------------------------------
(***************************************************************************)
(* The map.                                                                *)
(***************************************************************************)
AssetIncidents(db, a) == {n \in db.incidents : (n.sensor = a.id \/ n.valve = a.id) /\ n.status \in ACTIVE_STATUSES}
MapZone(db, z) ==
  [id |-> z.id, assets |-> CountOf(db.assets, LAMBDA a : a.zone = z.id),
   active |-> CountOf(db.incidents, LAMBDA n : n.zone = z.id /\ n.status \in ACTIVE_STATUSES)]
MapZones(db, filter) ==
  {MapZone(db, z) : z \in {x \in db.zones : x.drawn /\ ("zone" \in DOMAIN filter => x.id = filter.zone)}}
MapPipeline(db, s) ==
  [id |-> s.id, assets |-> CountOf(db.assets, LAMBDA a : a.segment = s.id),
   active |-> CountOf(db.incidents, LAMBDA n : n.segment = s.id /\ n.status \in ACTIVE_STATUSES)]
MapPipelines(db, filter) == {MapPipeline(db, s) : s \in {x \in db.segments : x.at # Null /\ Passes(x, filter)}}
MapAsset(db, a, now) ==
  [id |-> a.id, status |-> a.status, active |-> Cardinality(AssetIncidents(db, a)),
   freshness |-> IF a.type = "sensor" THEN Classify(LatestReading(db, a), now) ELSE Null]
MapAssets(db, filter, now) == {MapAsset(db, a, now) : a \in {x \in db.assets : x.at # Null /\ Passes(x, filter)}}
MapIncidents(db, filter, includeResolved) ==
  {n \in db.incidents : /\ Passes(n, filter)
                        /\ "status" \in DOMAIN filter \/ includeResolved \/ n.status \notin EXCLUDED_INCIDENT_STATUSES}
MapDetections(db) ==
  {d \in db.detections : /\ d.status \in {"new", "queued", "under_review"}
                         /\ \E a \in db.assets : a.id = d.sensor /\ a.at # Null}

\* Of the incidents shown; a resolved one that is shown counts as critical all the same.
MapSummaryShown(db, filter, includeResolved) ==   \* mutant: every shown incident is counted active
  [active |-> Cardinality(MapIncidents(db, filter, includeResolved)),
   critical |-> CountOf(MapIncidents(db, filter, includeResolved), LAMBDA n : Severity(n.tier) = "tier_3")]
MapSummary(db, filter, includeResolved) ==
  [active |-> CountOf(MapIncidents(db, filter, includeResolved), LAMBDA n : n.status \in ACTIVE_STATUSES),
   critical |-> CountOf(MapIncidents(db, filter, includeResolved), LAMBDA n : Severity(n.tier) = "tier_3")]

\* What lies within the radius, nearest first, each as on the map but with no incidents counted.
Distance(at, origin) == IF at < origin THEN origin - at ELSE at - origin
NearbyRows(db, kind) ==
  CASE kind = "asset"    -> {[kind |-> kind, id |-> a.id, at |-> a.at] : a \in {x \in db.assets : x.at # Null}}
    [] kind = "pipeline" -> {[kind |-> kind, id |-> s.id, at |-> s.at] : s \in {x \in db.segments : x.at # Null}}
    [] kind = "incident" -> {[kind |-> kind, id |-> n.id, at |-> n.at] :
                               n \in {x \in db.incidents : x.status \notin EXCLUDED_INCIDENT_STATUSES}}
Nearby(db, origin, radius, kinds) ==
  Listings({r \in UNION {NearbyRows(db, k) : k \in kinds} : Distance(r.at, origin) <= radius},
           LAMBDA x, y : Distance(x.at, origin) < Distance(y.at, origin))

-----------------------------------------------------------------------------
(***************************************************************************)
(* Properties of one database.                                             *)
(***************************************************************************)
\* Dashboard, map and zones count the same active incidents, those by status, with or
\* without the resolved ones on the map.  The reports go by the dates and by a clock of
\* their own, which stands still: they miss exactly the active ones detected after it and
\* still count exactly those resolved after it.
ActiveCountsAgree(i) ==
  LET active   == {n \in i.db.incidents : n.status \in ACTIVE_STATUSES}
      reported == ActiveIncidents(i.db, i.clock, << >>)
  IN
  /\ DashboardCounts(i.db).active = Cardinality(active)
  /\ MapSummary(i.db, << >>, i.resolved).active = Cardinality(active)
  /\ (\A z \in i.db.zones : z.drawn) => SumOf([z \in MapZones(i.db, << >>) |-> z.active]) = Cardinality(active)
  /\ MapSummary(i.db, << >>, FALSE).critical = DashboardCounts(i.db).critical
  /\ active \ reported = {n \in active : n.detected > i.clock}
  /\ reported \ active = {n \in i.db.incidents : /\ n.resolved # Null
                                                 /\ n.detected <= i.clock /\ i.clock < n.resolved}

\* The filters of maintenance and the state each asset is told agree: "scheduled" alone
\* also lists the upcoming; the count of those due is the due filter's, at the very moment too.
MaintenanceAgrees(i) ==
  LET told(which) == {a \in i.db.assets : MaintenanceState(a, i.now) \in which} IN
  /\ MaintenanceFilter(i.db.assets, "due", i.now) = told({"due"})
  /\ MaintenanceFilter(i.db.assets, "upcoming", i.now) = told({"upcoming"})
  /\ MaintenanceFilter(i.db.assets, "scheduled", i.now) = told({"upcoming", "scheduled"})
  /\ LET list == ListAssets(i.db, << >>, "any", i.now) IN list.error = "none" => list.due = Cardinality(told({"due"}))

\* By priority, a resolved incident never comes before an active one of its tier.
ActiveFirst(i) ==
  \A list \in ListIncidents(i.db, << >>, "priority", TRUE) :
    \A j, k \in DOMAIN list : j < k /\ list[j].tier = list[k].tier =>
                                (list[j].status = "resolved" => list[k].status = "resolved")

\* Two detections are each other's related ones.
RelatedIsMutual(i) == \A d, e \in i.db.detections : e \in RelatedDetections(i.db, d) <=> d \in RelatedDetections(i.db, e)

\* With every sensor located, the map has as many detections as the queue counts open,
\* and none that awaits an agent is missing.
QueueOnMap(i) ==
  (\A a \in i.db.assets : a.at # Null) =>
    LET stats == QueueStats(i.db).status IN
    /\ Cardinality(MapDetections(i.db)) = stats["new"] + stats["queued"] + stats["under_review"]
    /\ {d \in i.db.detections : DetectionSummary(i.db, d).awaiting} \subseteq MapDetections(i.db)

\* Whatever is near is on the map, and is listed nearest first whatever its kind.
NearestFirst(i) ==
  LET onMap == {[kind |-> "asset", id |-> a.id] : a \in MapAssets(i.db, << >>, i.now)}
               \union {[kind |-> "pipeline", id |-> s.id] : s \in MapPipelines(i.db, << >>)}
               \union {[kind |-> "incident", id |-> n.id] : n \in MapIncidents(i.db, << >>, FALSE)}
  IN \A list \in Nearby(i.db, i.origin, i.radius, {"asset", "pipeline", "incident"}) :
       /\ \A k \in DOMAIN list : [kind |-> list[k].kind, id |-> list[k].id] \in onMap
       /\ \A j, k \in DOMAIN list : j < k => Distance(list[j].at, i.origin) <= Distance(list[k].at, i.origin)

-----------------------------------------------------------------------------
(* Databases, each looked at by itself.  An incident has the columns its status allows (the *)
(* table's constraints).  now is the server's clock, clock the analytics' frozen one       *)
(* (ANALYTICS_NOW): either may be ahead, and rows are dated before and after both.         *)
CONSTANT Pages

IncidentStored(db, n) ==
  /\ n.status \in ACTIVE_STATUSES \union EXCLUDED_INCIDENT_STATUSES
  /\ n.status = "resolved" <=> n.resolved # Null
  /\ n.tier \in 1..3
  /\ n.detected \in Int
  /\ n.resolved # Null => n.resolved \in Int
  /\ n.at \in Int
  /\ \E z \in db.zones : z.id = n.zone

ASSUME ViewsAssumption ==
  \A i \in Pages :
    /\ i.now \in Int /\ i.clock \in Int /\ i.origin \in Int /\ i.resolved \in BOOLEAN
    /\ IsFiniteSet(i.db.zones) /\ IsFiniteSet(i.db.assets)
    /\ IsFiniteSet(i.db.incidents) /\ IsFiniteSet(i.db.detections)
    /\ \A n \in i.db.incidents : IncidentStored(i.db, n)
    /\ \A a \in i.db.assets : a.due \in Int \union {Null} /\ a.at \in Int \union {Null}
    /\ \A s \in i.db.segments : s.at \in Int \union {Null}
    /\ \A d \in i.db.detections : \E a \in i.db.assets : a.id = d.sensor

TryViews  == Try("views", Pages)
ViewsSpec == Untried /\ [][TryViews]_trial

\* Dashboard, map and zones count the same active incidents, the reports' frozen clock aside (services/map.py, incidents.py, analytics.py).
ActiveAgree == For("views", ActiveCountsAgree(input))
\* The maintenance filters list what the assets are told to be (repositories/assets.py).
MaintenanceStates == For("views", MaintenanceAgrees(input))
\* Of one tier, the active incidents come first (repositories/incidents.py).
ActiveBeforeResolved == For("views", ActiveFirst(input))
\* Related detections are related both ways (repositories/detections.py).
RelatedMutual == For("views", RelatedIsMutual(input))
\* The map shows the detections the queue counts (repositories/detections.py).
OpenOnMap == For("views", QueueOnMap(input))
\* What is near is on the map, the nearest first (services/map.py).
NearbyOrder == For("views", NearestFirst(input))

\* Pages that show the same rows agree on them (services/map.py, assets.py, incidents.py,
\* detections.py).
PagesAgree == ActiveAgree /\ MaintenanceStates /\ ActiveBeforeResolved /\ RelatedMutual
  /\ OpenOnMap /\ NearbyOrder
==============================================================================
