------------------------------ MODULE Analytics ------------------------------
(***************************************************************************)
(* The analytics pages as functions of the stored rows                     *)
(* (plateform/backend/app/services/analytics.py, analytics_constants.py,   *)
(* repositories/analytics.py).                                             *)
(*                                                                         *)
(* Times are minutes.  db holds the sets of rows: zones [id], sensors [id, *)
(* zone, offline], readings [sensor, at, kpa], detections [id, sensor, at, *)
(* status, priority, rule], incidents [id, zone, sensor, detected,         *)
(* answered, resolved, status, code, tier], tasks [id, incident, open,     *)
(* completed, due] and assets [id, zone, type, health]; Null is SQL's.  A  *)
(* filter f is a record with a zone, a sensor, both or neither.  now is    *)
(* the analytics' own clock, ANALYTICS_NOW, which stands still; the other  *)
(* pages give Classify the server's.  A mean is rounded down; of the       *)
(* averages the pressure stands for all.                                   *)
(***************************************************************************)
EXTENDS NullValue, Integers, FiniteSets, FiniteSetsExt, Trials

-----------------------------------------------------------------------------
(***************************************************************************)
(* Windows, buckets and comparisons.  The minute both windows share is in  *)
(* the current one.                                                        *)
(***************************************************************************)
CurrentWindow(now, range)  == [start |-> now - range, end |-> now, closed |-> TRUE]
PreviousClosed(now, range) == [start |-> now - 2 * range, end |-> now - range, closed |-> TRUE]   \* mutant
Previous(now, range)       == [start |-> now - 2 * range, end |-> now - range, closed |-> FALSE]
In(t, w) == t # Null /\ w.start <= t /\ IF w.closed THEN t <= w.end ELSE t < w.end

IntervalAllowed(range, interval) ==
  \/ range = 1440  /\ interval \in {15, 30, 60}
  \/ range = 10080 /\ interval \in {60, 360, 1440}
  \/ range = 43200 /\ interval \in {360, 1440}

BucketOf(t, interval) == t - (t % interval)
Buckets(w, interval) == {b \in w.start..w.end : b % interval = 0}

\* The rows' buckets, as the page shows them: those that begin in the window, Null
\* where no row falls.
SeriesOf(rows, at(_), w, interval) ==
  [b \in Buckets(w, interval) |->
     LET n == Cardinality({x \in rows : BucketOf(at(x), interval) = b}) IN IF n = 0 THEN Null ELSE n]

CompareValues(current, previous) ==
  IF current = Null \/ previous = Null THEN [change |-> Null, trend |-> "unavailable"]
  ELSE LET change == current - previous
           Size(x) == IF x < 0 THEN -x ELSE x
           stable == change = 0 \/ Size(change) * 100 < Size(previous)
       IN [change |-> change, trend |-> IF stable THEN "stable" ELSE IF change > 0 THEN "up" ELSE "down"]

\* The sum of a function over its domain.
SumOf(f) == MapThenSumSet(LAMBDA k : f[k], DOMAIN f)
Mean(rows, value(_)) == IF rows = {} THEN Null ELSE MapThenSumSet(value, rows) \div Cardinality(rows)

-----------------------------------------------------------------------------
(***************************************************************************)
(* The repository's queries.                                               *)
(***************************************************************************)
ZoneOf(db, sensor) == (CHOOSE s \in db.sensors : s.id = sensor).zone
InScope(f, zone, sensor) == /\ "zone" \in DOMAIN f => zone = f.zone
                            /\ "sensor" \in DOMAIN f => sensor = f.sensor
Sensors(db, f) == {s \in db.sensors : InScope(f, s.zone, s.id)}

ReadingsIn(db, w, f)   == {r \in db.readings : In(r.at, w) /\ InScope(f, ZoneOf(db, r.sensor), r.sensor)}
DetectionsIn(db, w, f) == {d \in db.detections : In(d.at, w) /\ InScope(f, ZoneOf(db, d.sensor), d.sensor)}

\* An incident is in its own zone, and of a sensor only when it names one.
Scoped(db, f) == {n \in db.incidents : InScope(f, n.zone, n.sensor)}
IncidentsIn(db, w, f) == {n \in Scoped(db, f) : In(n.detected, w)}
ActiveIncidents(db, asOf, f) == {n \in Scoped(db, f) : n.detected <= asOf /\ (n.resolved = Null \/ n.resolved > asOf)}

Pressure(db, w, f) == Mean(ReadingsIn(db, w, f), LAMBDA r : r.kpa)
DetectionCounts(db, w, f) ==
  LET rows == DetectionsIn(db, w, f) IN
  [created |-> Cardinality(rows),
   dismissed |-> Cardinality({d \in rows : d.status = "dismissed"}),
   promoted |-> Cardinality({d \in rows : d.status = "promoted"})]
IncidentCounts(db, w, f) ==
  LET rows == IncidentsIn(db, w, f) IN
  [created |-> Cardinality(rows),
   resolved |-> Cardinality({n \in rows : n.status = "resolved"}),
   falseAlarms |-> Cardinality({n \in rows : n.status = "resolved" /\ n.code = "false_alarm"})]

\* The minutes from detection to the given moment, of the incidents that reached it.
DurationStats(db, w, f, reached(_)) ==
  LET rows == {n \in IncidentsIn(db, w, f) : reached(n) # Null /\ reached(n) >= n.detected} IN
  [mean |-> Mean(rows, LAMBDA n : reached(n) - n.detected), samples |-> Cardinality(rows)]

\* Open tasks are those open now, whatever the window; overdue is as of its end.
TaskCounts(db, w, f) ==
  LET rows == {t \in db.tasks : \E n \in Scoped(db, f) : n.id = t.incident} IN
  [open |-> Cardinality({t \in rows : t.open}),
   completed |-> Cardinality({t \in rows : In(t.completed, w)}),
   overdue |-> Cardinality({t \in rows : t.open /\ t.due # Null /\ t.due < w.end})]

Grouped(rows, key(_)) == [k \in {key(x) : x \in rows} |-> Cardinality({x \in rows : key(x) = k})]

\* The share of the readings the sensors should have sent; an offline sensor is expected
\* only up to the hour at which the demonstration's sensors go offline.
Expected(s, w, now, sample, offline) ==
  LET end == IF s.offline THEN Min({w.end, now - offline}) ELSE w.end IN
  IF end < w.start THEN 0
  ELSE IF w.closed THEN (end - w.start) \div sample + 1 ELSE (end - w.start) \div sample
Completeness(db, w, f, now, sample, offline) ==
  LET due == MapThenSumSet(LAMBDA s : Expected(s, w, now, sample, offline), Sensors(db, f)) IN
  IF due = 0 THEN Null ELSE Min({100, (Cardinality(ReadingsIn(db, w, f)) * 100) \div due})

Classify(latest, now) == IF latest = Null \/ now - latest > 120 THEN "offline"
                         ELSE IF now - latest <= 15 THEN "fresh" ELSE "stale"
LatestReading(db, s) == LET ats == {r.at : r \in {x \in db.readings : x.sensor = s.id}} IN
                        IF ats = {} THEN Null ELSE Max(ats)
Freshness(db, f, now) ==
  [state \in {"fresh", "stale", "offline"} |->
     Cardinality({s \in Sensors(db, f) : Classify(LatestReading(db, s), now) = state})]

HealthBand(score) == IF score = Null THEN "unknown"
                     ELSE IF score >= 80 THEN "healthy" ELSE IF score >= 60 THEN "fair" ELSE "poor"

\* One row of the zones page; averages need a sensor that reported.
ZoneRow(db, zone, w, sample) ==
  LET f        == [zone |-> zone]
      readings == ReadingsIn(db, w, f)
      due      == Cardinality(Sensors(db, f)) * ((w.end - w.start) \div sample + 1)
      some     == readings # {}
  IN [zone |-> zone, reporting |-> Cardinality({r.sensor : r \in readings}),
      completeness |-> IF due > 0 /\ some THEN Min({100, (Cardinality(readings) * 100) \div due}) ELSE Null,
      pressure |-> IF some THEN Pressure(db, w, f) ELSE Null,
      detections |-> Cardinality(DetectionsIn(db, w, f)),
      active |-> Cardinality(ActiveIncidents(db, w.end, f)),
      overdue |-> TaskCounts(db, w, f).overdue, sufficient |-> some]

-----------------------------------------------------------------------------
(***************************************************************************)
(* The pages.                                                              *)
(***************************************************************************)
\* A filter that names nothing known is refused.
ScopeKnown(db, f) == /\ "zone" \in DOMAIN f => \E z \in db.zones : z.id = f.zone
                     /\ "sensor" \in DOMAIN f => \E s \in db.sensors : s.id = f.sensor

Metric(current, previous) == [current |-> current, delta |-> CompareValues(current, previous)]
ResponseTime(db, w, f) == DurationStats(db, w, f, LAMBDA n : n.answered).mean
ActiveCount(db, w, f) == Cardinality(ActiveIncidents(db, w.end, f))

Overview(db, f, now, range, sample, offline) ==
  LET c == CurrentWindow(now, range)
      p == Previous(now, range)
  IN [pressure   |-> Metric(Pressure(db, c, f), Pressure(db, p, f)),
      complete   |-> Metric(Completeness(db, c, f, now, sample, offline), Completeness(db, p, f, now, sample, offline)),
      active     |-> Metric(ActiveCount(db, c, f), ActiveCount(db, p, f)),
      response   |-> Metric(ResponseTime(db, c, f), ResponseTime(db, p, f)),
      detections |-> Metric(DetectionCounts(db, c, f).created, DetectionCounts(db, p, f).created),
      incidents  |-> Metric(IncidentCounts(db, c, f).created, IncidentCounts(db, p, f).created),
      overdue    |-> Metric(TaskCounts(db, c, f).overdue, TaskCounts(db, p, f).overdue)]

DetectionsPage(db, f, now, range, interval) ==
  LET w == CurrentWindow(now, range) IN
  [counts |-> DetectionCounts(db, w, f),
   byPriority |-> Grouped(DetectionsIn(db, w, f), LAMBDA d : d.priority),
   byRule |-> Grouped(DetectionsIn(db, w, f), LAMBDA d : d.rule),
   series |-> SeriesOf(DetectionsIn(db, w, f), LAMBDA d : d.at, w, interval)]
IncidentsPage(db, f, now, range, interval) ==
  LET w == CurrentWindow(now, range) IN
  [counts |-> IncidentCounts(db, w, f),
   byStatus |-> Grouped(IncidentsIn(db, w, f), LAMBDA n : n.status),
   byTier |-> Grouped(IncidentsIn(db, w, f), LAMBDA n : n.tier),
   series |-> SeriesOf(IncidentsIn(db, w, f), LAMBDA n : n.detected, w, interval)]
TelemetryPage(db, f, now, range, interval) ==
  LET w == CurrentWindow(now, range) IN
  [freshness |-> Freshness(db, f, now),
   series |-> SeriesOf(ReadingsIn(db, w, f), LAMBDA r : r.at, w, interval)]
ZonesPage(db, now, range, sample) ==
  {ZoneRow(db, z.id, CurrentWindow(now, range), sample) : z \in db.zones}
AssetsPage(db, f) ==
  Grouped({a \in db.assets : InScope(f, a.zone, a.id)}, LAMBDA a : HealthBand(a.health))

-----------------------------------------------------------------------------
(***************************************************************************)
(* Properties of one input: db, now, range, interval, filter.              *)
(***************************************************************************)
\* "The shared boundary belongs to the current window only" (resolve_windows): over both
\* windows every row of the last two ranges counts once, and the trend compares that.
WindowsShareNothing(i) ==
  LET both == [start |-> i.now - 2 * i.range, end |-> i.now, closed |-> TRUE]
      m    == Overview(i.db, i.filter, i.now, i.range, 15, 180).detections
  IN  2 * m.current - m.delta.change = Cardinality(DetectionsIn(i.db, both, i.filter))

\* The series adds up to the count beside it, except that rows of a bucket that began
\* before the window are in no bucket of the page.
Total(series) == SumOf([b \in DOMAIN series |-> IF series[b] = Null THEN 0 ELSE series[b]])
SeriesAddsUp(i) ==
  LET w == CurrentWindow(i.now, i.range)
      page == DetectionsPage(i.db, i.filter, i.now, i.range, i.interval)
      early == {d \in DetectionsIn(i.db, w, i.filter) : BucketOf(d.at, i.interval) < w.start}
  IN  /\ Total(page.series) = page.counts.created - Cardinality(early)
      /\ Total(page.byPriority) = page.counts.created

\* The zones' rows add up to the overview's, detections by their sensor's zone and
\* incidents by their own.
ZonesAddUp(i) ==
  LET rows == ZonesPage(i.db, i.now, i.range, 15)
      all  == Overview(i.db, << >>, i.now, i.range, 15, 180)
  IN  /\ SumOf([z \in rows |-> z.detections]) = all.detections.current
      /\ SumOf([z \in rows |-> z.active]) = all.active.current

-----------------------------------------------------------------------------
(* Reports, each tried by itself: the rows are dated and name zones and sensors there are.  *)
CONSTANT Reports

ASSUME ReportsAssumption ==
  \A i \in Reports :
    /\ i.now \in Int /\ IntervalAllowed(i.range, i.interval)
    /\ IsFiniteSet(i.db.zones) /\ IsFiniteSet(i.db.detections) /\ IsFiniteSet(i.db.incidents)
    /\ \A s \in i.db.sensors : \E z \in i.db.zones : z.id = s.zone
    /\ \A d \in i.db.detections : d.at \in Int /\ \E s \in i.db.sensors : s.id = d.sensor
    /\ \A n \in i.db.incidents : n.detected \in Int /\ \E z \in i.db.zones : z.id = n.zone

TryAnalytics == Try("analytics", Reports)
ReportsSpec  == Untried /\ [][TryAnalytics]_trial

\* The two windows of a comparison share no row (analytics_constants.py).
DisjointWindows == For("analytics", WindowsShareNothing(input))
\* A series adds up to its count, but for the first partial bucket (analytics.py).
SeriesTotals == For("analytics", SeriesAddsUp(input))
\* The zones add up to the overview (repositories/analytics.py).
ZoneTotals == For("analytics", ZonesAddUp(input))

\* The reports' windows, series and zones count each row once (analytics.py).
ReportsAddUp == DisjointWindows /\ SeriesTotals /\ ZoneTotals
=============================================================================
