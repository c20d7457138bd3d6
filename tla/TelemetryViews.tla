---------------------------- MODULE TelemetryViews ----------------------------
(***************************************************************************)
(* What the platform shows of the stored readings                          *)
(* (plateform/backend/app/services/telemetry.py, repositories/telemetry.py,*)
(* api/routes/dashboard.py and the sensor's page of services/assets.py).   *)
(*                                                                         *)
(* db holds the sets assets [id, sensor, status] and readings [sensor, at, *)
(* kpa, loss], Null where nothing was measured; times are minutes.  A query *)
(* q holds range, start, end, interval (0 for raw), metrics and limit.  Of *)
(* the metrics the pressure and the packet loss stand for all.  cap is     *)
(* DEFAULT_LIMIT, 500 in the code.  A chart is the set of its points [at,  *)
(* kpa, loss], which are shown in the order of their times.                *)
(***************************************************************************)
EXTENDS Analytics

Week    == 10080
Ranges  == {60, 360, 1440, Week}
Metrics == {"pressure", "flow", "temperature", "signal", "packet_loss", "battery"}

-----------------------------------------------------------------------------
(***************************************************************************)
(* Windows.  The newest reading is any sensor's; the window moves back to  *)
(* it only where the asked one ends more than a whole range later.         *)
(***************************************************************************)
LatestTime(db) == IF db.readings = {} THEN Null ELSE Max({x.at : x \in db.readings})

WindowFrom(q, to) ==
  LET from == IF q.start = Null THEN to - q.range ELSE q.start IN
  [start |-> from, end |-> to, closed |-> TRUE,
   error |-> IF q.start = Null /\ q.range \notin Ranges THEN "invalid_range"
             ELSE IF to - from > Week THEN "range_too_large"
             ELSE IF from >= to THEN "invalid_range" ELSE "none"]
EndOf(q, now) == IF q.end = Null THEN now ELSE q.end

ResolveWindowAtNow(db, q, now) == WindowFrom(q, EndOf(q, now))       \* mutant: never anchored
ResolveWindow(db, q, now) ==
  LET end  == EndOf(q, now)
      last == LatestTime(db)
  IN WindowFrom(q, IF q.start = Null /\ last # Null /\ end - last > q.range THEN last ELSE end)

-----------------------------------------------------------------------------
(***************************************************************************)
(* Histories: the first cap rows of the window.                            *)
(***************************************************************************)
\* column gives each row's value, Null where nothing was measured.
Avg(column) ==
  LET present == {x \in DOMAIN column : column[x] # Null} IN
  IF present = {} THEN Null ELSE SumOf([x \in present |-> column[x]]) \div Cardinality(present)

\* The rows that are shown at one stamp make one point of their averages.
Averaged(rows, stamp) ==
  LET Of(b, a) == Avg([x \in {y \in rows : stamp[y] = b} |-> x[a]]) IN
  {[at |-> b, kpa |-> Of(b, "kpa"), loss |-> Of(b, "loss")] : b \in {stamp[x] : x \in rows}}

OfSensor(db, id, w) == {x \in db.readings : x.sensor = id /\ In(x.at, w)}
FirstOf(rows, cap)  == {x \in rows : Cardinality({y \in rows : y.at <= x.at}) <= cap}
Bucketed(rows, interval) == Averaged(rows, [x \in rows |-> BucketOf(x.at, interval)])

Rows(db, id, w, interval) ==
  LET rows == OfSensor(db, id, w) IN
  IF interval = 0 THEN {[at |-> x.at, kpa |-> x.kpa, loss |-> x.loss] : x \in rows}
  ELSE Bucketed(rows, interval)

Selected(row, metrics) ==
  [at |-> row.at, kpa |-> IF "pressure" \in metrics THEN row.kpa ELSE Null,
   loss |-> IF "packet_loss" \in metrics THEN row.loss ELSE Null]

IsSensor(db, id) == \E a \in db.assets : a.id = id /\ a.sensor
History(db, id, q, now, cap) ==
  LET w == WindowFrom(q, EndOf(q, now))
      limit == Min({2000, IF q.limit \in {Null, 0} THEN cap ELSE q.limit})
      metrics == IF q.metrics = {} THEN Metrics ELSE q.metrics
      error == IF ~\E a \in db.assets : a.id = id THEN "not_found"
               ELSE IF ~IsSensor(db, id) THEN "not_a_sensor"
               ELSE IF w.error # "none" THEN w.error
               ELSE IF q.interval \notin {0, 1, 5, 15, 60} THEN "invalid_interval"
               ELSE IF ~ metrics \subseteq Metrics THEN "invalid_metrics"
               ELSE IF limit < 1 THEN "invalid_limit" ELSE "none"
  IN [error |-> error,
      items |-> IF error = "none" THEN {Selected(x, metrics) : x \in FirstOf(Rows(db, id, w, q.interval), limit)} ELSE {}]

-----------------------------------------------------------------------------
(***************************************************************************)
(* The latest readings, the network's summary, and the charts.             *)
(***************************************************************************)
LatestOf(db, id, now) ==
  LET rows == {x \in db.readings : x.sensor = id}
      at   == IF rows = {} THEN Null ELSE Max({x.at : x \in rows})
  IN [at |-> at, freshness |-> Classify(at, now), age |-> IF at = Null THEN Null ELSE now - at,
      loss |-> IF at = Null THEN Null ELSE (CHOOSE x \in rows : x.at = at).loss]

SensorIds(db) == {a.id : a \in {x \in db.assets : x.sensor}}
NetworkSummary(db, now) ==
  LET batch == {[id |-> s, latest |-> LatestOf(db, s, now)] : s \in SensorIds(db)}
      heard == {b \in batch : b.latest.loss # Null}
      times == {b.latest.at : b \in batch} \ {Null}
  IN [sensors |-> Cardinality(batch),
      byState |-> [state \in {"fresh", "stale", "offline"} |->
                     Cardinality({b \in batch : b.latest.freshness = state})],
      delivery |-> Mean(heard, LAMBDA b : 100 - b.latest.loss),
      lastAt |-> IF times = {} THEN Null ELSE Max(times)]

\* Each sensor's buckets are averaged, then the sensors' averages of a bucket.
Anchored(db, range, now) == ResolveWindow(db, [range |-> range, start |-> Null, end |-> Null], now)
SeriesInterval(range)    == IF range = 1440 THEN 15 ELSE 5
Samples(db, range, now, cap) ==
  UNION {{[sensor |-> s, at |-> x.at, kpa |-> x.kpa, loss |-> x.loss] :
            x \in FirstOf(Rows(db, s, Anchored(db, range, now), SeriesInterval(range)), cap)} : s \in SensorIds(db)}
DashboardSeries(db, range, now, cap) ==
  LET samples == Samples(db, range, now, cap) IN Averaged(samples, [x \in samples |-> x.at])

\* The dashboard leaves out a sample without a pressure and shows no loss as none lost.
DashboardPoints(db, range, now, cap) ==
  {[x EXCEPT !.loss = IF @ = Null THEN 0 ELSE @] : x \in {y \in DashboardSeries(db, range, now, cap) : y.kpa # Null}}

HealthInterval(range) == CASE range = 60 -> 0 [] range = 360 -> 5 [] OTHER -> 15
SensorHealth(db, id, range, now, cap) ==
  LET w == Anchored(db, range, now) IN
  [freshness |-> LatestOf(db, id, now).freshness, lastAt |-> LatestOf(db, id, now).at,
   items |-> History(db, id, [range |-> range, start |-> w.start, end |-> w.end, limit |-> Null, metrics |-> Metrics,
                              interval |-> HealthInterval(range)], now, cap).items]

-----------------------------------------------------------------------------
(***************************************************************************)
(* Properties of one input: db, range, now, clock, cap.                    *)
(***************************************************************************)
Cut(db, id, w, interval, cap) == Cardinality(Rows(db, id, w, interval)) > cap
EndsAt(chart, at) == chart # {} /\ Max({x.at : x \in chart}) = at

\* The dashboard's chart ends in the bucket of the network's newest reading however old it
\* is, and a fresh sensor's chart in its own; except where more than cap rows are asked for,
\* which loses the newest ones, and where that reading is dated later than now.
SeriesReachesLatest(i) ==
  LET last == LatestTime(i.db)
      step == SeriesInterval(i.range)
  IN (last # Null /\ last <= i.now /\ \A s \in SensorIds(i.db) : ~Cut(i.db, s, Anchored(i.db, i.range, i.now), step, i.cap))
       => EndsAt(DashboardSeries(i.db, i.range, i.now, i.cap), BucketOf(last, step))
HealthReachesLatest(i) ==
  \A s \in SensorIds(i.db) :
    LET page == SensorHealth(i.db, s, i.range, i.now, i.cap)
        step == HealthInterval(i.range)
    IN (page.freshness = "fresh" /\ page.lastAt <= i.now /\ ~Cut(i.db, s, Anchored(i.db, i.range, i.now), step, i.cap))
         => EndsAt(page.items, IF step = 0 THEN page.lastAt ELSE BucketOf(page.lastAt, step))
ChartsReachLatest(i) == SeriesReachesLatest(i) /\ HealthReachesLatest(i)

\* A point of the dashboard lies between the readings of its bucket, however the sensors'
\* averages are averaged again; what was not measured pulls nothing towards zero.
SeenAt(i, at) == {r.kpa : r \in {y \in i.db.readings : BucketOf(y.at, SeriesInterval(i.range)) = at}} \ {Null}
PointsWithinReadings(i) ==
  \A x \in DashboardPoints(i.db, i.range, i.now, i.cap) :
    SeenAt(i, x.at) # {} /\ x.kpa \in Min(SeenAt(i, x.at))..Max(SeenAt(i, x.at))

\* The dashboard's summary and the sensors' pages agree on who is fresh, and the summary ends
\* at the newest reading.  The reports' clock stands still: they say what the summary said at
\* that moment, and once it has passed they never tell fewer fresh or more offline than the
\* summary does (they may tell more fresh: a sensor that went silent after it stays fresh).
FreshnessAgrees(i) ==
  LET summary  == NetworkSummary(i.db, i.now).byState
      sensors  == [sensors |-> {[id |-> s, zone |-> "z1"] : s \in SensorIds(i.db)}, readings |-> i.db.readings]
      reported == Freshness(sensors, << >>, i.clock)
  IN /\ NetworkSummary(i.db, i.now).lastAt = LatestTime(i.db)
     /\ summary["fresh"] = Cardinality({s \in SensorIds(i.db) :
                              SensorHealth(i.db, s, i.range, i.now, i.cap).freshness = "fresh"})
     /\ reported = NetworkSummary(i.db, i.clock).byState
     /\ i.clock <= i.now => /\ reported["fresh"] >= summary["fresh"]
                            /\ reported["offline"] <= summary["offline"]

-----------------------------------------------------------------------------
(* Databases, each looked at by itself: a reading is a sensor's, one at a time, as the table *)
(* and the ingest require; it may be dated later than now.  now is the server's clock,       *)
(* clock the analytics' frozen one (ANALYTICS_NOW), behind it or ahead.                      *)
CONSTANT Charts

ReadingStored(db, x) ==
  /\ x.at \in Int /\ x.kpa \in Int \union {Null} /\ x.loss \in Int \union {Null}
  /\ x.sensor \in SensorIds(db)
  /\ \A y \in db.readings : x.sensor = y.sensor /\ x.at = y.at => x = y

ASSUME ChartsAssumption ==
  \A i \in Charts :
    /\ i.now \in Int /\ i.clock \in Int /\ i.range \in Ranges /\ i.cap \in 1..2000
    /\ IsFiniteSet(i.db.assets) /\ IsFiniteSet(i.db.readings)
    /\ \A x \in i.db.readings : ReadingStored(i.db, x)

TryTelemetry == Try("telemetry", Charts)
ChartsSpec   == Untried /\ [][TryTelemetry]_trial

\* A chart ends at the newest reading, however old, unless its limit cuts it (services/telemetry.py).
ChartsCurrent == For("telemetry", ChartsReachLatest(input))
\* A point of the dashboard lies between its readings (services/telemetry.py).
PointsTrue == For("telemetry", PointsWithinReadings(input))
\* The pages agree on which sensors are fresh, and the reports as of their clock (repositories/telemetry.py, services/analytics.py).
FreshAgree == For("telemetry", FreshnessAgrees(input))

\* What is shown of readings (services/telemetry.py): to the newest, between their values,
\* as fresh as they are.
ChartsTrue == ChartsCurrent /\ PointsTrue /\ FreshAgree
===============================================================================
