---------------------------- MODULE DetectionRules ----------------------------
(***************************************************************************)
(* The detection engine's rules and scores as functions                    *)
(* (plateform/backend/app/detection/rules.py, scoring.py, catalog.py).     *)
(* A reading is a record of integers, None where the sensor sent nothing;  *)
(* times are minutes.  A percentage is compared as a fraction, exactly.    *)
(* Evidence and wording are left out.                                      *)
(***************************************************************************)
EXTENDS Trials, Integers, Sequences, FiniteSets, FiniteSetsExt, SequencesExt

None == -1000
AbsOf(x) == IF x < 0 THEN -x ELSE x
Clamp(x, lo, hi) == IF x < lo THEN lo ELSE IF x > hi THEN hi ELSE x

\* The readings with a value of a metric, by their places in the window.
With(rs, a)      == {k \in DOMAIN rs : rs[k][a] # None}
FirstWith(rs, a) == rs[Min(With(rs, a))]
LastWith(rs, a)  == rs[Max(With(rs, a))]
Values(rs, a)    == {rs[k][a] : k \in With(rs, a)}
Times(rs)        == {r.t : r \in ToSet(rs)}

NoHit == [triggered |-> FALSE, reasons |-> {}, start |-> 0, end |-> 0]
Hit(reasons, from, to) == [triggered |-> reasons # {}, reasons |-> reasons, start |-> from, end |-> to]
WindowHit(rs, reasons) == IF reasons = {} THEN NoHit ELSE Hit(reasons, Min(Times(rs)), Max(Times(rs)))

\* The change from first to last is at least pct percent; from zero it is none or 100.
RoseBy(first, last, pct) ==
  IF first = 0 THEN (IF last = 0 THEN 0 ELSE 100) >= pct
  ELSE (last - first) * 100 >= pct * AbsOf(first)
FellBy(first, last, pct) ==
  IF first = 0 THEN (IF last = 0 THEN 0 ELSE -100) >= pct
  ELSE (first - last) * 100 >= pct * AbsOf(first)

\* Only the first and the last value of the window count.
Changed(rs, a, By(_, _, _), pct, points, reason) ==
  IF Cardinality(With(rs, a)) >= points /\ By(FirstWith(rs, a)[a], LastWith(rs, a)[a], pct)
  THEN Hit({reason}, FirstWith(rs, a).t, LastWith(rs, a).t) ELSE NoHit

PressureDrop(rs, pct, points) == Changed(rs, "p", FellBy, pct, points, "pressure_drop")
FlowSurge(rs, pct, points)    == Changed(rs, "f", RoseBy, pct, points, "flow_surge")

CombinedOverlap(p, f) == Hit({"combined"}, Max({p.start, f.start}), Min({p.end, f.end}))  \* mutant
CombinedHit(p, f)     == Hit({"combined"}, Min({p.start, f.start}), Max({p.end, f.end}))
CombinedLeakPattern(rs, drop, surge, points) ==
  LET p == PressureDrop(rs, drop, points)
      f == FlowSurge(rs, surge, points)
  IN  IF p.triggered /\ f.triggered THEN CombinedHit(p, f) ELSE NoHit

LargestGap(rs) == Max({0} \union {rs[i + 1].t - rs[i].t : i \in 1..(Len(rs) - 1)})
Connectivity(rs, loss, signal, gap, points) ==
  IF Len(rs) < points THEN NoHit
  ELSE WindowHit(rs,
         {r \in {"packet_loss_high"}  : \E v \in Values(rs, "loss") : v >= loss} \union
         {r \in {"signal_low"}        : \E v \in Values(rs, "signal") : v <= signal} \union
         {r \in {"intermittent"}      : Len(rs) >= 2 /\ LargestGap(rs) >= gap})

\* latest is None for a sensor without a reading in reach.
MissingTelemetry(latest, prior, freshness, now) ==
  IF ~prior \/ (latest # None /\ now - latest < freshness) THEN NoHit
  ELSE Hit({"missing_telemetry"}, IF latest = None THEN now ELSE latest, now)

\* A run of equal values freezes by its length alone: its minutes only count where its
\* length already does.
Frozen(rs, a, minutes, points) ==
  LET many == Cardinality(With(rs, a)) >= points IN
  many /\ Cardinality(Values(rs, a)) = 1 /\ (LastWith(rs, a).t - FirstWith(rs, a).t >= minutes \/ many)

SensorQuality(rs, measures, ranges, minutes, frozen, ratio, points) ==
  IF Len(rs) < points THEN NoHit
  ELSE WindowHit(rs,
         {r \in {"out_of_range"} : \E a \in measures \intersect DOMAIN ranges :
                                     ~ Values(rs, a) \subseteq ranges[a]} \union
         {r \in {"frozen_value"} : \E a \in measures : Frozen(rs, a, minutes, frozen)} \union
         {r \in {"inconsistent"} : /\ {"p", "f"} \subseteq measures
                                   /\ With(rs, "p") # {} /\ With(rs, "f") # {} /\ LastWith(rs, "f").f > 0
                                   /\ LastWith(rs, "p").p > ratio * LastWith(rs, "f").f})

\* The enabled rules with their catalogue thresholds; points is the rule's minimum, which
\* the catalogue sets to three, four or (missing telemetry) one.
EvaluateRule(code, rs, latest, now, points) ==
  CASE code = "PRESSURE_DROP"            -> PressureDrop(rs, 8, points)
    [] code = "FLOW_SURGE"               -> FlowSurge(rs, 12, points)
    [] code = "COMBINED_LEAK_PATTERN"    -> CombinedLeakPattern(rs, 8, 12, points)
    [] code = "CONNECTIVITY_DEGRADATION" -> Connectivity(rs, 10, -100, 15, points)
    [] code = "MISSING_TELEMETRY"        -> MissingTelemetry(latest, rs # << >> \/ latest # None, 30, now)
    [] code = "SENSOR_QUALITY"           -> SensorQuality(rs, {"p", "f"}, [p |-> 50..1600, f |-> 0..120],
                                                          15, 5, 50, points)
    [] OTHER                             -> NoHit
RuleCodes == {"PRESSURE_DROP", "FLOW_SURGE", "COMBINED_LEAK_PATTERN", "CONNECTIVITY_DEGRADATION",
              "MISSING_TELEMETRY", "SENSOR_QUALITY"}

-----------------------------------------------------------------------------
(***************************************************************************)
(* Scores, in thousandths.                                                 *)
(***************************************************************************)
Magnitude(observed, threshold) ==
  IF threshold <= 0 THEN (IF observed > 0 THEN 1000 ELSE 0)
  ELSE Clamp(((observed - threshold) * 1000) \div threshold, 0, 1000)
Corroboration(n) == Clamp((n - 1) * 500, 0, 1000)
Criticality(c)   == IF c = None THEN 0 ELSE Clamp((c * 1000) \div 3, 0, 1000)
Quality(loss)    == IF loss = None THEN 0 ELSE Clamp(loss * 50, 0, 1000)
Health(h)        == IF h = None THEN 0 ELSE Clamp((100 - h) * 10, 0, 1000)

Score(x) ==
  Clamp((40 * Clamp(x.severity, 0, 1000) + 25 * Magnitude(x.observed, x.threshold)
         + 15 * Corroboration(x.metrics) + 10 * Criticality(x.criticality)
         + 5 * Quality(x.loss) + 5 * Health(x.health)) \div 100, 0, 1000)

PriorityForScore(s) == IF s >= 800 THEN 4 ELSE IF s >= 550 THEN 3 ELSE IF s >= 350 THEN 2 ELSE 1

-----------------------------------------------------------------------------
(***************************************************************************)
(* Properties of one input.                                                *)
(***************************************************************************)
\* i: a window of readings in the order of their times, the minute and a rule's minimum.
\* Whatever the rule says of the window lies in it, begins before it ends and is over.
Latest(rs) == IF rs = << >> THEN None ELSE rs[Len(rs)].t
HitWindowOrdered(i) ==
  \A code \in RuleCodes :
    LET h == EvaluateRule(code, i.readings, Latest(i.readings), i.now, i.points) IN
    h.triggered => /\ h.start <= h.end /\ h.end <= i.now
                   /\ code # "MISSING_TELEMETRY" => {h.start, h.end} \subseteq Times(i.readings)

\* i: two observations of which the second is nowhere better.
Worse(x, y) ==
  /\ \A a \in {"severity", "observed", "metrics"} : x[a] <= y[a]
  /\ x.threshold = y.threshold
  /\ \A a \in {"criticality", "loss"} : x[a] = None \/ (y[a] # None /\ x[a] <= y[a])
  /\ x.health = None \/ (y.health # None /\ y.health <= x.health)
WorseScoresHigher(i) ==
  Worse(i.x, i.y) => /\ Score(i.x) <= Score(i.y)
                     /\ PriorityForScore(Score(i.x)) <= PriorityForScore(Score(i.y))

-----------------------------------------------------------------------------
(* The inputs tried: windows as the engine reads them, pairs of observations. *)
CONSTANTS Windows, ScoredPairs

Readings == [t : Nat, p : Int, f : Int, loss : Int, signal : Int]
Chronological(rs, now) == \A j, k \in DOMAIN rs : j <= k => rs[j].t <= rs[k].t /\ rs[k].t <= now
Observed == [severity : Int, observed : Int, threshold : Int, metrics : Int, criticality : Int, loss : Int, health : Int]
ASSUME WindowsAssumption ==
  \A i \in Windows : i.readings \in Seq(Readings) /\ i.now \in Int /\ i.points \in Nat \ {0} /\ Chronological(i.readings, i.now)
ASSUME ScoredPairsAssumption == \A i \in ScoredPairs : i.x \in Observed /\ i.y \in Observed

TryRules  == Try("rules", Windows)
TryScores == Try("scores", ScoredPairs)
RulesSpec == Untried /\ [][TryRules \/ TryScores]_trial

\* What the engine makes of a window (app/detection): a hit's window is made of the readings'
\* times, in order and not after now (rules.py); a worse observation never scores lower
\* (scoring.py).
RulesSound == For("rules", HitWindowOrdered(input)) /\ For("scores", WorseScoresHigher(input))
=============================================================================
