------------------------------- MODULE Testbed -------------------------------
(***************************************************************************)
(* The water pipeline simulator (water-pipeline-testbed/simulator/app) as  *)
(* one cluster of it sees it, the investigation agent that learns from its *)
(* batches (agents/investigation_agent/aia/api.py, nodes/detection.py,     *)
(* nodes/risk.py), and the evaluation that runs both (eval/run_eval.py).   *)
(*                                                                         *)
(* Pressures and flows are in thousandths inside the simulator and, as it  *)
(* rounds them, in hundredths in a window's readings; effects are in       *)
(* tenths of a percent of the baseline.  The noise of a tick is an input,  *)
(* as are the forest's score and what the network is like without a fault. *)
(***************************************************************************)
EXTENDS NullValue, AgentVerdicts, Sequences, SequencesExt, TLC

Segments == ("042" :> [p |-> 45000, q |-> 80000, criticality |-> 3]) @@ ("043" :> [p |-> 42000, q |-> 60000, criticality |-> 2])
         @@ ("044" :> [p |-> 38000, q |-> 15000, criticality |-> 1]) @@ ("045" :> [p |-> 40000, q |-> 55000, criticality |-> 2])
         @@ ("046" :> [p |-> 37000, q |-> 20000, criticality |-> 1])
\* The agent's own topology knows three of them; of the others it takes the least.
KnownCriticality(cluster) == IF cluster \in {"042", "043", "044"} THEN Segments[cluster].criticality ELSE 1

-----------------------------------------------------------------------------
(***************************************************************************)
(* Faults.                                                                 *)
(***************************************************************************)
Plain == [pRate |-> 0, qRate |-> 0, pTarget |-> Null, qTarget |-> Null, sudden |-> FALSE, ramp |-> 5,
          mode |-> "none", drift |-> 0, reachable |-> Null, congestion |-> Null]
Rates(p, q, ramp)   == [Plain EXCEPT !.pRate = p, !.qRate = q, !.ramp = ramp]
Targets(p, q, ramp) == [Plain EXCEPT !.pTarget = p, !.qTarget = q, !.ramp = ramp]
Sudden(e)           == [e EXCEPT !.sudden = TRUE]
Network(e, reachable, congestion) == [e EXCEPT !.reachable = reachable, !.congestion = congestion]

FaultLibrary ==
  [leak |-> [small |-> Rates(-8, 12, 8), medium |-> Rates(-25, 40, 5), large |-> Sudden(Rates(-60, 90, 2))],
   pipe_rupture             |-> [default |-> Sudden(Rates(-150, 200, 1))],
   pressure_spike           |-> [default |-> Sudden(Targets(140, Null, 3))],
   pressure_drop            |-> [default |-> Rates(-15, 0, 10)],
   pump_failure             |-> [default |-> Sudden(Targets(10, 5, 2))],
   pump_degradation         |-> [default |-> Rates(-6, -6, 20)],
   valve_stuck_open         |-> [default |-> Targets(70, 160, 4)],
   valve_stuck_closed       |-> [default |-> Targets(180, 5, 4)],
   sensor_failure           |-> [default |-> Network(Sudden([Plain EXCEPT !.mode = "flatline"]), FALSE, "LOW")],
   sensor_drift             |-> [default |-> [Plain EXCEPT !.mode = "drift", !.drift = 4]],
   sensor_comm_loss         |-> [default |-> Network(Sudden([Plain EXCEPT !.mode = "freeze"]), FALSE, Null)],
   high_flow                |-> [default |-> Rates(0, 30, 6)],
   low_flow                 |-> [default |-> Rates(0, -30, 6)],
   network_loss             |-> [default |-> Network(Plain, FALSE, "LOW")],
   thermal_cell_degradation |-> [default |-> Network([Plain EXCEPT !.mode = "drift", !.drift = 20], FALSE, "HIGH")]]

\* An unknown magnitude is the default, where the fault has one.
Key(type, magnitude) == IF magnitude \in DOMAIN FaultLibrary[type] THEN magnitude ELSE "default"
Buildable(type, magnitude) == type \in DOMAIN FaultLibrary /\ Key(type, magnitude) \in DOMAIN FaultLibrary[type]
BuildFault(type, magnitude) == [type |-> type, effect |-> FaultLibrary[type][Key(type, magnitude)], ticks |-> 0]

-----------------------------------------------------------------------------
(***************************************************************************)
(* The cluster and its tick.                                               *)
(***************************************************************************)
Cluster(id) ==
  [id |-> id, p |-> Segments[id].p, q |-> Segments[id].q, frozen |-> Null, pOff |-> 0, qOff |-> 0,
   window |-> << >>, fault |-> Null, outage |-> FALSE, temp |-> "normal"]

Revert(v, baseline, strength, jitter) == v + ((baseline - v) * strength) \div 100 + jitter
RampFactor(e, ticks) == IF e.sudden THEN 100 ELSE Min({100, (100 * ticks) \div Max({1, e.ramp})})
Toward(v, baseline, target, ramp) ==
  IF target = Null THEN v
  ELSE v + (((baseline * target) \div 100 - v) * Min({100, (30 * ramp) \div 100 + 5})) \div 100
Pushed(v, baseline, rate, target, ramp) ==
  Max({0, Toward(v + (((baseline * rate) \div 1000) * ramp) \div 100, baseline, target, ramp)})

\* The physical state under noise and fault.
Noisy(c, b, jitter) == [c EXCEPT !.p = Revert(@, b.p, 15, jitter), !.q = Revert(@, b.q, 18, 2 * jitter)]
Faulty(c, b, e, ramp) ==
  [c EXCEPT !.p = Pushed(@, b.p, e.pRate, e.pTarget, ramp), !.q = Pushed(@, b.q, e.qRate, e.qTarget, ramp),
            !.fault.ticks = @ + 1]
Physics(c, jitter) ==
  LET b == Segments[c.id] IN
  IF c.fault = Null THEN Noisy(c, b, jitter)
  ELSE Faulty(Noisy(c, b, jitter), b, c.fault.effect, RampFactor(c.fault.effect, c.fault.ticks + 1))

\* What the sensor makes of it: a frozen one keeps the first reading after the fault came.
Sensed(c) ==
  LET mode == IF c.fault = Null THEN "none" ELSE c.fault.effect.mode
      Drift(x, part) == (x * c.fault.effect.drift * part) \div 10000
  IN CASE mode = "freeze" /\ c.frozen = Null -> [c EXCEPT !.frozen = <<c.p, c.q>>]
       [] mode = "drift" -> [c EXCEPT !.pOff = @ + Drift(Segments[c.id].p, 10), !.qOff = @ + Drift(Segments[c.id].q, 3)]
       [] OTHER -> c
Shown(c) ==
  LET mode == IF c.fault = Null THEN "none" ELSE c.fault.effect.mode IN
  CASE mode = "flatline" -> <<0, 0>>
    [] mode = "freeze"   -> c.frozen
    [] mode = "drift"    -> <<c.p - c.pOff, c.q + c.qOff>>
    [] OTHER             -> <<c.p, c.q>>

\* A window is the last ten readings.
Kept(window) == SubSeq(window, Max({1, Len(window) - 9}), Len(window))
Recorded(c, shown) ==
  [c EXCEPT !.window = Kept(Append(@, [p |-> (shown[1] + 5) \div 10, q |-> (shown[2] + 5) \div 10, hot |-> c.temp = "extreme"]))]
Read(c) == Recorded(c, Shown(c))
Tick(c, jitter) == Read(Sensed(Physics(c, jitter)))

\* A fault is refused while one is active; clearing it leaves the water where it is.
Inject(c, type, magnitude) ==
  IF c.fault # Null \/ ~Buildable(type, magnitude) THEN c ELSE [c EXCEPT !.fault = BuildFault(type, magnitude)]
ClearFault(c) == [c EXCEPT !.fault = Null, !.frozen = Null, !.pOff = 0, !.qOff = 0]
Reset(c)      == Cluster(c.id)

SensorStatus(c) == LET mode == IF c.fault = Null THEN "none" ELSE c.fault.effect.mode IN
  CASE mode = "flatline" -> "fault" [] mode = "freeze" -> "stale" [] OTHER -> "operational"

\* The states the simulated network may be in: heat decides, then what the fault overrides.
BaseNetwork(temp) == CASE temp = "extreme" -> [reachable : BOOLEAN, congestion : {"HIGH", "MEDIUM"}]
                       [] temp = "high"    -> [reachable : {TRUE}, congestion : {"MEDIUM", "LOW"}]
                       [] OTHER            -> [reachable : {TRUE}, congestion : {"LOW"}]
Overridden(n, e) == [reachable |-> IF e.reachable # Null THEN e.reachable ELSE n.reachable,
                     congestion |-> IF e.congestion # Null THEN e.congestion ELSE n.congestion]
NetworkStates(c) == IF c.fault = Null THEN BaseNetwork(c.temp)
                    ELSE {Overridden(n, c.fault.effect) : n \in BaseNetwork(c.temp)}

-----------------------------------------------------------------------------
(***************************************************************************)
(* The agent: a window's features, the baseline it learns, its verdict.    *)
(***************************************************************************)
RECURSIVE Newton(_, _)
Newton(v, s) == IF s * s <= v THEN s ELSE Newton(v, (s + v \div s) \div 2)
Root(v) == IF v = 0 THEN 0 ELSE Newton(v, 10000)

TotalOf(y) == FoldFunction(LAMBDA a, b : a + b, 0, y)
MeanOf(y) == TotalOf(y) \div Len(y)
\* The standard deviation, over the number of values - less.
Spread(y, mu, less) == Root(TotalOf([k \in DOMAIN y |-> (y[k] - mu) * (y[k] - mu)]) \div (Len(y) - less))
Deviation(y, less) == IF Len(y) = 1 THEN 0 ELSE Spread(y, MeanOf(y), less)
Ps(w) == [k \in DOMAIN w |-> w[k].p]
Qs(w) == [k \in DOMAIN w |-> w[k].q]

Learnt(w) == [p |-> MeanOf(Ps(w)), q |-> MeanOf(Qs(w)),
              pDev |-> IF Len(w) = 1 THEN 100 ELSE Max({50, Deviation(Ps(w), 1)}),
              qDev |-> IF Len(w) = 1 THEN 100 ELSE Max({50, Deviation(Qs(w), 1)})]
Features(w, baseline, forest) ==
  [z |-> {((MeanOf(Ps(w)) - baseline.p) * 100) \div Max({10, baseline.pDev}),
          ((MeanOf(Qs(w)) - baseline.q) * 100) \div Max({10, baseline.qDev})},
   dp |-> Last(w).p - w[1].p, dq |-> Last(w).q - w[1].q,
   ps |-> IF Len(w) < 2 THEN 50 ELSE Deviation(Ps(w), 0), qs |-> IF Len(w) < 2 THEN 50 ELSE Deviation(Qs(w), 0),
   forest |-> forest, model |-> TRUE]

\* The slope and the share it explains, of the n times with themselves, Sxy and Syy.
Fitted(n, Sxy, Syy) ==
  LET Sxx == (n * (n * n - 1)) \div 12
  IN [slope |-> (60 * Sxy) \div (n * (n * n - 1)),
      fit |-> IF Syy = 0 THEN 100 ELSE Min({100, (Sxy * Sxy) \div Max({1, (4 * Sxx * Syy) \div 100})})]
\* The trend of the pressures over the readings, one minute apart; in tenths inside.
Trend(w) ==
  LET n    == Len(w)
      y    == [k \in 1..n |-> w[k].p \div 10]
      mean == MeanOf(y)
  IN Fitted(n, TotalOf([k \in 1..n |-> (2 * k - n - 1) * y[k]]), TotalOf([k \in 1..n |-> (y[k] - mean) * (y[k] - mean)]))
Deviations(w, cluster, trend) ==
  [n |-> Len(w), zone |-> "other", criticality |-> KnownCriticality(cluster),
   drop |-> IF w[1].p = 0 THEN 0 ELSE ((w[1].p - Last(w).p) * 100) \div w[1].p,
   surge |-> IF w[1].q = 0 THEN 0 ELSE ((Last(w).q - w[1].q) * 100) \div w[1].q,
   slope |-> trend.slope, fit |-> trend.fit]
Deviated(w, cluster) == Deviations(w, cluster, IF Len(w) < 2 THEN [slope |-> 0, fit |-> 100] ELSE Trend(w))

\* What the client of the simulated network finds (the platform's outage raises).  The
\* service that wraps the agent for the testbed (aia_service) is not in the repository: its
\* client is the simulator's /network_status, its latest result what run_eval.py asks for.
Answers(c) == {[reply |-> IF c.outage THEN "raises" ELSE IF n.reachable THEN "reachable" ELSE "unreachable",
                insights |-> IF c.outage THEN "client_raises" ELSE n.congestion, profile |-> "LOW",
                hot |-> Last(c.window).hot, crashes |-> FALSE] : n \in NetworkStates(c)}

\* The world: the cluster, the number of ticks, whether it runs, the agent's baseline
\* (Null before its first batch), whether it listens, whether an anomaly is active with the
\* normal batches since, and its latest results with the tick of the batch they are of.
World(cluster) == [c |-> Cluster(cluster), ticks |-> 0, running |-> TRUE, listens |-> FALSE,
                   baseline |-> Null, suspected |-> FALSE, active |-> FALSE, normals |-> 0,
                   results |-> {}, at |-> -1]

Tracked(w, results) ==
  [w EXCEPT !.suspected = TRUE, !.at = w.ticks, !.results = results, !.normals = 0,
            !.active = \E g \in results : Published(g)]
\* A published anomaly silences its cluster until three normal batches (the tracker's ten
\* minutes are longer than any schedule below).
Concluded(w, suspect) ==
  CASE ~suspect -> [w EXCEPT !.suspected = FALSE, !.active = @ /\ w.normals < 2,
                             !.normals = IF w.active THEN (@ + 1) % 3 ELSE 0]
    [] suspect /\ w.active  -> [w EXCEPT !.suspected = TRUE]
    [] suspect /\ ~w.active -> Tracked(w, {Graph(a, Deviated(w.c.window, w.c.id), "raises") : a \in Answers(w.c)})
\* The first batch of a cluster is the baseline, whatever it shows.
ObserveRelearning(w, forest) ==       \* mutant: every batch is learnt from
  Concluded([w EXCEPT !.baseline = Learnt(w.c.window)], Suspected(Features(w.c.window, Learnt(w.c.window), forest)))
Judged(w, forest) == Concluded(w, Suspected(Features(w.c.window, w.baseline, forest)))
Observe(w, forest) ==
  Judged([w EXCEPT !.baseline = IF @ = Null THEN Learnt(w.c.window) ELSE @], forest)

\* Every second tick sends a batch, unless the window is a single reading; nobody keeps
\* it for an agent that does not listen.
Sent(w, forest) == IF w.ticks % 2 = 0 /\ w.listens /\ Len(w.c.window) >= 2 THEN Observe(w, forest) ELSE w
RunTick(w, i) ==
  IF ~w.running THEN w
  ELSE Sent([w EXCEPT !.c = Tick(@, IF w.ticks % 2 = 0 THEN i.jitter ELSE -i.jitter), !.ticks = @ + 1], i.forest)

Step(w, op, i) ==
  CASE op.op = "tick"   -> RunTick(w, i)
    [] op.op = "inject" -> [w EXCEPT !.c = Inject(@, op.type, op.magnitude)]
    [] op.op = "clear"  -> [w EXCEPT !.c = ClearFault(@)]
    [] op.op = "reset"  -> [w EXCEPT !.c = Reset(@)]
    [] op.op = "outage" -> [w EXCEPT !.c.outage = op.on]
    [] op.op = "temp"   -> [w EXCEPT !.c.temp = op.to]
    [] op.op = "run"    -> [w EXCEPT !.running = op.on]
    [] op.op = "listen" -> [w EXCEPT !.listens = TRUE]
\* (The choice from one world makes TLC evaluate it before the next step.)
RECURSIVE After(_, _, _)
After(w, ops, i) ==
  IF ops = << >> THEN w ELSE CHOOSE y \in {After(x, Tail(ops), i) : x \in {Step(w, Head(ops), i)}} : TRUE
Ticks(n) == [k \in 1..n |-> [op |-> "tick"]]
Do(op) == <<[op |-> op]>>
InjectOp(type, magnitude) == <<[op |-> "inject", type |-> type, magnitude |-> magnitude]>>

-----------------------------------------------------------------------------
(***************************************************************************)
(* The evaluation: the scenarios of eval/scenarios.yaml, two seconds a     *)
(* tick, each after a reset; the latest result is read, of whatever time.   *)
(***************************************************************************)
Scenario(cluster, type, magnitude, wait, class, tiers) ==
  [cluster |-> cluster, type |-> type, magnitude |-> magnitude, wait |-> wait, class |-> class, tiers |-> tiers,
   temp |-> IF type = "thermal_cell_degradation" THEN "extreme" ELSE "normal", outage |-> class = "insufficient_data"]
Scenarios ==
  <<Scenario("045", "thermal_cell_degradation", "default", 5, "likely_connectivity_artifact", {1}),
    Scenario("042", "leak", "large", 6, "confirmed_anomaly", {2, 3}),
    Scenario("044", "sensor_failure", "default", 5, "confirmed_instrument_fault", {1}),
    Scenario("043", "leak", "large", 5, "insufficient_data", {2}),
    Scenario("043", "pump_degradation", "default", 20, "confirmed_anomaly", {1, 2}),
    Scenario("045", "valve_stuck_open", "default", 6, "confirmed_anomaly", {1, 2}),
    Scenario("046", "pressure_spike", "default", 5, "confirmed_anomaly", {1, 2}),
    Scenario("046", "sensor_drift", "default", 15, "confirmed_anomaly", {1, 2})>>

RunScenario(w, s, i) ==
  After(w, Do("reset") \o Ticks(1) \o <<[op |-> "temp", to |-> s.temp], [op |-> "outage", on |-> s.outage]>>
           \o InjectOp(s.type, s.magnitude) \o Ticks(s.wait), i)
CleanUp(w, i) == After(w, Do("clear") \o <<[op |-> "outage", on |-> FALSE], [op |-> "temp", to |-> "normal"]>> \o Ticks(1), i)
Passed(w, s)  == w.results # {} /\ \A g \in w.results : g.verdict.class = s.class /\ g.tier \in s.tiers
OwnResult(w, s) == w.at > w.ticks - s.wait

-----------------------------------------------------------------------------
(***************************************************************************)
(* Properties of one input.                                                *)
(***************************************************************************)
\* i: a cluster, the noise, the forest and the healthy ticks the agent has learnt from.
\* "The agent's behavior can be validated against ground truth" (run_eval.py): of the
\* scenarios of a cluster each gets the expected verdict, except the large leak near the
\* reservoir, whose first suspected window is too short for more than tier one and silences
\* the later ones, and the degrading pump, which raises no suspicion in the time it is
\* given.  Where batches fall on even ticks each result is the scenario's own, but the
\* pump's, and the drifting sensor's may be the one of the spike before.
OutcomesTold(i) ==
  LET mine == SelectSeq(Scenarios, LAMBDA s : s.cluster = i.cluster)
      start == After(World(i.cluster), Do("listen") \o Ticks(i.warm), i)
      Before(k) == FoldLeft(LAMBDA w, s : CleanUp(RunScenario(w, s, i), i), start, SubSeq(mine, 1, k - 1))
  IN start.results = {} /\ \A k \in DOMAIN mine :
       LET s == mine[k]
           w == RunScenario(Before(k), s, i)
       IN /\ i.warm % 2 = 0 =>
               (OwnResult(w, s) <=> s.type # "pump_degradation" /\ (s.type = "sensor_drift" => i.forest >= 75))
          /\ Passed(w, s) <=> s.type # "pump_degradation" /\ s.cluster # "042"
          /\ s.type = "pump_degradation" => ~OwnResult(w, s)

\* i: a fault, and whether the agent joins before it or in the middle.  With a baseline of
\* health, readings that all lie two units off are suspected, and long after the fault
\* nothing is; an agent that joined in the middle is the other way round, wherever what it
\* learnt from is that far from health.
Schedule(i) ==
  LET listen == Do("listen") IN
  (IF i.joins THEN listen ELSE << >>) \o Ticks(12) \o InjectOp(i.type, i.magnitude) \o Ticks(i.held)
    \o listen \o Ticks(i.held) \o (IF i.cleared THEN Do("clear") \o Ticks(44) ELSE << >>)
Off(w, level) == \/ \A x \in ToSet(w.c.window) : x.p - level.p >= 200 \/ level.p - x.p >= 200
                 \/ \A x \in ToSet(w.c.window) : x.q - level.q >= 200 \/ level.q - x.q >= 200
BaselineIsFirst(i) ==
  LET w == After(World(i.cluster), Schedule(i), i)
      health == [p |-> Segments[i.cluster].p \div 10, q |-> Segments[i.cluster].q \div 10]
  IN /\ i.joins /\ Off(w, health) /\ ~i.cleared => w.suspected
     /\ i.joins /\ i.cleared => ~w.suspected
     /\ i.cleared /\ w.suspected => ~i.joins

\* i: a fault, cleared before the sensor's radio fails.  A second fault is refused while the
\* first is active; the frozen sensor then tells one reading, the first after the failure,
\* while the water goes back to its level, and its log says so.
FrozenWhileWaterMoves(i) ==
  LET busy == After(World(i.cluster), Ticks(3) \o InjectOp(i.type, i.magnitude) \o Ticks(i.held), i)
      w == After(busy, Do("clear") \o InjectOp("sensor_comm_loss", "default") \o Ticks(10), i)
  IN /\ After(busy, InjectOp("sensor_comm_loss", "default"), i) = busy
     /\ Cardinality(ToSet(w.c.window)) = 1 /\ SensorStatus(w.c) = "stale"
     /\ After(w, Do("clear") \o Ticks(1), i).c.frozen = Null
=============================================================================
