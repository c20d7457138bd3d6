------------------------- MODULE TelemetrySimulator --------------------------
(***************************************************************************)
(* The development simulator, which writes readings as the ingest does     *)
(* (plateform/backend/app/scripts/simulate_telemetry.py,                   *)
(* services/telemetry_patterns.py).  base is what the generator gives a    *)
(* healthy sensor at some minute; frozen what it gives at the seed's full  *)
(* hour.  sim holds the sensor's status, the scenario, the cycles' count   *)
(* and spacing, and the bases they take in turn.                           *)
(***************************************************************************)
EXTENDS DetectionRules, Sequences, TLC

\* In hundredths; a single cycle has its full effect.
Progress(step, total) == IF total <= 1 THEN 100 ELSE (100 * step) \div (total - 1)

ScenarioReading(base, frozen, scenario, progress) ==
  LET drop == [base EXCEPT !.p = (@ * (10000 - 18 * progress)) \div 10000]
      Surge(x) == [x EXCEPT !.f = (@ * (10000 + 22 * progress)) \div 10000]
  IN CASE scenario = "pressure_drop"            -> drop
       [] scenario = "flow_surge"               -> Surge(base)
       [] scenario = "combined_leak_pattern"    -> Surge(drop)
       [] scenario = "connectivity_degradation" -> [base EXCEPT !.loss = 4 + (14 * progress) \div 100,
                                                                 !.signal = -82 - (24 * progress) \div 100]
       [] scenario = "frozen_sensor"            -> frozen
       [] OTHER                                 -> base

\* The cycles that write: none of missing telemetry, none of an offline sensor's normal run.
Writes(status, scenario) == scenario # "missing_telemetry" /\ ~(status = "offline" /\ scenario = "normal")
CycleAt(step, total, end, spacing) == end - spacing * (total - 1 - step)
Simulated(sim) ==
  IF ~Writes(sim.status, sim.scenario) THEN << >>
  ELSE [k \in 1..sim.count |->
          [t |-> CycleAt(k - 1, sim.count, sim.now, sim.spacing)]
            @@ ScenarioReading(sim.bases[1 + (k % Len(sim.bases))], sim.frozen, sim.scenario, Progress(k - 1, sim.count))]

-----------------------------------------------------------------------------
(***************************************************************************)
(* Property of one input.                                                  *)
(***************************************************************************)
\* i: a batch of the simulator, after a normal reading or none.  After five cycles the
\* engine tells the scenario by its own rule and a normal run by none; but silence (an
\* offline sensor's normal run is silence too) only where something was heard before, and
\* a frozen sensor only once no older reading is left.
RuleOf == [pressure_drop |-> {"PRESSURE_DROP"}, flow_surge |-> {"FLOW_SURGE"},
           combined_leak_pattern |-> {"PRESSURE_DROP", "FLOW_SURGE", "COMBINED_LEAK_PATTERN"},
           connectivity_degradation |-> {"CONNECTIVITY_DEGRADATION"}, frozen_sensor |-> {"SENSOR_QUALITY"},
           missing_telemetry |-> {"MISSING_TELEMETRY"}, normal |-> {}]
ScenarioTold(sim) ==
  LET before == [k \in DOMAIN sim.before |-> [t |-> sim.now - 5 * sim.spacing] @@ sim.before[k]]
      rs     == before \o Simulated(sim)
      hits   == {code \in RuleCodes : EvaluateRule(code, rs, Latest(rs), sim.now, 4).triggered}
      silent == ~Writes(sim.status, sim.scenario)
      hidden == IF silent THEN before = << >> ELSE sim.scenario = "frozen_sensor" /\ before # << >>
  IN sim.count = 5 => hits = IF hidden THEN {} ELSE RuleOf[IF silent THEN "missing_telemetry" ELSE sim.scenario]
==============================================================================
