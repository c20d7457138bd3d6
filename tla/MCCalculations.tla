---------------------------- MODULE MCCalculations ----------------------------
(***************************************************************************)
(* The calculations, each over its own bounded set of inputs: a state      *)
(* holds the calculation's name and one input.                             *)
(***************************************************************************)
EXTENDS DetectionRules, AgentVerdicts, NetworkViews, Analytics, AgentContracts, Redaction, OperationsViews, Seeds, RequestBatch, TelemetryViews, TelemetrySimulator, Testbed

-----------------------------------------------------------------------------
Reading(t, p, f, l, s) == [t |-> t, p |-> p, f |-> f, loss |-> l, signal |-> s]
Points == {<<50, 8>>, <<100, 10>>, <<None, None>>, <<1700, 0>>, <<100, 20>>}
Windows3 == {[readings |-> <<Reading(a, x[1], x[2], 0, -90), Reading(b, y[1], y[2], l, s), Reading(c, z[1], z[2], 12, None)>>,
              now |-> 60, points |-> 2] :
               a \in {0}, b \in {5, 20}, c \in {40}, x \in Points, y \in Points, z \in Points, l \in {0, 12}, s \in {-110, -80}}
\* Pressure and flow that never arrive together: their two hits share no reading.
Disjoint == [readings |-> <<Reading(0, 100, None, 0, -90), Reading(5, 80, None, 0, -90),
                            Reading(20, None, 10, 0, -90), Reading(25, None, 20, 0, -90)>>, now |-> 60, points |-> 2]
MCWindows == Windows3 \union {Disjoint, [readings |-> << >>, now |-> 60, points |-> 1]}

ScoreInputs == [severity : {0, 500, 1000}, observed : {0, 10, 30}, threshold : {0, 10}, metrics : {1, 3},
                criticality : {None, 2}, loss : {None, 15}, health : {None, 20, 90}]
MCScoredPairs == {[x |-> x, y |-> y] : x \in ScoreInputs, y \in {[severity |-> 1000, observed |-> 30,
                 threshold |-> 10, metrics |-> 3, criticality |-> c, loss |-> 15, health |-> h] : c \in {2, 3}, h \in {20, None}}
                 \union {[severity |-> 500, observed |-> 10, threshold |-> 10, metrics |-> 3, criticality |-> 2,
                          loss |-> None, health |-> h] : h \in {90, 20}}}

-----------------------------------------------------------------------------
MCDetectorWindows == [z : {{}, {0}, {349, -200}, {-350, 10}}, dp : {-300, -250, -200, -180, -100, 0},
                      dq : {0, 140, 150}, ps : {50, 110, 130, 190}, qs : {50, 200}, forest : {1, 74, 75, 95},
                      model : BOOLEAN]
MCAnswered == [reply : Replies, insights : Insights, profile : {"LOW", "HIGH"}, hot : BOOLEAN, crashes : BOOLEAN]
Observations == [n : {4, 10}, drop : {0, 10, 14, 15, 35, 60}, surge : {0, 10, 25}, slope : {-210, -150, -60, 0},
                 fit : {40, 50, 60}, zone : {"neom-south", "other"}, criticality : {1, 2}]
MCObservationPairs ==
  {[x |-> x, y |-> y] : x \in Observations,
                        y \in {[n |-> 10, drop |-> d, surge |-> 10, slope |-> -150, fit |-> 60, zone |-> z, criticality |-> 2] :
                                 d \in {15, 36, 60}, z \in {"neom-south", "other"}}
                              \union {[n |-> 10, drop |-> 35, surge |-> 0, slope |-> 0, fit |-> 40, zone |-> "other", criticality |-> 2]}}

-----------------------------------------------------------------------------
Coordinates == {Null, Nan, Text, -200, -91, 0, 80}
MCNetworkAnswers == [subscription : BOOLEAN, reachable : {"true", "false", "maybe", Null},
                              via : {<< >>, <<"sms", "data">>, <<"lte">>, <<Unfit, "sms">>, <<Unfit, "lte">>}, lat : Coordinates, lon : Coordinates,
                              radius : {Null, Nan, -5, 400}, area : {Null, "POLYGON", Unfit}]
MCCalls == UNION {[replies : [1..(r + 1) -> {"ok", "timeout", "no_connection", "malformed", "4xx", "5xx"}],
                               retries : {r}] : r \in 0..2}
Device == {[number |-> n, type |-> t, zone |-> "z1", snapshot |-> s] :
             n \in {Null, "x"}, t \in {"sensor", "gateway"},
             s \in {Null} \union {[status |-> st, located |-> st = "reachable", source |-> "nokia_live", age |-> a] :
                                    st \in {"reachable", "unreachable", "unknown", "not_supported", "not_checked"}, a \in {60, 1801}}}
DeviceFilters == {<< >>, [zone |-> "z1", type |-> "sensor"], [reachability |-> "unknown_or_not_checked"],
                  [located |-> TRUE, source |-> "nokia_live"], [cellular |-> FALSE, reachability |-> "not_supported"]}
MCDeviceLists == {[devices |-> <<a, b>>, filters |-> f] : a \in Device, b \in Device, f \in DeviceFilters}
HealthReplies == {"ok", "bad", "no_json", "404", "error", "timeout", "no_connection", "raises"}
MCProbes == [spec : [configured : BOOLEAN, claims : BOOLEAN, expected : {"1.0"}], health : HealthReplies,
             contract : HealthReplies \union {"1.0", "2.0"}]
MCLookups == [settings : [enabled : BOOLEAN, mode : {"mock", "live", "simulator", "disabled"}, credentials : BOOLEAN],
                                number : {Null, "sandbox", "+971", "+974"}, mapping : {[x \in {"+971"} |-> "sandbox_1003"]}]
\* Calls of one length or another that overlap or follow, by the order of their writes.
CacheCalls == {[began |-> b, ended |-> b + d, refresh |-> r,
                probed |-> [a \in {"investigation", "response", "network"} |-> [health |-> h, at |-> IF a = "network" THEN b + d ELSE b]]] :
                 b \in {0, 1, 2, 4}, d \in {0, 1, 3}, r \in BOOLEAN, h \in {"healthy"}}
AfterWrites(calls, seconds) ==
  FoldLeft(LAMBDA u, c :
             LET call == c @@ [seen |-> Cardinality({k \in DOMAIN u.calls : u.calls[k].ended <= c.began})]
                 n    == Len(u.calls)
             IN  [u EXCEPT !.calls = Append(@, call),
                           !.caches = (n + 1) :> Written(u.caches[n], PendingProbes(u.caches[call.seen], call), call, seconds) @@ @],
           [seconds |-> seconds, calls |-> << >>, caches |-> 0 :> << >>], calls)
MCCacheUses == {AfterWrites(cs, s) : s \in {0, 1, 3},
                  cs \in {x \in UNION {[1..n -> CacheCalls] : n \in 1..3} :
                            \A k \in 1..(Len(x) - 1) : x[k].ended <= x[k + 1].ended}}

-----------------------------------------------------------------------------
AnalyticsSensors == {[id |-> "s1", zone |-> "z1", offline |-> FALSE], [id |-> "s2", zone |-> "z2", offline |-> TRUE]}
Detection(id, s, at, st) == [id |-> id, sensor |-> s, at |-> at, status |-> st, priority |-> st, rule |-> "r"]
IncidentRow(id, z, s, at, re) == [id |-> id, zone |-> z, sensor |-> s, detected |-> at, answered |-> Null, resolved |-> re,
                                  status |-> IF re = Null THEN "investigating" ELSE "resolved", code |-> Null, tier |-> 1]
Databases(now) ==
  {[zones |-> {[id |-> "z1"], [id |-> "z2"]}, sensors |-> AnalyticsSensors, readings |-> {[sensor |-> "s1", at |-> now - 5, kpa |-> 300]},
    detections |-> {Detection(1, s, a, "new"), Detection(2, "s1", b, "promoted"), Detection(3, "s2", c, "dismissed")},
    incidents |-> {IncidentRow(1, "z1", Null, a, Null), IncidentRow(2, z, "s1", b, c)},
    tasks |-> {[id |-> 1, incident |-> 1, open |-> TRUE, completed |-> Null, due |-> now - 10]},
    assets |-> {}] :
     a \in {now - 2880, now - 1441, now - 1440, now - 1435}, b \in {now - 1440, now - 1425, now - 30},
     c \in {now - 1440, now}, s \in {"s1", "s2"}, z \in {"z1", "z2"}}
\* The demonstration's clock stands at a quarter to eight.
MCReports == {[db |-> db, now |-> 5 * 1440 + 465, range |-> 1440, interval |-> n, filter |-> f] :
                db \in Databases(5 * 1440 + 465), n \in {15, 30, 60},
                f \in {<< >>, [zone |-> "z1"], [zone |-> "z2", sensor |-> "s1"]}}

-----------------------------------------------------------------------------
Bodies == [version : {"absent", "null", "1.0", "2.0"}, batch : BOOLEAN, threats : BOOLEAN, valid : BOOLEAN]
NoObject == [version |-> "no_object", batch |-> FALSE, threats |-> FALSE, valid |-> FALSE]
Fixtures == {[status |-> "200", body |-> b] : b \in Bodies}
            \union {[status |-> s, body |-> NoObject] : s \in {"200", "4xx", "5xx", "timeout"}}
MCContractChecks == [agent : {"investigation", "response"}, configured : {TRUE}, health : {[status |-> s] : s \in {"200", "5xx", "timeout"}},
                                contract : [status : {"200", "4xx"}, version : {"absent", "1.0", "2.0", "no_object"}], fixture : Fixtures]
AgentSettings == [integration : {TRUE}, agent : BOOLEAN, mode : {"mock", "remote"}, url : {TRUE}]
AgentRequests == [settings : AgentSettings, checks : BOOLEAN, reply : {[status |-> s] : s \in {"200", "5xx", "timeout"}}]
MCAgentHistories ==
  {[requests |-> r, rows |-> [n \in 0..Len(r) |-> FoldLeft(AfterRequest, NewRow, SubSeq(r, 1, n))]] :
     r \in UNION {[1..n -> AgentRequests] : n \in 1..3}}
MCRunLists == {[rows |-> {[id |-> i, at |-> i, mode |-> m[i]] : i \in 1..3}, limit |-> n] :
                            m \in [1..3 -> {"simulated", "mock_agent_data"}], n \in 1..3}
Leaf == [kind |-> "leaf"]
Nested1 == {Leaf} \union [kind : {"dict"}, of : [{"note", "token"} -> {Leaf}]] \union {[kind |-> "list", of |-> <<Leaf, Leaf>>]}
Nested2 == Nested1 \union [kind : {"dict"}, of : [{"note", "token"} -> Nested1]] \union [kind : {"list"}, of : [1..2 -> Nested1]]
TryRedact == Try("redact", {[value |-> v, secret |-> {"token"}] :
                              v \in Nested2 \union [kind : {"list"}, of : [1..1 -> Nested2]]})
Findings == [cluster : {"c1", "c2"}, tier : {3}, confidence : {0, 100}]
MCRawBatches == {[threats |-> t, total |-> n] : t \in UNION {[1..k -> Findings] : k \in 0..2}, n \in {Null, 2}}
MCAuditEntries == {e \in [decision : {"LOG_ONLY", "ALERT_AND_AWAIT", "AUTONOMOUS_ISOLATE", "ESCALATE_UNREACHABLE"}, sent : BOOLEAN,
                   confirmed : BOOLEAN, tier : 1..3, grant : {Null, "g"}, denied : {Null, "d"}] :
              /\ e.sent <=> e.decision = "AUTONOMOUS_ISOLATE"
              /\ e.confirmed => e.sent}

-----------------------------------------------------------------------------
Asset(id, type, at, due, segment) == [id |-> id, type |-> type, status |-> "online", zone |-> "z1", segment |-> segment, at |-> at,
                                      due |-> due, number |-> 12, seen |-> Null]
Incident(id, tier, st, at) == [id |-> <<"n1", "n2", "n3">>[id], zone |-> "z1", segment |-> "p1", sensor |-> "s1", valve |-> "v1", tier |-> tier, status |-> st,
                               detected |-> id, resolved |-> IF st = "resolved" THEN 50 ELSE Null, started |-> Null, loss |-> 10, at |-> at]
Anomaly(id, rule, st, start, end) == [id |-> id, sensor |-> "s1", rule |-> rule, status |-> st, priority |-> "high", score |-> id,
                                      start |-> start, end |-> end, detected |-> end]
Base == [zones |-> {[id |-> "z1", drawn |-> TRUE]}, segments |-> {[id |-> "p1", zone |-> "z1", at |-> 20], [id |-> "p2", zone |-> "z2", at |-> Null]},
         assets |-> {Asset("s1", "sensor", 0, Null, "p1")}, incidents |-> {}, detections |-> {}, findings |-> {},
         readings |-> {[sensor |-> "s1", at |-> 50, kpa |-> 300]}, sensors |-> {}]
IncidentStatuses == {"investigating", "awaiting_approval", "resolved"}
DetectionStatuses == {"new", "queued", "under_review", "dismissed"}
ViewDatabases ==
  {[Base EXCEPT !.incidents = {Incident(1, t, a, 10), Incident(2, u, b, 30), Incident(3, 3, c, 0)}] :
     t \in 2..3, u \in 2..3, a \in IncidentStatuses, b \in IncidentStatuses, c \in IncidentStatuses}
  \union {[Base EXCEPT !.assets = {Asset("s1", "sensor", x, d, "p1"), Asset("v1", "valve", 40, e, p)}] :
            x \in {Null, 0, 30}, d \in {Null, 59, 60, 61, 60 + Month}, e \in {60, 61 + Month}, p \in {Null, "p1", "p2"}}
  \union {[Base EXCEPT !.detections = {Anomaly(1, "r1", a, 10, 30), Anomaly(2, "r2", b, s, 40), Anomaly(3, r, "new", 5, e)},
                       !.findings = {[detection |-> f, stored |-> 1]}] :
            a \in DetectionStatuses, b \in DetectionStatuses, s \in {20, 31}, e \in {9, 10}, r \in {"r1", "r2"}, f \in 1..3}
\* The reports' clock before the third incident and every end, and after all.
MCPages == {[db |-> db, now |-> 60, clock |-> c, resolved |-> r, origin |-> o, radius |-> 30] :
              db \in ViewDatabases, c \in {2, 60}, r \in BOOLEAN, o \in {0, 25}}

-----------------------------------------------------------------------------
Nothing == [runs |-> {}, findings |-> {}, advice |-> {}, log |-> {}, mappings |-> {}]
EmptyDb == [error |-> "none", assets |-> << >>, incidents |-> << >>, events |-> {}, tasks |-> << >>, plans |-> << >>,
            orders |-> << >>, history |-> {}, readings |-> {}, agents |-> << >>, results |-> Nothing, review |-> "new",
            snapshots |-> {}]
Seeded == SeedDatabase(EmptyDb)
\* What operators may have done since: numbers, work on incidents and tasks, work on orders, readings.
Numbers(db, k) == CASE k = 1 -> db
  [] k = 2 -> [db EXCEPT !.assets["HBR-GW-02"].number = "own", !.assets["HBR-GW-02"].demo = FALSE,
                         !.assets["SNS-HBR-008"].number = "own", !.assets["SNS-AIN-220"].status = "online"]
  [] k = 3 -> [db EXCEPT !.assets["HBR-GW-02"].number = Null]
Promoted == "INC-1843" :> [status |-> "investigating", acked |-> -1, started |-> -1, resolved |-> FALSE, code |-> Null]
Worked(db, k) == CASE k = 1 -> db
  [] k = 2 -> [db EXCEPT !.incidents["INC-1842"].status = "resolved", !.incidents["INC-1842"].resolved = TRUE,
                         !.incidents["INC-1842"].code = "repaired", !.tasks["TASK-000001"].status = "completed",
                         !.tasks["TASK-000001"].done = 0, !.incidents["INC-1836"].acked = -2]
  [] k = 3 -> [db EXCEPT !.incidents = Put(@, Promoted),
                         !.tasks = Put(@, "TASK-000004" :> [incident |-> "INC-1843", status |-> "todo", started |-> Null, done |-> Null]),
                         !.events = @ \union {[incident |-> "INC-1843", id |-> "op-1", task |-> "TASK-000004"],
                                              [incident |-> "INC-1842", id |-> "op-2", task |-> "TASK-000003"]}]
Maintained(db, k) == CASE k = 1 -> db
  [] k = 2 -> [db EXCEPT !.orders[1] = [@ EXCEPT !.status = "completed", !.assigned = TRUE, !.started = TRUE, !.completed = TRUE],
                         !.orders[3] = [@ EXCEPT !.status = "cancelled", !.cancelled = TRUE], !.plans[6].enabled = FALSE,
                         !.history = @ \union {[id |-> 100, order |-> 1, plan |-> 2, to |-> "completed"]}]
  [] k = 3 -> [db EXCEPT !.orders = Put(@, 7 :> [plan |-> 10, status |-> "assigned", assigned |-> TRUE, started |-> FALSE,
                                                 completed |-> FALSE, cancelled |-> FALSE]),
                         !.plans = Put(@, 10 :> [asset |-> "CAS-GW-04", enabled |-> TRUE, due |-> 3]),
                         !.history = {[id |-> 100, order |-> 7, plan |-> 10, to |-> "assigned"]}]
Measured(db, k) == CASE k = 1 -> db
  [] k = 2 -> [db EXCEPT !.readings = {r \in @ : r.at # -1} \union {[sensor |-> "SNS-HBR-007", at |-> 5, seed |-> FALSE]}]
  [] k = 3 -> [db EXCEPT !.readings = @ \union {[sensor |-> "SNS-AIN-220", at |-> 0, seed |-> FALSE]}]
MCSeedings == {EmptyDb} \union {Measured(Maintained(Worked(Numbers(Seeded, a), b), c), d) :
                                 a \in 1..3, b \in 1..3, c \in 1..3, d \in 1..3}
Runs == {[id |-> 1, mock |-> m, network |-> n, historical |-> h] : m \in BOOLEAN, n \in BOOLEAN, h \in {FALSE}}
        \union {[id |-> 1, mock |-> FALSE, network |-> FALSE, historical |-> TRUE]}
MCCleanups == {[production |-> p, confirm |-> c, results |->
    [runs |-> {r, [id |-> 2, mock |-> FALSE, network |-> FALSE, historical |-> FALSE]},
     findings |-> {[id |-> 1, run |-> 1, demo |-> f], [id |-> 2, run |-> 1, demo |-> FALSE]},
     advice |-> {[id |-> 1, run |-> 2, demo |-> g]},
     log |-> {[id |-> k, run |-> e.run, mock |-> e.mock, numbered |-> e.numbered, network |-> FALSE, demo |-> FALSE] : k \in 1..2},
     mappings |-> {[id |-> 1, demo |-> f], [id |-> 2, demo |-> FALSE]}]] :
       p \in BOOLEAN, c \in BOOLEAN, r \in Runs, f \in BOOLEAN, g \in BOOLEAN,
       e \in [run : {Null, 2}, mock : BOOLEAN, numbered : BOOLEAN]}

-----------------------------------------------------------------------------
Threat(id, c, t, d, k) == [id |-> id, cluster |-> c, tier |-> t, degraded |-> d, criticality |-> k, confidence |-> 90]
ThreatsOf(id) == {Threat(id, c, t[1], t[2], k) : c \in {"042", "043", "elsewhere"}, k \in {Null, 5},
                                                 t \in {<<Null, FALSE>>, <<1, TRUE>>, <<2, FALSE>>, <<3, FALSE>>}}
MCThreatBatches == {[threats |-> <<a, b, c>>, max |-> m] :
  a \in ThreatsOf(1), b \in ThreatsOf(2), c \in {Threat(3, "042", 3, FALSE, 4), Threat(3, "046", 2, FALSE, Null)}, m \in {2, 10}}
MCToolCalls ==
  [device : {"known"}, create : {"refused", "lost", "no_id", "REQUESTED", "AVAILABLE", "UNAVAILABLE"},
   polls : UNION {[1..n -> {"raises", "REQUESTED", "AVAILABLE", "FAILED"}] : n \in 0..3},
   attachments : {<<"ok">>}, congestion : {"raises", "no_data", "HIGH"}]
  \union [device : {"known", "unknown"}, create : {"lost", "REQUESTED"}, polls : {<<"AVAILABLE">>},
          attachments : UNION {[1..n -> {"ok", "refused", "lost", "no_number"}] : n \in 0..3}, congestion : {"HIGH"}]
ToolMessages == {[tool |-> "request_qod", text |-> "json", incident |-> 1, tier |-> 3, device |-> "042"]}
  \union [tool : {"emit_grant", "emit_deny"}, text : {"json"}, incident : {1, 2}, tier : {3, 9}, device : {Null, "042"}]
  \union {[tool |-> t, text |-> x, incident |-> 1, tier |-> 3, device |-> "042"] :
             t \in {"emit_grant"}, x \in {"error", "raises"}}
  \union {[tool |-> "request_network_slice", text |-> "raises", incident |-> 1, tier |-> 3, device |-> "042"]}
MCDispatches == [threats : {<< >>, <<Threat(1, "042", 3, FALSE, 4)>>}, max : {10},
                 messages : UNION {[1..n -> ToolMessages] : n \in 0..3}]
MCStartups == [existing : {"raises", "AVAILABLE", "OPERATING", "DELETED"}, create : {"ok", "raises"},
               states : UNION {[1..n -> {"raises", "PENDING", "AVAILABLE", "OPERATING", "FAILED"}] : n \in 1..3},
               activate : [1..3 -> {"ok", "raises"}]]

-----------------------------------------------------------------------------
TelAssets == {[id |-> "s1", sensor |-> TRUE, status |-> "online"], [id |-> "s2", sensor |-> TRUE, status |-> "online"],
              [id |-> "v1", sensor |-> FALSE, status |-> "online"]}
TelReadings == {[sensor |-> "s1", at |-> 20003, kpa |-> 400, loss |-> 3], [sensor |-> "s1", at |-> 20011, kpa |-> Null, loss |-> 0],
                [sensor |-> "s2", at |-> 20004, kpa |-> 420, loss |-> Null], [sensor |-> "s2", at |-> 20059, kpa |-> 410, loss |-> 5],
                [sensor |-> "s1", at |-> 20058, kpa |-> 380, loss |-> Null], [sensor |-> "s2", at |-> 18900, kpa |-> 415, loss |-> 1],
                [sensor |-> "s1", at |-> 10003, kpa |-> 402, loss |-> 2], [sensor |-> "s2", at |-> 20075, kpa |-> 425, loss |-> Null]}
\* The reports' clock behind the server's, and ahead of the first of them.
MCCharts == {[db |-> [assets |-> TelAssets, readings |-> r], range |-> g, now |-> n, clock |-> a, cap |-> c] :
               r \in SUBSET TelReadings, g \in Ranges, n \in {20060, 20100, 29000}, a \in {19000, 20062}, c \in {2, 500}}
Bases == {[p |-> 412, f |-> 54, loss |-> 0, signal |-> -68], [p |-> 405, f |-> 56, loss |-> 1, signal |-> -72]}
TrySimulator == Try("simulator", [before : {<< >>} \union {<<b>> : b \in Bases}, bases : {<<a, b>> : a \in Bases, b \in Bases} \ {<<a, a>> : a \in Bases},
                                  frozen : {[p |-> 409, f |-> 55, loss |-> 0, signal |-> -70]}, status : {"online", "offline"},
                                  scenario : DOMAIN RuleOf, count : {1, 5}, spacing : {6, 7}, now : {100}])

-----------------------------------------------------------------------------
Faults == {<<"leak", "small">>, <<"leak", "medium">>, <<"leak", "large">>} \union {<<t, "default">> : t \in DOMAIN FaultLibrary \ {"leak"}}
TbSchedules == {[cluster |-> c, type |-> f[1], magnitude |-> f[2], joins |-> j, held |-> h, cleared |-> x, jitter |-> n, forest |-> 0] :
                  c \in {"042"}, f \in Faults, j \in BOOLEAN, h \in {6, 20}, x \in BOOLEAN, n \in {0, 100}}
TryTestbed == Try("testbed", TbSchedules)
TryEval == Try("eval", [cluster : DOMAIN Segments, warm : {4, 5, 10}, jitter : {0, 100}, forest : {74, 75}])

-----------------------------------------------------------------------------
CNext == \/ TryRules \/ TryScores \/ TryWindow \/ TryCamara \/ TryTier
         \/ TryAnswers \/ TryPost \/ TrySummary \/ TryProbe \/ TryProvider \/ TryCache
         \/ TryAnalytics
         \/ TryContract \/ TryHealth \/ TryLists \/ TryRedact \/ TryForward \/ TryEntry
         \/ TryViews
         \/ TrySeeds \/ TryCleanup
         \/ TryBatch \/ TryTools \/ TryDispatch \/ TrySlice
         \/ TryTelemetry \/ TrySimulator
         \/ TryTestbed \/ TryEval
CalcSpec == Untried /\ [][CNext]_trial

\* Nothing under a secret key is kept, at any depth (redact.py, sanitize.py).
NoSecret == For("redact", NoSecretKept(input))
\* The engine tells each of the simulator's scenarios by its own rule (telemetry_patterns.py).
ScenarioRules == For("simulator", ScenarioTold(input))
\* The evaluation passes the scenarios it names, but for the short first window of a leak and the slow pump (eval/run_eval.py).
EvalOutcomes == For("eval", OutcomesTold(input))
\* An agent that learnt the healthy water suspects what is off it; one that joined a fault does the opposite (aia/api.py).
LearntFirst == For("testbed", BaselineIsFirst(input))
\* A sensor without a radio repeats its first reading while the water moves on (simulator/app/main.py).
FrozenTold == For("testbed", FrozenWhileWaterMoves(input))

-----------------------------------------------------------------------------
(* The groups the run checks.                                              *)
\* The calculations over sequences, of nested payloads (redact.py), of the simulator's
\* readings (telemetry_patterns.py) and of the ticks of the testbed's water
\* (water-pipeline-testbed): no secret is kept at any depth, and each scenario or fault
\* makes of the water, the engine, the agent and the evaluation what it is told to.
RecursionsSound == NoSecret /\ ScenarioRules /\ EvalOutcomes /\ LearntFirst /\ FrozenTold
==============================================================================
