---------------------------- MODULE AgentVerdicts ----------------------------
(***************************************************************************)
(* What the investigation agent decides of one cluster                     *)
(* (agents/investigation_agent): the detector (nodes/detection.py,         *)
(* ml_model/inference.py), the CAMARA decision tree (nodes/                *)
(* investigation.py over clients/camara_client.py), the severity tier and  *)
(* the confidence (nodes/risk.py), and the threat that is published.       *)
(*                                                                         *)
(* Percentages are integers; slopes (psi per minute), fits (R squared),    *)
(* z scores and features are in hundredths.  Fits, slopes and the forest's *)
(* score of a window are inputs: the regressions and the forest are        *)
(* numerical.  ThreatAlerts models what happens to the verdicts over time. *)
(***************************************************************************)
EXTENDS Trials, Integers, FiniteSets, FiniteSetsExt

Magnitudes(S) == {IF x < 0 THEN -x ELSE x : x \in S}

-----------------------------------------------------------------------------
(***************************************************************************)
(* Stage 1.  w: z the two z scores ({} without a baseline), dp and dq the  *)
(* window's changes, ps and qs its deviations, forest the isolation        *)
(* forest's probability, model whether there is a detector that answers.   *)
(***************************************************************************)
MajorLeak(w)    == w.dp <= -250 /\ (w.dq >= 150 \/ w.ps > 120)
ModerateLeak(w) == w.dp <= -180 \/ (w.ps > 180 /\ w.qs > 180)
Noise(w)        == Max(Magnitudes({w.dp})) < 120 /\ Max(Magnitudes({w.dq})) < 150 /\ w.ps < 100 /\ w.qs < 100

LeakProbability(w) ==
  IF MajorLeak(w) THEN Max({90, w.forest})
  ELSE IF ModerateLeak(w) THEN Max({75, w.forest})
  ELSE IF Noise(w) THEN Min({5, w.forest}) ELSE w.forest

ZBreached(w) == \E z \in Magnitudes(w.z) : z >= 350
Suspected(w) == ZBreached(w) \/ (w.model /\ LeakProbability(w) >= 75)

-----------------------------------------------------------------------------
(***************************************************************************)
(* Stage 2.  c: reply what the reachability API does, insights what the    *)
(* congestion API does, profile the cluster's entry in the static map,     *)
(* hot whether the last reading is at 50 degrees or more.                  *)
(***************************************************************************)
Replies  == {"reachable", "unreachable", "no_field", "raises"}
Levels   == {"LOW", "MEDIUM", "HIGH", "UNAVAILABLE"}
Insights == Levels \union {"other", "raises", "absent", "client_raises"}

\* An answer without the field is a failure of the API, not an unreachable device.
ReachabilityOptimistic(reply) == IF reply = "reachable" THEN "REACHABLE"
                                 ELSE IF reply = "raises" THEN "UNKNOWN" ELSE "UNREACHABLE"  \* mutant
Reachability(reply) == CASE reply = "reachable"   -> "REACHABLE"
                         [] reply = "unreachable" -> "UNREACHABLE"
                         [] OTHER                 -> "UNKNOWN"

\* The facade of the congestion API does not fail: without an answer it takes the level
\* from a static map of the demonstration's clusters, LOW for all others.  Only another
\* client than it raises (the tests' double does).
Congestion(c) == CASE c.insights \in Levels              -> c.insights
                   [] c.insights = "other"                -> "LOW"
                   [] c.insights \in {"raises", "absent"} -> c.profile
                   [] c.insights = "client_raises"        -> "UNAVAILABLE"
CongestionFailed(c) == c.insights = "client_raises"

Artifact(c) == Congestion(c) = "HIGH" /\ c.hot
Verdict(c) ==
  LET reach == Reachability(c.reply)
      V(class, level, unavailable, stale) ==
        [class |-> class, reach |-> reach, level |-> level, unavailable |-> unavailable, stale |-> stale,
         congestionFailed |-> reach # "UNKNOWN" /\ CongestionFailed(c),
         requeue |-> class = "insufficient_data"]
  IN CASE reach = "UNKNOWN"   -> V("insufficient_data", "UNAVAILABLE", TRUE, FALSE)
       [] reach = "REACHABLE" -> V("confirmed_anomaly", Congestion(c), FALSE, FALSE)
       [] reach = "UNREACHABLE" /\ CongestionFailed(c) -> V("insufficient_data", "UNAVAILABLE", TRUE, FALSE)
       [] reach = "UNREACHABLE" /\ ~CongestionFailed(c) /\ Artifact(c) ->
            V("likely_connectivity_artifact", "HIGH", FALSE, FALSE)
       [] OTHER -> V("confirmed_instrument_fault", Congestion(c), FALSE, TRUE)

PlatformOffline(verdicts) == Quantify(DOMAIN verdicts, LAMBDA i : verdicts[i].unavailable) >= 2

-----------------------------------------------------------------------------
(***************************************************************************)
(* Stage 3.  r: n readings, drop and surge in percent, slope, fit, zone    *)
(* and criticality (1 also for a cluster the topology does not know).      *)
(***************************************************************************)
ZoneThresholds(zone) == IF zone = "neom-south" THEN [t2 |-> 12, t3 |-> 30, slope |-> -120]
                        ELSE [t2 |-> 15, t3 |-> 35, slope |-> -150]

\* Criticality one counts as high, together with three.
HighCriticality(r) == r.criticality # 2

Tier3(r) ==
  LET z == ZoneThresholds(r.zone) IN
  \/ r.drop >= 60
  \/ r.drop >= z.t3 /\ (r.slope <= z.slope \/ r.fit >= 50)
  \/ (r.slope <= z.slope \/ r.slope <= -200) /\ r.drop >= 10 /\ r.fit >= 60
  \/ HighCriticality(r) /\ r.drop >= 15 /\ r.fit >= 50
  \/ r.surge >= 25 /\ r.drop >= 10
Tier2(r) ==
  \/ r.drop >= ZoneThresholds(r.zone).t2
  \/ r.slope <= -50 /\ r.drop >= 5
  \/ r.surge >= 10

SeverityTier(r) == CASE r.n < 5                     -> 1
                     [] r.n >= 5 /\ Tier3(r)             -> 3
                     [] r.n >= 5 /\ ~Tier3(r) /\ Tier2(r) -> 2
                     [] OTHER                            -> 1

Tier(v, r) == CASE v.class = "confirmed_anomaly" -> SeverityTier(r)
                [] v.class = "insufficient_data" -> 2
                [] OTHER                         -> 1

\* In hundredths: telemetry and CAMARA forty each, the fit twenty.
CamaraCredit(v) == IF v.unavailable THEN 0 ELSE IF v.congestionFailed THEN 50 ELSE 100
ConfidenceScore(v, r) == (40 * Min({100, 10 * r.n}) + 40 * CamaraCredit(v) + 20 * r.fit) \div 100

\* The memo is the model's or, when it fails in any way, a fixed one.
Narrate(llm) == IF llm = "answers" THEN "memo" ELSE "fallback"

\* One run of the graph: investigate, assess_risk, narrate.
Graph(c, r, llm) ==
  LET v == Verdict(c) IN
  [verdict |-> v, tier |-> Tier(v, r), confidence |-> ConfidenceScore(v, r), memo |-> Narrate(llm)]

\* Whatever else the graph raises, its cluster is told as a confirmed anomaly of tier one,
\* of a device nothing is known of.
Fallback ==
  [verdict |-> [class |-> "confirmed_anomaly", reach |-> "UNKNOWN", level |-> "UNAVAILABLE", unavailable |-> FALSE,
                stale |-> FALSE, congestionFailed |-> FALSE, requeue |-> FALSE],
   tier |-> 1, confidence |-> 0, memo |-> "error"]
InvestigateCluster(c, r, llm) == IF c.crashes THEN Fallback ELSE Graph(c, r, llm)

\* The network status of a published threat, as its validator derives it.
NetworkStatus(v) == [online |-> v.reach = "REACHABLE" /\ ~v.unavailable,
                     degraded |-> v.level \in {"HIGH", "MEDIUM"}]
Published(g) == g.verdict.class = "confirmed_anomaly"

-----------------------------------------------------------------------------
(***************************************************************************)
(* Properties of one input.                                                *)
(***************************************************************************)
\* A collapse of the pressure is suspected whatever the forest scores it, at the equality
\* of the guardrail's 0.75 and the threshold's too, and plain noise never on its score.
GuardrailsDecide(w) ==
  w.model => /\ MajorLeak(w) \/ ModerateLeak(w) => Suspected(w)
             /\ Noise(w) /\ ~ModerateLeak(w) /\ ~ZBreached(w) => ~Suspected(w)

\* "A platform/API failure is never interpreted as a legitimate device reading"
\* (investigation.py): where a client raises or answers without the field, no fault and no
\* anomaly is told, and two such clusters tell an outage.  (The congestion facade's
\* static map is not told from an answer: see Congestion.)
FailureIsNoVerdict(c) ==
  LET v == Verdict(c)
      failed == c.reply \in {"no_field", "raises"} \/ (c.reply = "unreachable" /\ CongestionFailed(c))
  IN failed =>
    /\ v.class = "insufficient_data" /\ v.requeue /\ Tier(v, [n |-> 10]) = 2
    /\ PlatformOffline(<<v, v>>)

\* A published threat is of a device that answered, so that the network agent meets it as
\* reachable; except that one whose investigation crashed is published too, offline and of
\* tier one, whatever the device would have answered.
ThreatsAreOnline(c) ==
  LET g == InvestigateCluster(c, [n |-> 4, fit |-> 0], "raises") IN
  Published(g) => /\ ~g.verdict.stale
                  /\ NetworkStatus(g.verdict).online <=> ~c.crashes
                  /\ c.crashes => g.tier = 1

\* i: two observations of a cluster, the second no milder; a longer or steeper fall or
\* a better fit never lowers the tier.
NoMilder(x, y) ==
  /\ x.n <= y.n /\ x.drop <= y.drop /\ x.surge <= y.surge /\ x.fit <= y.fit
  /\ y.slope <= x.slope /\ x.zone = y.zone /\ x.criticality = y.criticality
TierMonotone(i) == NoMilder(i.x, i.y) => SeverityTier(i.x) <= SeverityTier(i.y)

-----------------------------------------------------------------------------
(* The inputs tried: the detector's windows, a cluster's answers, pairs of observations. *)
CONSTANTS DetectorWindows, Answered, ObservationPairs

Observation == [n : Nat, drop : Int, surge : Int, slope : Int, fit : Int, zone : STRING, criticality : Nat]
ASSUME DetectorWindowsAssumption ==
  \A w \in DetectorWindows : /\ w.z \subseteq Int /\ w.model \in BOOLEAN
                            /\ \A a \in {"dp", "dq", "ps", "qs", "forest"} : w[a] \in Int
ASSUME AnsweredAssumption ==
  Answered \subseteq [reply : Replies, insights : Insights, profile : Levels, hot : BOOLEAN, crashes : BOOLEAN]
ASSUME ObservationPairsAssumption == \A i \in ObservationPairs : i.x \in Observation /\ i.y \in Observation

TryWindow == Try("window", DetectorWindows)
TryCamara == Try("camara", Answered)
TryTier   == Try("tier", ObservationPairs)
VerdictsSpec == Untried /\ [][TryWindow \/ TryCamara \/ TryTier]_trial

\* What the investigation agent makes of a cluster (aia/nodes, ml_model/inference.py,
\* pipeline.py): physics over the forest, no verdict from a failure, published only of a
\* device that answered or of an investigation that crashed, no lower tier for a worse fall.
VerdictsCautious ==
  /\ For("window", GuardrailsDecide(input))
  /\ For("camara", FailureIsNoVerdict(input) /\ ThreatsAreOnline(input))
  /\ For("tier", TierMonotone(input))
=============================================================================
