---------------------------- MODULE NetworkViews ----------------------------
(***************************************************************************)
(* What the platform makes of the network's answers                        *)
(* (plateform/backend/app/network/device_network.py, providers.py) and the *)
(* device list with its summary (services/network_health.py), as           *)
(* functions.  DeviceNetwork models the refreshes that store the answers.  *)
(*                                                                         *)
(* Degrees and metres are integers.  Nan is a coordinate sent as the text  *)
(* "nan", which float() takes: every comparison with it is false in        *)
(* Python, while PostgreSQL orders it above all numbers.                   *)
(***************************************************************************)
EXTENDS NullValue, Trials, Integers, Sequences, FiniteSets, FiniteSetsExt, SequencesExt

CONSTANTS
  Nan, Text,   \* a coordinate that is not a number, one that is no text of a number
  Unfit        \* a word longer than its column, or an area type that is no text at all
Number(x) == x \notin {Null, Nan, Text}
Below(x, y) == Number(x) /\ x < y
Above(x, y) == Number(x) /\ x > y

-----------------------------------------------------------------------------
(***************************************************************************)
(* Answers.  p.reachable is true, false or something else (Null too),      *)
(* p.subscription whether it is a subscription's metadata, p.via the       *)
(* connectivity types in their order, p.area the type of area, Null for    *)
(* none.  The payload itself is kept as JSON, which is left out.           *)
(***************************************************************************)
ReachableVia(via) == CASE "data" \in ToSet(via) -> "data"
                       [] "data" \notin ToSet(via) /\ "sms" \in ToSet(via) -> "sms"
                       [] {"data", "sms"} \intersect ToSet(via) = {} /\ via # << >> -> via[1]
                       [] OTHER -> Null
ReachabilityOf(p) ==
  IF p.subscription /\ p.reachable = Null
  THEN [status |-> "unknown", via |-> Null, error |-> "subscription_response_not_state"]
  ELSE [status |-> CASE p.reachable = "true" -> "reachable" [] p.reachable = "false" -> "unreachable"
                     [] OTHER -> "unknown",
        via |-> ReachableVia(p.via), error |-> Null]

\* The disabled provider's answer: nobody is asked.
DisabledReachability == [status |-> "not_checked", via |-> Null, error |-> "provider_disabled"]

NoLocation(error) == [available |-> FALSE, lat |-> Null, lon |-> Null, radius |-> Null, area |-> Null, error |-> error]
AreaOf(p) == IF p.area = Null THEN "CIRCLE" ELSE p.area
LocationUnchecked(p) ==    \* mutant: no range check
  IF Text \in {p.lat, p.lon, p.radius} THEN NoLocation("malformed_location")
  ELSE IF Null \in {p.lat, p.lon} THEN NoLocation("location_unavailable")
  ELSE [available |-> TRUE, lat |-> p.lat, lon |-> p.lon, radius |-> p.radius, area |-> AreaOf(p), error |-> Null]
LocationOf(p) ==
  IF Text \in {p.lat, p.lon, p.radius} THEN NoLocation("malformed_location")
  ELSE IF \/ Null \in {p.lat, p.lon} \/ Below(p.lat, -90) \/ Above(p.lat, 90)
          \/ Below(p.lon, -180) \/ Above(p.lon, 180)
       THEN NoLocation("location_unavailable")
  ELSE [available |-> TRUE, lat |-> p.lat, lon |-> p.lon,
        radius |-> IF Below(p.radius, 0) THEN Null ELSE p.radius, area |-> AreaOf(p), error |-> Null]

\* _persist keeps a location whole or not at all.
Row(reach, loc) ==
  LET whole == loc.available /\ Null \notin {loc.lat, loc.lon}
      K(x)  == IF whole THEN x ELSE Null
  IN  [status |-> reach.status, via |-> reach.via, located |-> whole, lat |-> K(loc.lat), lon |-> K(loc.lon),
       radius |-> K(loc.radius), area |-> K(loc.area), error |-> IF reach.error # Null THEN reach.error ELSE loc.error]

\* The table's check constraints, where NULL passes every comparison, and the lengths of
\* its columns.
Within(x, lo, hi) == x = Null \/ (Number(x) /\ lo <= x /\ x <= hi)
RowAllowed(row) ==
  /\ row.status \in {"reachable", "unreachable", "unknown", "not_supported", "not_checked"}
  /\ Within(row.lat, -90, 90) /\ Within(row.lon, -180, 180)
  /\ row.radius \in {Null, Nan} \/ row.radius >= 0
  /\ IF row.located THEN Null \notin {row.lat, row.lon} ELSE {row.lat, row.lon, row.radius, row.area} = {Null}
  /\ Unfit \notin {row.via, row.area}

-----------------------------------------------------------------------------
(***************************************************************************)
(* One call of the live provider: replies[k] is what attempt k meets.      *)
(***************************************************************************)
Outcome(reply) == CASE reply = "ok"         -> "ok"
                    [] reply = "timeout"    -> "nokia_timeout"
                    [] reply = "no_connection" -> "nokia_unreachable"
                    [] reply = "malformed"  -> "nokia_malformed_response"
                    [] reply \in {"4xx", "5xx"} -> "nokia_http_error"
Transient(reply) == reply \in {"5xx", "timeout", "no_connection"}
Post(replies, retries) ==
  LET post[k \in 1..(retries + 1)] ==
        IF Transient(replies[k]) /\ k <= retries THEN post[k + 1] ELSE Outcome(replies[k])
  IN  post[1]

\* Numbers of assets never leave the platform: those of the sandbox pass, others are mapped.
Sandbox == {"sandbox", "sandbox_1001", "sandbox_1003"}
SandboxNumber(number, mapping) ==
  CASE number = Null -> "sandbox_1001"
    [] number \in Sandbox -> number
    [] number \notin Sandbox \union {Null} /\ number \in DOMAIN mapping -> mapping[number]
    [] OTHER -> "sandbox_1001"

\* s: enabled, mode, credentials (a base url and a key).
ConfiguredSourceMode(s) == IF s.enabled /\ s.mode = "live" THEN "nokia_live"
                           ELSE IF s.mode = "simulator" THEN "nokia_simulator" ELSE "seeded_demo"
Provider(s) ==
  CASE s.mode = "disabled" -> [name |-> "disabled", source |-> "seeded_demo"]
    [] s.enabled /\ s.mode = "live" /\ s.credentials -> [name |-> "nokia_camara", source |-> "nokia_live"]
    [] s.enabled /\ s.mode = "live" /\ ~s.credentials -> [name |-> "nokia_mock", source |-> "nokia_simulator"]
    [] OTHER -> [name |-> "nokia_mock", source |-> ConfiguredSourceMode(s)]

\* The demonstration's answers by the number's profile, and an unlisted number's.
MockReachability(profile) ==
  CASE profile = "7007" -> [subscription |-> FALSE, reachable |-> "false", via |-> << >>]
    [] profile = "0221" -> [subscription |-> FALSE, reachable |-> Null, via |-> << >>]
    [] profile = "0201" -> [subscription |-> FALSE, reachable |-> "true", via |-> <<"sms">>]
    [] OTHER            -> [subscription |-> FALSE, reachable |-> "true", via |-> <<"data">>]
MockRaises(profile)  == profile = "0601"
MockLocates(profile) == profile \notin {"7007", "0401", "0601"}

-----------------------------------------------------------------------------
(***************************************************************************)
(* The device list.  d: number, asset type, zone, and snapshot, the latest *)
(* row with its age and source, or Null.                                   *)
(***************************************************************************)
ItemStatus(d)  == IF d.snapshot = Null THEN "not_checked" ELSE d.snapshot.status
ItemLocated(d) == d.snapshot # Null /\ d.snapshot.located
ItemSource(d)  == IF d.snapshot = Null THEN "" ELSE d.snapshot.source
ItemStale(d, cache) == d.snapshot # Null /\ d.snapshot.age > Max({2 * cache, 1800})

\* f holds the filters that are set; free text search is left out.
Matches(d, f) ==
  /\ "zone" \in DOMAIN f => d.zone = f.zone
  /\ "type" \in DOMAIN f => d.type = f.type
  /\ "reachability" \in DOMAIN f =>
       IF f.reachability = "unknown_or_not_checked" THEN ItemStatus(d) \in {"unknown", "not_checked"}
       ELSE ItemStatus(d) = f.reachability
  /\ "located" \in DOMAIN f => ItemLocated(d) = f.located
  /\ "cellular" \in DOMAIN f => (d.number # Null) = f.cellular
  /\ "source" \in DOMAIN f => ItemSource(d) = f.source

\* The devices of a list that match, by their places in it, and those of them with a mark.
DevicesMatching(ds, f) == {k \in DOMAIN ds : Matches(ds[k], f)}
Counting(ds, f, P(_)) == Cardinality({k \in DevicesMatching(ds, f) : P(ds[k])})
DeviceSummary(ds, f, cache) ==
  [cellular |-> Counting(ds, f, LAMBDA d : d.number # Null),
   reachable |-> Counting(ds, f, LAMBDA d : ItemStatus(d) = "reachable"),
   unreachable |-> Counting(ds, f, LAMBDA d : ItemStatus(d) = "unreachable"),
   unknown |-> Counting(ds, f, LAMBDA d : ItemStatus(d) \in {"unknown", "not_checked"}),
   located |-> Counting(ds, f, ItemLocated), stale |-> Counting(ds, f, LAMBDA d : ItemStale(d, cache))]

\* Newest first, and a page of them; a page below one is the first.
ListEvents(events, page, size) ==
  LET rows  == Reverse(events)
      start == Max({0, (page - 1) * size})
  IN  [items |-> SubSeq(rows, start + 1, Min({start + size, Len(rows)})), total |-> Len(rows)]

\* The context an incident shows is of its sensor, or of its valve without one.
IncidentContext(incident, latest) ==
  LET a == IF incident.sensor # Null THEN incident.sensor ELSE incident.valve IN
  IF a = Null THEN [asset |-> Null, status |-> Null]
  ELSE [asset |-> a, status |-> IF a \in DOMAIN latest THEN latest[a].status ELSE "not_checked"]

-----------------------------------------------------------------------------
(***************************************************************************)
(* Properties of one input.                                                *)
(***************************************************************************)
\* The row made of a provider's answer fits the table, so that the refresh commits, but in
\* three cases, each of which takes the whole batch with it: a coordinate that is not a
\* number passes Python's range check and not the table's; a type of area is stored as it
\* comes; and so is a first type of connectivity, unless data or sms is one of them.  What
\* the disabled provider answers always fits.
AnswersFitTheTable(p) ==
  /\ RowAllowed(Row(ReachabilityOf(p), LocationOf(p))) <=>
       /\ LocationOf(p).available => Nan \notin {p.lat, p.lon} /\ p.area # Unfit
       /\ ~ (/\ p.via # << >> /\ p.via[1] = Unfit /\ {"data", "sms"} \intersect ToSet(p.via) = {}
             /\ ~ (p.subscription /\ p.reachable = Null))
  /\ RowAllowed(Row(DisabledReachability, NoLocation("provider_disabled")))

\* A call ends in the first attempt that is not transient, or in the last one; an answer
\* is never replaced by an error of an attempt before it.
PostIsFirstLasting(i) ==
  LET n == i.retries + 1
      k == Min({j \in 1..n : ~Transient(i.replies[j])} \union {n})
  IN  Post(i.replies, i.retries) = Outcome(i.replies[k])

\* With any filter every matching device is counted in one of the three states, or has no
\* number to be asked for; a device never checked is not left out.
SummaryCountsAll(i) ==
  LET s == DeviceSummary(i.devices, i.filters, 900)
  IN  s.reachable + s.unreachable + s.unknown
        + Counting(i.devices, i.filters, LAMBDA d : ItemStatus(d) = "not_supported")
      = Cardinality(DevicesMatching(i.devices, i.filters))

\* A number the platform keeps never reaches the live interface, configured or not in the
\* mapping, and only the live provider with its credentials calls out at all.
OnlySandboxNumbersLeave(i) ==
  Provider(i.settings).source = "nokia_live" =>
    /\ i.settings.enabled /\ i.settings.credentials /\ Provider(i.settings).name = "nokia_camara"
    /\ SandboxNumber(i.number, i.mapping) \in Sandbox

-----------------------------------------------------------------------------
(* The inputs tried: a provider's answers, what the attempts of a call meet, lists, lookups. *)
CONSTANTS NetworkAnswers, Calls, DeviceLists, Lookups

Coordinate == Int \union {Null, Nan, Text}
Attempts   == {"ok", "timeout", "no_connection", "malformed", "4xx", "5xx"}
ASSUME CoordinateAssumption == {Nan, Text} \intersect Int = {} /\ Cardinality({Null, Nan, Text}) = 3
ASSUME UnfitAssumption == Unfit \notin {Null, "CIRCLE", "data", "sms"}
ASSUME NetworkAnswersAssumption ==
  NetworkAnswers \subseteq [subscription : BOOLEAN, reachable : {"true", "false", "maybe", Null}, via : Seq(STRING \union {Unfit}),
                            lat : Coordinate, lon : Coordinate, radius : Coordinate,
                            area : {Null, "POLYGON", Unfit}]
ASSUME CallsAssumption ==
  \A i \in Calls : i.retries \in Nat /\ i.replies \in [1..(i.retries + 1) -> Attempts]
ASSUME DeviceListsAssumption ==
  \A i \in DeviceLists :
    /\ IsFiniteSet(DOMAIN i.devices)
    /\ \A k \in DOMAIN i.devices :
         i.devices[k].snapshot # Null =>
           i.devices[k].snapshot.status \in {"reachable", "unreachable", "unknown", "not_supported", "not_checked"}
\* NOKIA_SANDBOX_MSISDN_BY_ASSET names numbers of the sandbox.
ASSUME LookupsAssumption == \A i \in Lookups : \A n \in DOMAIN i.mapping : i.mapping[n] \in Sandbox

TryAnswers  == Try("answers", NetworkAnswers)
TryPost     == Try("post", Calls)
TrySummary  == Try("summary", DeviceLists)
TryProvider == Try("provider", Lookups)
AnswersSpec == Untried /\ [][TryAnswers \/ TryPost \/ TrySummary \/ TryProvider]_trial

\* What the platform makes of the network's answers (app/network, network_health.py):
\* stored as they may be but for a coordinate that is no number and for unchecked words
\* longer than their columns, ended by the first lasting attempt, counted whole in the
\* summary, and no number given away.
AnswersKept ==
  /\ For("answers", AnswersFitTheTable(input))
  /\ For("post", PostIsFirstLasting(input))
  /\ For("summary", SummaryCountsAll(input))
  /\ For("provider", OnlySandboxNumbersLeave(input))
=============================================================================
