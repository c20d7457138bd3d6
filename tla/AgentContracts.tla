--------------------------- MODULE AgentContracts ---------------------------
(***************************************************************************)
(* What passes between the agents and the platform (app/integrations,      *)
(* services/integrations.py, aia/api.py, response_agent/tools): requests   *)
(* with retries, the contract's validators, the contract check, the status *)
(* row of an agent and its status page (integrations/agent_status.py), and *)
(* the verdict on a reported valve.                                        *)
(* Ingest models what is stored of an accepted result.                     *)
(*                                                                         *)
(* A body is a record: batch and threats say which keys it has, version    *)
(* what it names as schema_version ("no_object" if the body is no JSON        *)
(* object), valid whether its findings validate.                           *)
(***************************************************************************)
EXTENDS NullValue, Trials, Integers, Sequences, FiniteSets, SequencesExt, FiniteSetsExt

-----------------------------------------------------------------------------
(***************************************************************************)
(* clients: tries holds what each attempt meets: a failure of the          *)
(* transport or a reply of status and body.                                *)
(***************************************************************************)
TransportFailures == {"timeout", "no_connection"}
WorthRetrying(try) == try.status \in TransportFailures \union {"5xx"}
\* Attempts are repeated after a failure or a server error, but for the last.
RequestWithRetry(tries, retries) ==
  LET last == SelectInSubSeq(tries, 1, retries + 1, LAMBDA t : ~WorthRetrying(t))
  IN tries[IF last = 0 THEN retries + 1 ELSE last]

\* Which schema versions each side takes: an absent one is the contract's own.
ClientAcceptsExplicit(b) == b.version = "1.0" /\ b.batch /\ b.valid         \* mutant
ClientAccepts(b) ==
  /\ b.version \in {"absent", "null", "1.0"} /\ b.valid
  /\ \/ ~b.batch /\ b.threats
     \/ b.batch /\ b.version # "null"
ParseAccepts(b) == b.version \in {"absent", "1.0"} /\ b.valid /\ (b.batch \/ b.threats)
\* A recommendation has no batch; its client and its parser differ in nothing else.
RecommendationAccepted(b) == b.version \in {"absent", "1.0"} /\ b.valid

AgentAnswer(agent, reply) ==
  CASE reply.status = "timeout"       -> "agent_timeout"
    [] reply.status = "no_connection" -> "agent_unreachable"
    [] reply.status = "5xx"           -> "agent_unreachable"
    [] reply.status = "4xx"           -> "agent_invalid_response"
    [] reply.status = "200" ->
         CASE reply.body.version = "no_object" -> "agent_invalid_response"
           [] reply.body.version = "2.0" -> "agent_schema_version_unsupported"
           [] agent = "investigation" /\ ClientAccepts(reply.body) -> "accepted"
           [] agent = "response" /\ RecommendationAccepted(reply.body) -> "accepted"
           [] OTHER -> "agent_contract_mismatch"
RemoteAnswer(agent, tries, retries) == AgentAnswer(agent, RequestWithRetry(tries, retries))

\* check_agent_contract: health, contract and a fixture, of which every step must be fine.
\* A contract that is a list ends the check with an exception.
CheckSteps(i) ==
  IF \E r \in {i.health, i.contract, i.fixture} : r.status \in TransportFailures THEN {FALSE}
  ELSE {i.health.status = "200",
        i.contract.status = "200" /\ i.contract.version \in {"absent", "null", "1.0"},
        i.fixture.status = "200" /\ IF i.agent = "investigation" THEN ParseAccepts(i.fixture.body)
                                                           ELSE RecommendationAccepted(i.fixture.body)}
Compatible(i) == i.configured /\ CheckSteps(i) = {TRUE}

-----------------------------------------------------------------------------
(***************************************************************************)
(* The row of an agent: every request's service first brings it in line    *)
(* with the settings, and a health check stores what its client says.      *)
(***************************************************************************)
NewRow == [enabled |-> FALSE, mode |-> "disabled", health |-> "disabled"]
Enabled(s) == s.integration /\ s.agent
SyncFromSettings(row, s) ==
  [enabled |-> Enabled(s),
   mode    |-> IF Enabled(s) /\ s.mode \in {"mock", "remote"} THEN s.mode ELSE "disabled",
   health  |-> IF Enabled(s) THEN row.health ELSE "disabled"]

\* What the client of these settings says of its agent; an exception says nothing.
ClientHealth(s, reply) ==
  CASE ~Enabled(s) \/ s.mode \notin {"mock", "remote"} -> "disabled"
    [] Enabled(s) /\ s.mode = "mock"                   -> "healthy"
    [] OTHER -> CASE ~s.url \/ reply.status \in TransportFailures -> "raises"
                  [] s.url /\ reply.status = "200"                -> "healthy"
                  [] OTHER                                        -> "unhealthy"
CheckHealth(row, s, reply) ==
  LET said == ClientHealth(s, reply)
  IN [SyncFromSettings(row, s) EXCEPT !.health = IF said = "raises" THEN @ ELSE said]

\* A request has the settings of its process and asks for the health or only reads; rows[n]
\* is the agent's row after n of them.
AfterRequest(row, r) ==
  IF r.checks THEN CheckHealth(SyncFromSettings(row, r.settings), r.settings, r.reply)
  ELSE SyncFromSettings(row, r.settings)
RowsOf(requests, rows) ==
  /\ DOMAIN rows = 0..Len(requests) /\ rows[0] = NewRow
  /\ \A n \in DOMAIN requests : rows[n] = AfterRequest(rows[n - 1], requests[n])
ToldReachable(row) == row.health = "healthy"

-----------------------------------------------------------------------------
(***************************************************************************)
(* The views: what a list shows, newest first up to its limit, and what is *)
(* shown by its identifier.  Results of a mock are hidden.                 *)
(***************************************************************************)
Newest(rows, limit) == {r \in rows : Cardinality({o \in rows : o.at > r.at}) < limit}
ListRuns(rows, limit) == Newest({r \in rows : r.mode # "mock_agent_data"}, limit)
GetRun(rows, id) == {r \in rows : r.id = id /\ r.mode # "mock_agent_data"}
\* A finding is shown by its identifier even when it is a mock's.
ListFindings(rows, limit) == ListRuns(rows, limit)
GetFinding(rows, id) == {r \in rows : r.id = id}
UnmappedFindings(rows) == {r \in rows : r.mode # "mock_agent_data" /\ ~r.mapped}

-----------------------------------------------------------------------------
(***************************************************************************)
(* The agents' status.  A reply is raises, timeout, no_connection, 404,    *)
(* error (400 and above), no_json, or a body: bad, ok, or a version.       *)
(***************************************************************************)
Refused == {"404", "error"}
Silent  == {"timeout", "no_connection"}
Status(configured, reachable, health, contract, version, error) ==
  [configured |-> configured, reachable |-> reachable, health |-> health, contract |-> contract,
   version |-> version, error |-> error]
Healthy(contract, version, error) == Status(TRUE, TRUE, "healthy", contract, version, error)
Unavailable(error) == Status(TRUE, FALSE, "unavailable", "unavailable", Null, error)

\* The network agent has no contract to be compatible with (claims is false).
ContractVerdict(spec, reply) ==
  CASE reply = "timeout"       -> Healthy("unknown", Null, "agent_contract_unavailable")
    [] reply \in {"no_connection", "404"} -> Healthy("unknown", Null, Null)
    [] reply \in {"error", "no_json"} -> Healthy("unavailable", Null, "agent_contract_unavailable")
    [] reply \in {"ok", "bad"}  -> Healthy("unknown", Null, Null)
    [] reply \in {"1.0", "2.0"} /\ ~spec.claims -> Healthy("unknown", reply, Null)
    [] reply \in {"1.0", "2.0"} /\ spec.claims ->
         IF reply = spec.expected THEN Healthy("compatible", reply, Null)
         ELSE Healthy("incompatible", reply, "agent_contract_mismatch")

Probe(spec, health, contract) ==
  IF ~spec.configured THEN Status(FALSE, FALSE, "not_configured", "unknown", Null, "agent_not_configured")
  ELSE IF health = "timeout" THEN Unavailable("agent_health_timeout")
  ELSE IF health \in {"no_connection", "raises"} THEN Unavailable("agent_unreachable")
  ELSE IF health \in Refused \union {"bad", "no_json"} THEN Unavailable("agent_health_invalid")
  ELSE IF contract = "raises" THEN Unavailable("agent_unreachable")
  ELSE ContractVerdict(spec, contract)

\* The checker's cache.  A call of collect looks at it when it begins, probes what is
\* pending while other calls run, and writes when its slowest probe has ended.  u.calls has
\* the calls in the order of their writes, each with the number of writes it has seen;
\* u.caches[n] is the cache after n of them.  An answer is dated by its probe (at).
PendingUnexpired(cache, c) == {a \in DOMAIN c.probed : c.refresh \/ a \notin DOMAIN cache}   \* mutant
PendingProbes(cache, c) ==
  {a \in DOMAIN c.probed : c.refresh \/ a \notin DOMAIN cache \/ cache[a].expires <= c.began}
Collected(cache, c) ==
  [a \in DOMAIN c.probed |-> IF a \in PendingProbes(cache, c) THEN c.probed[a] ELSE cache[a].status]
Written(cache, pending, c, seconds) ==
  IF seconds = 0 THEN cache
  ELSE [a \in DOMAIN cache \union pending |->
         IF a \in pending THEN [status |-> c.probed[a], expires |-> c.ended + seconds] ELSE cache[a]]
Seen(u, n) == u.caches[u.calls[n].seen]
ProbedBy(u, n) == PendingProbes(Seen(u, n), u.calls[n])
CachesOf(u) ==
  /\ DOMAIN u.caches = 0..Len(u.calls) /\ u.caches[0] = << >>
  /\ \A n \in DOMAIN u.calls : u.caches[n] = Written(u.caches[n - 1], ProbedBy(u, n), u.calls[n], u.seconds)

-----------------------------------------------------------------------------
(***************************************************************************)
(* From an agent's result to the platform's verdict on it.                 *)
(***************************************************************************)
\* The contract of a batch of findings, each of a cluster, a tier and a confidence.
BatchValid(b) ==
  /\ b.count = Len(b.threats) /\ b.total >= 0
  /\ \A t \in ToSet(b.threats) : t.tier \in 1..3 /\ t.confidence \in 0..100
  /\ b.threats # << >> => b.total >= Cardinality({t.cluster : t \in ToSet(b.threats)})

\* forward_to_aquapulse_platform: nothing is sent of a batch without a finding.
Clusters(threats) == {t.cluster : t \in ToSet(threats)}
Forwarded(raw) ==
  IF raw.threats = << >> THEN {}
  ELSE {[count |-> Len(raw.threats), threats |-> raw.threats,
         total |-> Max({IF raw.total = Null THEN 1 ELSE raw.total, Cardinality(Clusters(raw.threats))})]}

\* The response agent's result as its adapter writes it.
Actuation(entry) ==
  CASE entry.decision = "AUTONOMOUS_ISOLATE" /\ entry.confirmed -> "valve_isolated_confirmed"
    [] entry.decision = "AUTONOMOUS_ISOLATE" /\ ~entry.confirmed /\ entry.sent -> "valve_isolation_attempted_unconfirmed"
    [] OTHER -> "not_executed"
ToResponseResult(entry) ==
  [decision |-> entry.decision, sent |-> entry.sent, confirmed |-> entry.confirmed, tier |-> entry.tier,
   audit |-> Actuation(entry), granted |-> entry.grant # Null, denied |-> entry.denied # Null]
Reported(result) == result.sent \/ result.confirmed
EvaluateSafety(result) ==
  IF result.decision = "AUTONOMOUS_ISOLATE" \/ Reported(result)
  THEN IF Reported(result) THEN "unverified" ELSE "blocked"
  ELSE "advisory"

\* The mock's recommendation is never one of a valve.
MockRecommendation(tier) == [decision |-> "ALERT_AND_AWAIT", sent |-> FALSE, confirmed |-> FALSE, tier |-> tier]

\* publish_to_platform: an accepted result has no "valid", so that its trace tells an error.
PublishTrace(body) == IF body = Null THEN "failed" ELSE IF body = "valid" THEN "validated" ELSE "errors"

-----------------------------------------------------------------------------
(***************************************************************************)
(* Properties of one input.                                                *)
(***************************************************************************)
\* An agent the contract check calls compatible is one whose same answer the platform's
\* own client accepts: the two read schema_version and a bare batch each in its own way.
CompatibleIsAccepted(i) == Compatible(i) => RemoteAnswer(i.agent, <<i.fixture>>, 0) = "accepted"

\* An agent is told reachable only if a check found it healthy and since then no request
\* came from a process with the agent disabled and no check got another answer.  A check
\* that raised changes nothing: the row goes on saying what the last answer was.
ReachableByCheck(h) ==
  \A n \in DOMAIN h.rows :
    ToldReachable(h.rows[n]) =>
      \E k \in 1..n :
        /\ h.requests[k].checks /\ ClientHealth(h.requests[k].settings, h.requests[k].reply) = "healthy"
        /\ \A j \in (k + 1)..n :
             /\ Enabled(h.requests[j].settings)
             /\ h.requests[j].checks =>
                  ClientHealth(h.requests[j].settings, h.requests[j].reply) \in {"healthy", "raises"}

\* What a list shows opens by its identifier, and no mock's run is among it.
ListedOpens(i) ==
  /\ \A r \in ListRuns(i.rows, i.limit) : GetRun(i.rows, r.id) = {r}
  /\ \A r \in ListFindings(i.rows, i.limit) : GetFinding(i.rows, r.id) = {r}

\* What the forwarder sends always passes the contract, and a batch without findings is not sent.
ForwardedIsValid(raw) == /\ \A b \in Forwarded(raw) : BatchValid(b)
                         /\ Forwarded(raw) = {} <=> raw.threats = << >>

\* The platform's verdict and the agent's own audit agree on the valve: a command that
\* left is unverified whatever came of it, a decision without one is blocked.
SafetyTellsTheValve(entry) ==
  LET result == ToResponseResult(entry) safety == EvaluateSafety(result)
  IN /\ safety = "unverified" <=> result.audit # "not_executed"
     /\ safety = "blocked" <=> (entry.decision = "AUTONOMOUS_ISOLATE" /\ ~entry.sent)
     /\ EvaluateSafety(MockRecommendation(entry.tier)) = "advisory"

\* An agent is compatible only if its health and its contract answered well and name the
\* expected version, and it is one that claims it; an agent not reachable tells why.
ProbeIsCautious(i) ==
  LET s == Probe(i.spec, i.health, i.contract) IN
  /\ s.contract = "compatible" => i.spec.claims /\ i.contract = i.spec.expected /\ i.health = "ok"
  /\ s.reachable => i.spec.configured /\ i.health = "ok" /\ i.contract # "raises"
  /\ ~s.reachable => s.error # Null /\ s.contract \notin {"compatible", "incompatible"}

\* A status answered from the cache is the one that was written last before the call began,
\* less than the configured seconds before.  So its age, counted from its probe, is less
\* than those seconds and the length of the call that probed it together: a slow call may
\* write last what is older than another's answer, and only for that long.
CacheIsFresh(u) ==
  \A n \in DOMAIN u.calls : LET c == u.calls[n] IN
    \A a \in DOMAIN c.probed \ ProbedBy(u, n) :
      \E k \in 1..c.seen : LET w == u.calls[k] IN
        /\ Collected(Seen(u, n), c)[a] = w.probed[a] /\ c.began - w.ended < u.seconds
        /\ c.began - w.probed[a].at < u.seconds + (w.ended - w.began)
        /\ a \in ProbedBy(u, k) /\ \A j \in (k + 1)..c.seen : a \notin ProbedBy(u, j)

-----------------------------------------------------------------------------
(* The inputs tried: contract checks, an agent's requests, lists, batches, results, probes and caches. *)
CONSTANTS ContractChecks, AgentHistories, RunLists, RawBatches, AuditEntries, Probes, CacheUses

ErrorCodes == {"agent_not_configured", "agent_health_timeout", "agent_unreachable", "agent_health_invalid"}
ASSUME ErrorCodesAssumption == Null \notin ErrorCodes
ASSUME ContractChecksAssumption == \A i \in ContractChecks : i.agent \in {"investigation", "response"}
ASSUME AgentHistoriesAssumption ==
  \A h \in AgentHistories : h.requests \in Seq([settings : [integration : BOOLEAN, agent : BOOLEAN, mode : STRING, url : BOOLEAN],
                                                checks : BOOLEAN, reply : [status : STRING]])
                           /\ RowsOf(h.requests, h.rows)
\* A run's identifier is its primary key.
ASSUME RunListsAssumption == \A i \in RunLists : \A r, o \in i.rows : r.id = o.id => r = o
\* The agent counts tiers and confidences as the contract does; the batch's total may be missing.
ASSUME RawBatchesAssumption ==
  \A b \in RawBatches : /\ b.threats \in Seq([cluster : STRING, tier : 1..3, confidence : 0..100])
                        /\ b.total \in Int \union {Null}
\* The agent sends a command only of an isolation it decided, and confirms none it did not send.
ASSUME AuditEntriesAssumption ==
  \A e \in AuditEntries : /\ e.sent \in BOOLEAN /\ e.confirmed \in BOOLEAN
                          /\ e.sent <=> e.decision = "AUTONOMOUS_ISOLATE"
                          /\ e.confirmed => e.sent
ASSUME ProbesAssumption ==
  \A i \in Probes : /\ i.spec.configured \in BOOLEAN /\ i.spec.claims \in BOOLEAN
                    /\ i.health \in {"ok", "bad", "no_json", "404", "error", "timeout", "no_connection", "raises"}
                    /\ i.contract \in {"ok", "bad", "no_json", "404", "error", "timeout", "no_connection", "raises", "1.0", "2.0"}
ASSUME CacheUsesAssumption ==
  \A u \in CacheUses :
    /\ u.seconds \in Nat /\ CachesOf(u)
    /\ u.calls \in Seq([began : Nat, ended : Nat, seen : Nat, refresh : BOOLEAN,
                        probed : [{"investigation", "response", "network"} -> [health : STRING, at : Nat]]])
    /\ \A n \in DOMAIN u.calls : LET c == u.calls[n] IN
         /\ c.seen < n /\ c.began <= c.ended
         /\ \A a \in DOMAIN c.probed : c.began <= c.probed[a].at /\ c.probed[a].at <= c.ended
         /\ \A k \in 1..(n - 1) : /\ u.calls[k].ended <= c.ended
                                  /\ IF k <= c.seen THEN u.calls[k].ended <= c.began ELSE c.began <= u.calls[k].ended

TryContract == Try("contract", ContractChecks)
TryHealth   == Try("health", AgentHistories)
TryLists    == Try("lists", RunLists)
TryForward  == Try("forward", RawBatches)
TryEntry    == Try("entry", AuditEntries)
TryProbe    == Try("probe", Probes)
TryCache    == Try("cache", CacheUses)
ContractsSpec == Untried /\ [][TryContract \/ TryHealth \/ TryLists \/ TryForward \/ TryEntry \/ TryProbe \/ TryCache]_trial

\* What the platform tells of the agents (app/integrations): healthy, compatible and
\* reachable only by their own answers, as fresh as the cache's time, listed as they open;
\* what they send it passes the contract, and its verdict on a valve is their own.
AgentsToldTrue ==
  /\ For("contract", CompatibleIsAccepted(input))
  /\ For("health", ReachableByCheck(input))
  /\ For("lists", ListedOpens(input))
  /\ For("forward", ForwardedIsValid(input))
  /\ For("entry", SafetyTellsTheValve(input))
  /\ For("probe", ProbeIsCautious(input))
  /\ For("cache", CacheIsFresh(input))
=============================================================================
