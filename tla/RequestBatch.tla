----------------------------- MODULE RequestBatch -----------------------------
(***************************************************************************)
(* The network agent's treatment of one message of the channel aia:results *)
(* (agents/network_agent/runner.py, graph.py, nodes/): the threats worth a *)
(* request are cut to a batch, ranked, grouped by cluster and given to the *)
(* language model, whose tool calls are answered here and whose decisions  *)
(* each start a run of the Response Agent.                                 *)
(*                                                                         *)
(* A threat is [id, cluster, tier, degraded, criticality, confidence], with *)
(* Null for a key that is missing.  What the model calls, and what the      *)
(* operator answers, are inputs: nothing in the code binds the model to its *)
(* instructions.                                                           *)
(***************************************************************************)
EXTENDS NullValue, Integers, Sequences, FiniteSets, FiniteSetsExt, Functions, Trials

VALID_DESERT_CLUSTERS == {"042", "043", "044", "045", "046"}
Or0(x) == IF x = Null THEN 0 ELSE x

\* An unknown cluster becomes 046.
SanitizeThreat(t) == [t EXCEPT !.cluster = IF @ \in VALID_DESERT_CLUSTERS THEN @ ELSE "046"]
Actionable(t) == (t.tier # Null /\ t.tier >= 2) \/ t.degraded

\* The members of a set in the order of R, the set of pairs <<earlier, later>>.
SortedBy(S, R) == [k \in 1..Cardinality(S) |-> CHOOSE x \in S : Cardinality({y \in S : <<y, x>> \in R}) = k - 1]
\* The members of a sequence at some positions, in the order they come.
Earlier(S)  == {p \in S \X S : p[1] < p[2]}
Taken(s, S) == LET order == SortedBy(S, Earlier(S)) IN [k \in DOMAIN order |-> s[order[k]]]

-----------------------------------------------------------------------------
(***************************************************************************)
(* From the threats to the prompt.                                         *)
(***************************************************************************)
\* The first max requests, in the order they came; the others are dropped with the collector.
CollectNode(requests, max) == SubSeq(requests, 1, Min({max, Len(requests)}))

RankKey(t) == <<Or0(t.tier), Or0(t.criticality), t.confidence>>
MoreUrgent(s, t) ==
  LET a == RankKey(s) b == RankKey(t) IN
  \E i \in 1..3 : a[i] > b[i] /\ \A j \in 1..(i - 1) : a[j] = b[j]
Ahead(requests, i, j) ==
  MoreUrgent(requests[i], requests[j]) \/ (~MoreUrgent(requests[j], requests[i]) /\ i < j)
RankRequests(requests) ==
  LET places == DOMAIN requests
      order  == SortedBy(places, {p \in places \X places : Ahead(requests, p[1], p[2])})
  IN [k \in places |-> requests[order[k]]]

\* Zones in the order of their first request, which represents them.
OfZone(requests, z) == {k \in DOMAIN requests : requests[k].cluster = z}
Group(requests, z) ==
  LET rs == Taken(requests, OfZone(requests, z)) IN [zone |-> z, device |-> rs[1].cluster, requests |-> rs]
GroupRequestsUnranked(requests) ==                \* mutant: the last zone first
  LET zones == {requests[k].cluster : k \in DOMAIN requests}
      order == SortedBy(zones, {p \in zones \X zones : Min(OfZone(requests, p[1])) > Min(OfZone(requests, p[2]))})
  IN [k \in DOMAIN order |-> Group(requests, order[k])]
GroupRequests(requests) ==
  LET zones == {requests[k].cluster : k \in DOMAIN requests}
      order == SortedBy(zones, {p \in zones \X zones : Min(OfZone(requests, p[1])) < Min(OfZone(requests, p[2]))})
  IN [k \in DOMAIN order |-> Group(requests, order[k])]

Batches(threats, max) ==
  LET sane == [k \in DOMAIN threats |-> SanitizeThreat(threats[k])]
  IN GroupRequests(RankRequests(CollectNode(Taken(sane, {k \in DOMAIN sane : Actionable(sane[k])}), max)))

-----------------------------------------------------------------------------
(***************************************************************************)
(* The tools.  A session or an attachment the operator made stays until    *)
(* something deletes it; the model has no tool for that.  made is what the *)
(* operator made of a call, told or not: "lost" is a reply that never came *)
(* to a request that was carried out.                                      *)
(***************************************************************************)
TERMINAL_QOD == {"AVAILABLE", "UNAVAILABLE", "FAILED"}
\* One poll every two seconds, none where the model asks for no wait.  A terminal status
\* stays, and a poll that fails changes nothing.
PollQod(first, polls) ==
  LET after[k \in 0..Len(polls)] ==
        IF k = 0 THEN first
        ELSE IF after[k - 1] \in TERMINAL_QOD \/ polls[k] = "raises" THEN after[k - 1] ELSE polls[k]
  IN IF first = "REQUESTED" THEN after[Len(polls)] ELSE first
\* A device that is no desert cluster and no number raises out of the tool.
Recognized(device) == device # "unknown"
\* create_session is refused, lost, answered without an id (the session may be there) or with a first status.
RequestQod(device, create, polls) ==
  IF ~Recognized(device) THEN [status |-> "raised", session |-> FALSE, made |-> FALSE]
  ELSE IF create \in {"refused", "lost", "no_id"} THEN [status |-> "FAILED", session |-> FALSE, made |-> create # "refused"]
  ELSE [status |-> PollQod(create, polls), session |-> TRUE, made |-> TRUE]

\* Each device is attached by itself and the call is COMPLETED whatever came of them; but an
\* imsi that is no number raises out of the tool, after the devices before it.
Unreadable(attachments) == {b \in DOMAIN attachments : attachments[b] = "no_number"}
Called(attachments)     == {d \in DOMAIN attachments : \A b \in Unreadable(attachments) : d < b}
Told(attachments)       == IF Unreadable(attachments) = {} THEN DOMAIN attachments ELSE {}
RequestNetworkSlice(attachments) ==
  [status  |-> IF Unreadable(attachments) = {} THEN "COMPLETED" ELSE "raised",
   devices |-> [d \in Told(attachments) |-> IF attachments[d] = "ok" THEN "ATTACHED" ELSE "FAILED"],
   made    |-> {d \in Called(attachments) : attachments[d] \in {"ok", "lost"}}]

\* A congestion that cannot be read is told as LOW.
CheckCongestion(reply) == IF reply = "raises" THEN "LOW" ELSE IF reply = "no_data" THEN "None" ELSE reply

-----------------------------------------------------------------------------
(***************************************************************************)
(* From the model's messages to runs of the Response Agent.  A message is  *)
(* [tool, text, incident, tier, device]: text is "json", what is not, or   *)
(* "raises" for a call whose error is not made a message: the library's    *)
(* choice, and an error of the language model itself ends the same way.    *)
(***************************************************************************)
DISPATCHABLE == {"emit_grant", "emit_deny"}
Emitted(messages) == Taken(messages, {k \in DOMAIN messages : messages[k].tool \in DISPATCHABLE /\ messages[k].text = "json"})
\* A tier that is no number, or none of the three, is logged and the decision dropped.
ValidTier(tier) == tier \in {1, 2, 3}
RunOf(m) == [incident |-> m.incident, grant |-> m.tool = "emit_grant", tier |-> m.tier,
             device |-> IF m.device = Null THEN "unknown-device" ELSE m.device]
DispatchNode(messages) ==
  LET emitted == Emitted(messages)
      sent    == Taken(emitted, {k \in DOMAIN emitted : ValidTier(emitted[k].tier)})
  IN [k \in DOMAIN sent |-> RunOf(sent[k])]

\* process_threats: an error anywhere in the graph is logged and nothing is dispatched, the
\* decisions emitted before it neither.
Raised(messages) == \E k \in DOMAIN messages : messages[k].text = "raises"
ProcessThreats(threats, max, messages) ==
  IF Batches(threats, max) = << >> \/ Raised(messages) THEN << >> ELSE DispatchNode(messages)

-----------------------------------------------------------------------------
(***************************************************************************)
(* The slice prepared at startup.  states is what each poll reads, "raises" *)
(* a poll that fails; activate is how each call of activate ends.          *)
(***************************************************************************)
GONE == {"NOT_FOUND", "DELETED", "FAILED", "REJECTED"}
AfterActivate(called, outcome) == called \/ outcome = "ok"
\* One poll: it stops at an answer that is final, and asks for the activation until one
\* such call succeeds.
AfterPoll(s, state, activate) ==
  IF ~s.waiting THEN s
  ELSE IF state = "OPERATING" THEN [s EXCEPT !.waiting = FALSE, !.slice = "ready"]
  ELSE IF state \in {"FAILED", "REJECTED", "DELETED"} THEN [s EXCEPT !.waiting = FALSE]
  ELSE IF state = "AVAILABLE" /\ ~s.called
       THEN [s EXCEPT !.called = AfterActivate(FALSE, activate[s.calls + 1]), !.calls = @ + 1]
  ELSE s
Unpolled == [waiting |-> TRUE, slice |-> Null, called |-> FALSE, calls |-> 0]
Provision(existing, create, states, activate) ==
  LET after[k \in 0..Len(states)] == IF k = 0 THEN Unpolled ELSE AfterPoll(after[k - 1], states[k], activate)
  IN IF existing \in GONE \union {"raises"} /\ create = "raises" THEN Unpolled ELSE after[Len(states)]
\* Without a slice the variable is set to nothing, which is not its default.
SliceToAttach(asked, provisioned) == IF asked # Null THEN asked ELSE IF provisioned = Null THEN "" ELSE provisioned

-----------------------------------------------------------------------------
(***************************************************************************)
(* Predicates of the runs.                                                 *)
(***************************************************************************)
GroupsRanked(i) ==
  LET groups == Batches(i.threats, i.max)
      worth == {k \in DOMAIN i.threats : Actionable(i.threats[k])}
      asked == UNION {Range(groups[g].requests) : g \in DOMAIN groups} IN
  /\ \A g \in DOMAIN groups : LET rs == groups[g].requests IN
       /\ \A k \in DOMAIN rs : rs[k].cluster = groups[g].zone /\ groups[g].device = rs[1].cluster
       /\ \A k, l \in DOMAIN rs : k < l => ~MoreUrgent(rs[l], rs[k])
       /\ \A h \in DOMAIN groups : g < h => ~MoreUrgent(groups[h].requests[1], rs[1])
  /\ {t.id : t \in asked} = {i.threats[k].id : k \in {x \in worth : Cardinality({y \in worth : y <= x}) <= i.max}}
\* An allocation that is told was made, and one that was made is told but for a lost reply, a
\* reply without its id, and the devices attached before one whose imsi is no number.
AllocationsTold(i) ==
  LET qod   == RequestQod(i.device, i.create, i.polls)
      slice == RequestNetworkSlice(i.attachments)
      told  == {d \in DOMAIN slice.devices : slice.devices[d] = "ATTACHED"}
  IN
  /\ qod.session => qod.made
  /\ qod.made /\ ~qod.session => i.create \in {"lost", "no_id"}
  /\ qod.status = "AVAILABLE" => "AVAILABLE" \in {i.create} \union Range(i.polls)
  /\ i.create = "REQUESTED" /\ i.polls # << >> /\ i.polls[1] \in TERMINAL_QOD /\ qod.made => qod.status = i.polls[1]
  /\ told \subseteq slice.made
  /\ \A d \in slice.made \ told : \/ i.attachments[d] = "lost"
                                 \/ \E b \in Unreadable(i.attachments) : d < b
  /\ i.congestion # "HIGH" => CheckCongestion(i.congestion) # "HIGH"
\* Whatever else the model called, each decision it told well started one run, in its order;
\* unless an error ended the graph, and then none of the message's decisions did.
DispatchedOnce(i) ==
  LET runs == ProcessThreats(i.threats, i.max, i.messages)
      well == {k \in DOMAIN i.messages : LET m == i.messages[k] IN
                 m.tool \in DISPATCHABLE /\ m.text = "json" /\ ValidTier(m.tier)} IN
  /\ Len(runs) = IF Batches(i.threats, i.max) = << >> \/ Raised(i.messages) THEN 0 ELSE Cardinality(well)
  /\ \A k \in DOMAIN runs : \E j \in well :
       /\ Cardinality({x \in well : x <= j}) = k
       /\ runs[k].incident = i.messages[j].incident
       /\ runs[k].grant <=> i.messages[j].tool = "emit_grant"
\* A slice is used only when the operator said it operates; a failed activation is tried again.
SliceToldTrue(i) ==
  LET p == Provision(i.existing, i.create, i.states, i.activate) IN
  /\ SliceToAttach(Null, p.slice) # "" => "OPERATING" \in Range(i.states)
  /\ \A k \in 1..(p.calls - 1) : i.activate[k] # "ok"
  /\ (\A k \in DOMAIN i.states : i.states[k] = "AVAILABLE") /\ ~(i.existing \in GONE \union {"raises"} /\ i.create = "raises") =>
       p.calls = Min({k \in DOMAIN i.activate : i.activate[k] = "ok"} \union {Len(i.states)})

-----------------------------------------------------------------------------
(* Messages, tool calls, decisions and starts, each tried by itself.  A threat's numbers are *)
(* numbers where its keys are there.                                        *)
CONSTANTS ThreatBatches, ToolCalls, Dispatches, Startups

ThreatsGiven(threats) ==
  /\ threats \in Seq(Range(threats))
  /\ \A k \in DOMAIN threats : /\ DOMAIN threats[k] = {"id", "cluster", "tier", "degraded", "criticality", "confidence"}
                               /\ threats[k].tier \in Int \union {Null}
                               /\ threats[k].criticality \in Int \union {Null}
                               /\ threats[k].confidence \in Int

ASSUME BatchAssumption ==
  /\ \A i \in ThreatBatches : i.max \in Nat /\ ThreatsGiven(i.threats)
  /\ \A i \in ToolCalls : /\ i.polls \in Seq(Range(i.polls))
                          /\ i.attachments \in Seq({"ok", "refused", "lost", "no_number"})
  /\ \A i \in Dispatches : i.messages \in Seq(Range(i.messages))
  /\ \A i \in Startups : /\ i.states \in Seq(Range(i.states))
                         /\ DOMAIN i.activate \subseteq Nat \ {0}
                         /\ 1..Len(i.states) \subseteq DOMAIN i.activate

TryBatch    == Try("batch", ThreatBatches)
TryTools    == Try("tools", ToolCalls)
TryDispatch == Try("dispatch", Dispatches)
TrySlice    == Try("startup", Startups)
BatchSpec   == Untried /\ [][TryBatch \/ TryTools \/ TryDispatch \/ TrySlice]_trial

\* Of the first threats worth a request each is asked for once, by cluster, the most urgent first (graph.py).
RankedBatch == For("batch", GroupsRanked(input))
\* What the operator made is told, and a session as available only if a poll said so, but for lost replies
\* and a device whose imsi is no number (camara_api.py, request_slicing.py, request_qod.py).
SessionTold == For("tools", AllocationsTold(input))
\* Every decision told well starts one response, whatever came of the others; after an error none does
\* (dispatch_to_response.py, runner.py).
DecisionsRun == For("dispatch", DispatchedOnce(input))
\* The slice of the start is one that operates, and an activation that failed is tried again (runner.py).
SlicePrepared == For("startup", SliceToldTrue(input))

\* From a message to the response agent's runs (agents/network_agent): ranked, told true,
\* each decision heard.
BatchesHeard == RankedBatch /\ SessionTold /\ DecisionsRun /\ SlicePrepared
==============================================================================
