-------------------------------- MODULE Ingest --------------------------------
(***************************************************************************)
(* Results of the agents and readings of the simulator as they reach the   *)
(* platform (plateform/backend/app/services/integrations.py, telemetry.py, *)
(* integrations/identity.py).  Every request is a thread with one          *)
(* transaction; a step ends where another transaction may commit.          *)
(*                                                                         *)
(* A run takes one more than the highest committed number.  The number is  *)
(* unique: a flush waits for a transaction that holds the same one.  The   *)
(* idempotency key is only looked up, the items of a result (its anomalies *)
(* or its result_id) are looked up and unique.  Nobody sends a refused     *)
(* result again: both agents log the error and go on.                      *)
(***************************************************************************)
EXTENDS Integers, Sequences, FiniteSets, FiniteSetsExt, SequencesExt

CONSTANTS
  Deliveries, \* how many there are, numbered as they arrive
  Payloads,   \* what may be delivered: records of kind, key, items, mode and time
  Files,      \* files of identity mappings: the names each maps (on) and disables (off)
  Known,      \* the names mapped before
  Imports     \* bound: runs of the import

\* The external names a result carries, of which the platform may know some, and those of
\* them that its finding or recommendation has a column for: the cluster of a response has
\* none.  A finding's cluster, segment and valve stand and fall together here; its
\* detection, which once known is never forgotten, is left out.
NamesOf(kind) == CASE kind = "investigation" -> {"finding"}
                   [] kind = "response"      -> {"device", "incident", "cluster"}
                   [] OTHER                  -> {}
ColumnsOf(kind) == NamesOf(kind) \ {"cluster"}
Names == {"finding", "device", "incident", "cluster"}

ASSUME IngestAssumption ==
  /\ Deliveries \in Nat /\ Imports \in Nat /\ Known \subseteq Names /\ Files \subseteq [on : SUBSET Names, off : SUBSET Names]
  /\ \A p \in Payloads : /\ p.kind \in {"investigation", "response", "reading"}
                         /\ p.mode \in {"simulated", "mock_agent_data"} /\ p.at \in Nat
                         /\ p.kind # "investigation" => Cardinality(p.items) = 1

VARIABLES
  runs,      \* committed runs, with what they stored
  readings,  \* committed readings of the sensor
  lastSeen,  \* the sensor's last_seen_at
  mapped,    \* names with a committed mapping
  requests,  \* each delivery's thread
  importer   \* the import's transaction

vars == <<runs, readings, lastSeen, mapped, requests, importer>>

Requests == 1..Deliveries
Nothing == [kind |-> "none", key |-> "", items |-> {}, mode |-> "simulated", at |-> 0]
Idle == [pc |-> "idle", payload |-> Nothing, first |-> FALSE, number |-> 0, known |-> {}, seen |-> 0, base |-> 0, told |-> 0]

Items == UNION {p.items : p \in Payloads}
Keys  == {p.key : p \in Payloads}
Run   == [number : Nat, key : Keys, kind : {"investigation", "response"}, items : SUBSET Items,
          known : SUBSET Names, warnings : SUBSET Names, mode : {"simulated", "mock_agent_data"}]

\* An answer is accepted (created or duplicates), 409, 404, or an error (500).
Answers == {"created", "duplicates", "conflict", "not_found", "error", "inserted", "duplicate"}
TypeOK ==
  /\ runs \subseteq Run /\ \A x, y \in runs : x.number = y.number => x = y
  /\ mapped \subseteq Names /\ lastSeen \in Nat
  /\ \A r \in readings : r.message \in Keys /\ r.at \in Nat
  /\ \A r \in Requests : /\ requests[r].pc \in {"idle", "look", "check", "number", "flush", "resolve", "commit", "insert"} \union Answers
                         /\ requests[r].payload \in Payloads \union {Nothing}
  /\ \A r, o \in Requests : requests[r].pc \in {"resolve", "commit"} /\ requests[o].pc \in {"resolve", "commit"}
                              /\ requests[r].number = requests[o].number => r = o
  /\ importer.left \in 0..Imports

OfKey(k)    == {x \in runs : x.key = k}
Stored(i)   == \E x \in runs : i \in x.items
HighestOne  == Max({0} \union {x.number : x \in runs})

Init ==
  /\ runs = {} /\ readings = {} /\ lastSeen = 0 /\ mapped = Known
  /\ requests = [r \in Requests |-> Idle]
  /\ importer = [left |-> Imports, read |-> FALSE, seen |-> {}, on |-> {}, off |-> {}]

Goto(r, pc) == requests' = [requests EXCEPT ![r].pc = pc]
\* The thread ends with its answer; only an error keeps what it began from.
End(r, answer, told) ==
  requests' = [requests EXCEPT ![r] = [Idle EXCEPT !.pc = answer, !.payload = requests[r].payload, !.told = told,
                                                   !.base = IF answer = "error" THEN requests[r].base ELSE 0]]
Agents == {"investigation", "response"}
Arrives(r) == requests[r].pc = "idle" /\ \A o \in 1..(r - 1) : requests[o].pc # "idle"
AtAgent(r, pc) == requests[r].pc = pc /\ requests[r].payload.kind \in Agents
KeepData == UNCHANGED <<runs, readings, lastSeen, mapped, importer>>

-----------------------------------------------------------------------------
(***************************************************************************)
(* accept_investigation_result, accept_response_result: the first lookup   *)
(* decides what is counted, the second what is done.                       *)
(***************************************************************************)
Accept(r, p) ==
  /\ Arrives(r) /\ p.kind \in Agents
  /\ requests' = [requests EXCEPT ![r] = [Idle EXCEPT !.pc = "look", !.payload = p, !.first = OfKey(p.key) # {},
                                                      !.base = HighestOne]]
  /\ KeepData

\* get_run tells a run of the mock mode as not found.
Told(x, first) == IF x.mode = "mock_agent_data" THEN "not_found" ELSE IF first THEN "duplicates" ELSE "created"

\* The oldest run of the key.
Oldest(xs) == CHOOSE x \in xs : \A y \in xs : x.number <= y.number

Look(r) ==
  LET w == requests[r]
      known == OfKey(w.payload.key) IN
  /\ AtAgent(r, "look")
  /\ IF known = {} THEN Goto(r, "check")
     ELSE End(r, Told(Oldest(known), w.first), Oldest(known).number)
  /\ KeepData

\* get_finding_by_anomaly, get_recommendation_by_result.
Check(r) ==
  /\ AtAgent(r, "check")
  /\ IF \E i \in requests[r].payload.items : Stored(i) THEN End(r, "conflict", 0) ELSE Goto(r, "number")
  /\ KeepData

NextNumber(r) == HighestOne + 1
Number(r) ==
  /\ AtAgent(r, "number")
  /\ requests' = [requests EXCEPT ![r].pc = "flush", ![r].number = NextNumber(r)]
  /\ KeepData

HeldByAny(n) == \E o \in Requests : requests[o].number = n   \* mutant: held before the flush too
Held(n) == \E o \in Requests : requests[o].pc \in {"resolve", "commit"} /\ requests[o].number = n
Taken(n) == \E x \in runs : x.number = n

\* The flush of the run stands outside of what catches a conflict.
Flush(r) ==
  /\ AtAgent(r, "flush") /\ ~Held(requests[r].number)
  /\ IF Taken(requests[r].number) THEN End(r, "error", 0) ELSE Goto(r, "resolve")
  /\ KeepData

Resolve(r) ==
  /\ AtAgent(r, "resolve")
  /\ requests' = [requests EXCEPT ![r].pc = "commit", ![r].known = NamesOf(requests[r].payload.kind) \intersect mapped]
  /\ KeepData

RunOf(w) == [number |-> w.number, key |-> w.payload.key, kind |-> w.payload.kind, items |-> w.payload.items,
             known |-> w.known \intersect ColumnsOf(w.payload.kind), warnings |-> NamesOf(w.payload.kind) \ w.known, mode |-> w.payload.mode]

Clashed(w) == IF w.payload.kind = "response" THEN "conflict" ELSE "error"

\* Only the response path tells a broken constraint as a conflict; a clash stores nothing.
CommitHalf(r) ==     \* mutant: the run stays where an item clashes
  LET w == requests[r]
      clash == \E i \in w.payload.items : Stored(i) IN
  /\ AtAgent(r, "commit")
  /\ runs' = runs \union {[RunOf(w) EXCEPT !.items = {i \in @ : ~Stored(i)}]}
  /\ End(r, IF clash THEN Clashed(w) ELSE Told(RunOf(w), w.first), w.number)
  /\ UNCHANGED <<readings, lastSeen, mapped, importer>>
CommitSwallowing(r) ==  \* mutant: a clash is told as accepted
  LET w == requests[r]
      clash == \E i \in w.payload.items : Stored(i) IN
  /\ AtAgent(r, "commit")
  /\ runs' = IF clash THEN runs ELSE runs \union {RunOf(w)}
  /\ End(r, Told(RunOf(w), w.first), w.number)
  /\ UNCHANGED <<readings, lastSeen, mapped, importer>>
Commit(r) ==
  LET w == requests[r]
      clash == \E i \in w.payload.items : Stored(i) IN
  /\ AtAgent(r, "commit")
  /\ IF clash THEN UNCHANGED runs ELSE runs' = runs \union {RunOf(w)}
  /\ End(r, IF clash THEN Clashed(w) ELSE Told(RunOf(w), w.first), w.number)
  /\ UNCHANGED <<readings, lastSeen, mapped, importer>>

-----------------------------------------------------------------------------
(***************************************************************************)
(* TelemetryService.ingest of one sensor.  A message's name holds its time *)
(* (telemetry_patterns.py); the row's key is its sensor and time.          *)
(***************************************************************************)
OfMessage(k) == {x \in readings : x.message = k}
Receive(r, p) ==
  /\ Arrives(r) /\ p.kind = "reading"
  /\ requests' = [requests EXCEPT ![r] = [Idle EXCEPT !.payload = p, !.seen = lastSeen,
                     !.pc = IF OfMessage(p.key) # {} THEN "duplicate" ELSE "insert"]]
  /\ KeepData

\* A broken constraint is a duplicate only where the message is found.
AfterClash(k) == IF OfMessage(k) # {} THEN "duplicate" ELSE "error"

\* The sensor's row is written only where its time changes from what was loaded.
Insert(r) ==
  LET w == requests[r]
      clash == \E x \in readings : x.at = w.payload.at IN
  /\ w.pc = "insert"
  /\ IF clash THEN End(r, AfterClash(w.payload.key), 0) /\ UNCHANGED <<readings, lastSeen>>
     ELSE /\ readings' = readings \union {[message |-> w.payload.key, at |-> w.payload.at]}
          /\ lastSeen' = IF w.seen = w.payload.at THEN lastSeen ELSE w.payload.at
          /\ End(r, "inserted", 0)
  /\ UNCHANGED <<runs, mapped, importer>>

-----------------------------------------------------------------------------
(***************************************************************************)
(* import_mappings: upsert, then apply_stored_mappings to what it reads,   *)
(* in one transaction.                                                     *)
(***************************************************************************)
ImportRead(file) ==
  /\ importer.left > 0 /\ ~importer.read
  /\ importer' = [importer EXCEPT !.left = @ - 1, !.read = TRUE, !.seen = {x.number : x \in runs}, !.on = file.on, !.off = file.off]
  /\ UNCHANGED <<runs, readings, lastSeen, mapped, requests>>

\* Warnings are made anew for the runs of which a finding or recommendation changed in one
\* of its columns, and then of all its names.
ApplySilently(x, names) == [x EXCEPT !.known = ColumnsOf(x.kind) \intersect names]   \* mutant
Apply(x, names) == LET known == ColumnsOf(x.kind) \intersect names IN
                   IF known = x.known THEN x ELSE [x EXCEPT !.known = known, !.warnings = NamesOf(x.kind) \ names]

ImportCommit ==
  LET names == (mapped \ importer.off) \union importer.on IN
  /\ importer.read
  /\ mapped' = names
  /\ runs' = {IF x.number \in importer.seen THEN Apply(x, names) ELSE x : x \in runs}
  /\ importer' = [importer EXCEPT !.read = FALSE, !.seen = {}, !.on = {}, !.off = {}]
  /\ UNCHANGED <<readings, lastSeen, requests>>

-----------------------------------------------------------------------------
Step(r) == Look(r) \/ Check(r) \/ Number(r) \/ Flush(r) \/ Resolve(r) \/ Commit(r) \/ Insert(r)
Next ==
  \/ \E r \in Requests : Step(r) \/ \E p \in Payloads : Accept(r, p) \/ Receive(r, p)
  \/ ImportCommit \/ \E file \in Files : ImportRead(file)

\* A thread runs on; a transaction that holds a number waits for nothing.
Spec == Init /\ [][Next]_vars /\ \A r \in Requests : WF_vars(Step(r))

-----------------------------------------------------------------------------
(***************************************************************************)
(* Properties                                                              *)
(***************************************************************************)
\* Every stored run holds a whole payload, and no item is in two runs, whatever was
\* delivered at once, again, or under another result's key.
Delivered == {requests[r].payload : r \in {o \in Requests : requests[o].pc # "idle"}}
WholeResults ==
  \A x \in runs : /\ \E p \in Delivered : p.key = x.key /\ p.items = x.items /\ p.kind = x.kind
                  /\ \A y \in runs : x.items \intersect y.items # {} => x = y

\* What a delivery is told is so.  An accepted result is stored under the run it is told;
\* unless its key was another result's (the investigation agent's default batch_id is one
\* for all), of which the answer then speaks.  A refused one has met another: a conflict
\* one of its own items, an error another result that was stored since it came (the sender
\* drops it: an error is a result lost to the number of a run, not to any fault of its
\* own).  A reading is told as inserted or as a duplicate only if its message is stored.
AnsweredTrue ==
  \A r \in Requests : LET w == requests[r] IN
    /\ w.pc \in {"created", "duplicates"} =>
         \E x \in runs : /\ x.number = w.told /\ x.key = w.payload.key
                         /\ \/ x.items = w.payload.items
                            \/ \E p \in Delivered \ {w.payload} : p.key = w.payload.key /\ p.items = x.items
    /\ w.pc = "conflict" => \E i \in w.payload.items : Stored(i)
    /\ w.pc = "error" /\ w.payload.kind \in Agents => HighestOne > w.base
    /\ w.pc \in {"inserted", "duplicate"} => OfMessage(w.payload.key) # {}

\* A run's warnings are the names its finding or recommendation does not know, also after
\* mappings were imported, disabled or read before the run was stored.  The cluster of a
\* response is excepted: nothing is kept of it, an import that maps it alone changes no
\* recommendation, and the run goes on warning of it (or, disabled alone, goes on not to).
WarningsMatch == \A x \in runs : x.warnings \ {"cluster"} = ColumnsOf(x.kind) \ x.known

\* Every delivery is answered.
EveryDeliveryAnswered == \A r \in Requests : requests[r].pc # "idle" ~> requests[r].pc \in Answers
=============================================================================
