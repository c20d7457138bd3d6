---------------------------- MODULE IngestProofs ----------------------------
(***************************************************************************)
(* Proofs about Ingest for any deliveries, payloads and imports.  IInv is  *)
(* the inductive invariant:                                                *)
(*   Types     what variables and threads may be;                          *)
(*   Numbers   the runs' numbers are 1 to their number, each of one run;   *)
(*   Threads   a thread that has a number has one above all that were      *)
(*             there when it came, and a thread that holds one holds it    *)
(*             alone; where an item it checked is stored by now, a run was *)
(*             added since it came;                                        *)
(*   WholeResults, WarningsMatch and AnsweredTrue, inductive next to them. *)
(* The last part is about AgentContracts, the functions around what is     *)
(* ingested: their invariant is the property of each input.                *)
(***************************************************************************)
EXTENDS Ingest, AgentContracts, FiniteSetTheorems, SequenceTheorems, WellFoundedInduction, TLAPS

Points == {"idle", "look", "check", "number", "flush", "resolve", "commit", "insert"}
Req == [pc : Points \union Answers, payload : Payloads \union {Nothing}, first : BOOLEAN, number : Nat,
        known : SUBSET Names, seen : Nat, base : Nat, told : Nat]
Importer == [left : 0..Imports, read : BOOLEAN, seen : SUBSET Nat, on : SUBSET Names, off : SUBSET Names]

Types ==
  /\ runs \subseteq Run
  /\ mapped \subseteq Names /\ lastSeen \in Nat
  /\ \A x \in readings : x.message \in Keys /\ x.at \in Nat
  /\ requests \in [Requests -> Req]
  /\ importer \in Importer

Holding == {"resolve", "commit"}
Numbers ==
  /\ \E n \in Nat : {x.number : x \in runs} = 1..n
  /\ \A x, y \in runs : x.number = y.number => x = y

Thread(r) ==
  LET w == requests[r] IN
  /\ w.pc # "idle" => w.payload \in Payloads
  /\ w.pc \in {"look", "check", "number", "flush", "resolve", "commit"} =>
       w.payload.kind \in Agents /\ w.base <= HighestOne
  /\ w.pc = "insert" => w.payload.kind = "reading"
  /\ w.pc \in {"flush", "resolve", "commit"} => w.base < w.number /\ w.number <= HighestOne + 1
  /\ w.pc \in Holding => ~Taken(w.number)
  /\ w.pc \in {"number", "flush", "resolve", "commit"} /\ (\E i \in w.payload.items : Stored(i)) =>
       w.base < HighestOne
Alone == \A r, o \in Requests : requests[r].pc \in Holding /\ requests[o].pc \in Holding
                                  /\ requests[r].number = requests[o].number => r = o
Threads == Alone /\ \A r \in Requests : Thread(r)

IInv == Types /\ Numbers /\ Threads /\ WholeResults /\ WarningsMatch /\ AnsweredTrue

-----------------------------------------------------------------------------
(* What a thread's record may become. *)
Others(r) == requests' \in [Requests -> Req] /\ \A o \in Requests \ {r} : requests'[o] = requests[o]

\* One thread's record changes.
LEMMA One ==
  ASSUME Types, NEW r \in Requests, NEW w \in Req, requests' = [requests EXCEPT ![r] = w]
  PROVE  Others(r) /\ requests'[r] = w
  BY DEF Types, Others

\* A thread moves on with everything it has.
LEMMA GotoFact ==
  ASSUME Types, NEW r \in Requests, NEW pc \in Points, Goto(r, pc)
  PROVE  Others(r) /\ requests'[r] = [requests[r] EXCEPT !.pc = pc]
<1>1. [requests[r] EXCEPT !.pc = pc] \in Req
  BY DEF Types, Req
<1> QED
  BY <1>1, One DEF Goto

\* A record of a thread that waits or has come.
LEMMA IdleType == Idle \in Req
  BY DEF Idle, Req, Points, Answers, Names

\* A thread that ends keeps its payload, and what it began from after an error.
LEMMA EndFact ==
  ASSUME Types, NEW r \in Requests, NEW answer \in Answers, NEW told \in Nat, End(r, answer, told)
  PROVE  /\ Others(r) /\ requests'[r].pc = answer /\ requests'[r].told = told
         /\ requests'[r].payload = requests[r].payload
         /\ answer = "error" => requests'[r].base = requests[r].base
<1> DEFINE b == IF answer = "error" THEN requests[r].base ELSE 0
           w == [Idle EXCEPT !.pc = answer, !.payload = requests[r].payload, !.told = told, !.base = b]
<1>1. requests[r] \in Req /\ b \in Nat
  BY DEF Types, Req
<1>2. w \in Req /\ w.pc = answer /\ w.told = told /\ w.payload = requests[r].payload /\ w.base = b
  <2> HIDE DEF b
  <2>1. requests[r].payload \in Payloads \union {Nothing}
    BY <1>1 DEF Req
  <2> QED
    BY <1>1, <2>1, IdleType DEF Req
<1>3. requests' = [requests EXCEPT ![r] = w]
  BY DEF End
<1> HIDE DEF w
<1> QED
  BY <1>2, <1>3, One

-----------------------------------------------------------------------------
(* Numbers. *)
\* The highest of the numbers from 1 to n is n.
LEMMA HighestOf ==
  ASSUME NEW R, NEW n \in Nat, {x.number : x \in R} = 1..n
  PROVE  Max({0} \union {x.number : x \in R}) = n
<1> DEFINE S == {0} \union 1..n
<1>2. n \in S /\ \A y \in S : n >= y
  OBVIOUS
<1>3. Max(S) \in S /\ \A y \in S : Max(S) >= y
  BY <1>2 DEF Max
<1>5. n >= Max(S) /\ Max(S) >= n /\ Max(S) \in Nat
  BY <1>2, <1>3
<1> HIDE DEF S
<1>4. Max(S) = n
  BY <1>5
<1> USE DEF S
<1> QED
  BY <1>4

\* The highest number is the number of runs.
LEMMA HighestFact ==
  ASSUME Numbers
  PROVE  /\ HighestOne \in Nat /\ {x.number : x \in runs} = 1..HighestOne
         /\ \A n \in Nat : Taken(n) <=> n \in 1..HighestOne
<1>1. PICK n \in Nat : {x.number : x \in runs} = 1..n
  BY DEF Numbers
<1>5. HighestOne = n
  BY <1>1, HighestOf DEF HighestOne
<1> QED
  BY <1>1, <1>5 DEF Taken

\* The smallest of numbers.
LEMMA SmallestNat == ASSUME NEW T \in SUBSET Nat, T # {} PROVE \E x \in T : \A y \in T : x <= y
<1> DEFINE R == {ss \in Nat \X Nat : ss[1] < ss[2]}
<1>1. R = OpToRel(<, Nat)
  BY DEF OpToRel
<1>2. IsWellFoundedOn(R, Nat)
  BY <1>1, NatLessThanWellFounded
<1>3. ASSUME NEW x \in Nat, NEW y \in Nat, y < x PROVE <<y, x>> \in R
  BY <1>3
<1> HIDE DEF R
<1>4. PICK x \in T : \A y \in T : <<y, x>> \notin R
  BY <1>2, WFMin
<1>5. \A y \in T : ~ (y < x)
  BY <1>3, <1>4
<1> QED
  BY <1>5

\* The oldest run of some is one of them.
LEMMA OldestFact ==
  ASSUME Types, NEW xs \in SUBSET runs, xs # {} PROVE Oldest(xs) \in xs
<1>1. \A x \in runs : x.number \in Nat
  BY DEF Types, Run
<1> DEFINE T == {x.number : x \in xs}
<1>2. T \in SUBSET Nat /\ T # {}
  BY <1>1
<1>3. PICK n \in T : \A m \in T : n <= m
  <2> HIDE DEF T
  <2> QED
    BY <1>2, SmallestNat
<1>4. PICK x \in xs : x.number = n
  BY <1>3
<1>5. \A y \in xs : x.number <= y.number
  BY <1>3, <1>4
<1> QED
  BY <1>4, <1>5 DEF Oldest

-----------------------------------------------------------------------------
(* A step of a thread that stores nothing. *)
Answered(r) ==
  LET w == requests[r] IN
    /\ w.pc \in {"created", "duplicates"} =>
         \E x \in runs : /\ x.number = w.told /\ x.key = w.payload.key
                         /\ \/ x.items = w.payload.items
                            \/ \E p \in Delivered \ {w.payload} : p.key = w.payload.key /\ p.items = x.items
    /\ w.pc = "conflict" => \E i \in w.payload.items : Stored(i)
    /\ w.pc = "error" /\ w.payload.kind \in Agents => HighestOne > w.base
    /\ w.pc \in {"inserted", "duplicate"} => OfMessage(w.payload.key) # {}

\* What is answered, thread by thread.
LEMMA AnsweredEach == AnsweredTrue <=> \A r \in Requests : Answered(r)
  BY DEF AnsweredTrue, Answered

\* The thread keeps what was delivered to it.
Keeps(r) == requests'[r].pc # "idle" /\ (requests[r].pc # "idle" => requests'[r].payload = requests[r].payload)

\* What was delivered stays so.
LEMMA DeliveredStays ==
  ASSUME NEW r \in Requests, Others(r), Keeps(r) PROVE Delivered \subseteq Delivered'
<1> SUFFICES ASSUME NEW o \in Requests, requests[o].pc # "idle"
             PROVE  requests'[o].pc # "idle" /\ requests'[o].payload = requests[o].payload
  BY DEF Delivered
<1> QED
  BY DEF Others, Keeps

\* No number is held twice after a step of r that holds none another holds.
LEMMA AloneStays ==
  ASSUME Alone, NEW r \in Requests, Others(r),
         requests'[r].pc \in Holding => \A o \in Requests \ {r} :
            requests[o].pc \in Holding => requests[o].number # requests'[r].number
  PROVE  Alone'
  BY DEF Alone, Others

\* A step of r that stores nothing keeps the invariant if r's new record is a good one.
LEMMA QuietStep ==
  ASSUME IInv, NEW r \in Requests, KeepData, Others(r), Keeps(r), Thread(r)', Answered(r)',
         requests'[r].pc \in Holding => \A o \in Requests \ {r} :
            requests[o].pc \in Holding => requests[o].number # requests'[r].number
  PROVE  IInv'
<1>1. Types'
  BY DEF IInv, Types, KeepData, Others
<1>2. Numbers'
  BY DEF IInv, Numbers, KeepData
<1>3. HighestOne' = HighestOne /\ (\A n : Taken(n)' = Taken(n)) /\ (\A i : Stored(i)' = Stored(i))
      /\ \A k : OfMessage(k)' = OfMessage(k)
  BY DEF KeepData, HighestOne, Taken, Stored, OfMessage
<1>4. Delivered \subseteq Delivered'
  BY DeliveredStays
<1>5. ASSUME NEW o \in Requests PROVE Thread(o)'
  <2>1. CASE o = r
    BY <2>1
  <2>2. CASE o # r
    <3>1. requests'[o] = requests[o] /\ Thread(o)
      BY <2>2 DEF Others, IInv, Threads
    <3> QED
      BY <1>3, <3>1 DEF Thread
  <2> QED
    BY <2>1, <2>2
<1>6. ASSUME NEW o \in Requests PROVE Answered(o)'
  <2>1. CASE o = r
    BY <2>1
  <2>2. CASE o # r
    <3>1. requests'[o] = requests[o] /\ Answered(o)
      BY <2>2, AnsweredEach DEF Others, IInv
    <3> QED
      BY <1>3, <1>4, <3>1 DEF Answered, KeepData
  <2> QED
    BY <2>1, <2>2
<1>7. Alone'
  BY AloneStays DEF IInv, Threads
<1>8. WholeResults' /\ WarningsMatch'
  BY <1>4 DEF IInv, KeepData, WholeResults, WarningsMatch
<1>9. AnsweredTrue'
  BY <1>6 DEF AnsweredTrue, Answered
<1> QED
  BY <1>1, <1>2, <1>5, <1>7, <1>8, <1>9 DEF IInv, Threads

\* What a thread's record is, and what its kind says.
LEMMA ReqFact ==
  ASSUME IInv, NEW r \in Requests
  PROVE  /\ requests[r] \in Req /\ Thread(r) /\ Types /\ Numbers
         /\ HighestOne \in Nat /\ HighestOne' = Max({0} \union {x.number : x \in runs'})
  BY HighestFact DEF IInv, Types, Threads, HighestOne

\* Data that stays leaves what is stored.
LEMMA Kept ==
  ASSUME KeepData
  PROVE  /\ HighestOne' = HighestOne /\ (\A n : Taken(n)' = Taken(n)) /\ (\A i : Stored(i)' = Stored(i))
         /\ \A k : OfMessage(k)' = OfMessage(k)
  BY DEF KeepData, HighestOne, Taken, Stored, OfMessage

\* Accept: the thread begins at the highest number.
LEMMA AcceptStep == ASSUME IInv, NEW r \in Requests, NEW p \in Payloads, Accept(r, p) PROVE IInv'
<1> DEFINE first == OfKey(p.key) # {}
           w == [Idle EXCEPT !.pc = "look", !.payload = p, !.first = first, !.base = HighestOne]
<1>1. first \in BOOLEAN /\ HighestOne \in Nat /\ Types /\ p.kind \in Agents /\ KeepData /\ requests[r].pc = "idle"
  BY ReqFact DEF Accept, Arrives
<1>2. w \in Req /\ w.pc = "look" /\ w.payload = p /\ w.base = HighestOne
  <2> HIDE DEF first
  <2> QED
    BY <1>1, IdleType DEF Req, Points
<1>3. requests' = [requests EXCEPT ![r] = w]
  BY DEF Accept
<1> HIDE DEF w
<1>4. Others(r) /\ requests'[r] = w
  BY <1>1, <1>2, <1>3, One
<1>5. Keeps(r)
  BY <1>1, <1>2, <1>4 DEF Keeps
<1>6. Thread(r)'
  BY <1>1, <1>2, <1>4, Kept DEF Thread, Holding
<1>7. Answered(r)'
  BY <1>2, <1>4 DEF Answered
<1> QED
  BY <1>1, <1>2, <1>4, <1>5, <1>6, <1>7, QuietStep DEF Holding

\* A thread that ends without storing anything, with an answer that is true.
LEMMA EndStep ==
  ASSUME IInv, NEW r \in Requests, NEW answer \in Answers, NEW told \in Nat, End(r, answer, told), KeepData,
         requests[r].pc # "idle",
         answer \in {"created", "duplicates"} =>
           \E x \in runs : /\ x.number = told /\ x.key = requests[r].payload.key
                           /\ \/ x.items = requests[r].payload.items
                              \/ \E p \in Delivered \ {requests[r].payload} :
                                   p.key = requests[r].payload.key /\ p.items = x.items,
         answer = "conflict" => \E i \in requests[r].payload.items : Stored(i),
         answer = "error" /\ requests[r].payload.kind \in Agents => HighestOne > requests[r].base,
         answer \in {"inserted", "duplicate"} => OfMessage(requests[r].payload.key) # {}
  PROVE  IInv'
<1>1. /\ Others(r) /\ requests'[r].pc = answer /\ requests'[r].told = told
      /\ requests'[r].payload = requests[r].payload
      /\ answer = "error" => requests'[r].base = requests[r].base
  BY EndFact, ReqFact
<1>2. answer \notin Points
  BY DEF Answers, Points
<1>3. Keeps(r)
  BY <1>1, <1>2 DEF Keeps, Points
<1>4. Delivered \subseteq Delivered'
  BY <1>1, <1>3, DeliveredStays
<1>5. requests[r].payload \in Payloads
  BY ReqFact DEF Thread
<1>6. Thread(r)'
  BY <1>1, <1>2, <1>5 DEF Thread, Points, Holding
<1>7. Answered(r)'
  BY <1>1, <1>4, Kept DEF Answered, KeepData
<1> QED
  BY <1>1, <1>2, <1>3, <1>6, <1>7, QuietStep DEF Holding, Points

\* Assumptions on payloads.
LEMMA PayloadFact ==
  ASSUME NEW p \in Payloads
  PROVE  /\ p.kind \in {"investigation", "response", "reading"} /\ p.mode \in {"simulated", "mock_agent_data"}
         /\ p.at \in Nat /\ p.key \in Keys /\ p.items \in SUBSET Items
  BY IngestAssumption DEF Keys, Items

\* A thread that moves on, its record otherwise as it was.
LEMMA GotoStep ==
  ASSUME IInv, NEW r \in Requests, NEW pc \in Points \ {"idle"}, Goto(r, pc), KeepData,
         requests[r].pc # "idle",
         pc \in {"look", "check", "number", "flush", "resolve", "commit"} =>
           requests[r].payload.kind \in Agents /\ requests[r].base <= HighestOne,
         pc = "insert" => requests[r].payload.kind = "reading",
         pc \in {"flush", "resolve", "commit"} =>
           requests[r].base < requests[r].number /\ requests[r].number <= HighestOne + 1,
         pc \in Holding => ~Taken(requests[r].number),
         pc \in {"number", "flush", "resolve", "commit"} /\ (\E i \in requests[r].payload.items : Stored(i)) =>
           requests[r].base < HighestOne,
         pc \in Holding => \A o \in Requests \ {r} :
            requests[o].pc \in Holding => requests[o].number # requests[r].number
  PROVE  IInv'
<1>1. requests[r] \in Req /\ Thread(r) /\ Types
  BY ReqFact
<1>2. Others(r) /\ requests'[r] = [requests[r] EXCEPT !.pc = pc]
  BY <1>1, GotoFact
<1>3. /\ requests'[r].pc = pc /\ requests'[r].payload = requests[r].payload
      /\ requests'[r].number = requests[r].number /\ requests'[r].base = requests[r].base
  BY <1>1, <1>2 DEF Req
<1>4. Keeps(r)
  BY <1>3 DEF Keeps
<1>5. Thread(r)'
  BY <1>1, <1>3, Kept DEF Thread
<1>6. pc \notin Answers
  BY DEF Points, Answers
<1>7. Answered(r)'
  BY <1>3, <1>6 DEF Answered, Answers
<1> QED
  BY <1>2, <1>3, <1>4, <1>5, <1>7, QuietStep

\* The first lookup of the key.
LEMMA LookStep == ASSUME IInv, NEW r \in Requests, Look(r) PROVE IInv'
<1> DEFINE w == requests[r]
           known == OfKey(w.payload.key)
           x == Oldest(known)
<1>1. /\ w.pc = "look" /\ KeepData /\ Thread(r) /\ Types /\ w \in Req
      /\ IF known = {} THEN Goto(r, "check") ELSE End(r, Told(x, w.first), x.number)
  BY ReqFact DEF Look, AtAgent
<1>2. CASE known = {}
  BY <1>1, <1>2, GotoStep DEF Thread, Points, Holding
<1>3. CASE known # {}
  <2>1. x \in runs /\ x.key = w.payload.key
    <3>1. known \in SUBSET runs /\ \A y \in known : y.key = w.payload.key
      BY DEF OfKey
    <3> QED
      BY <1>1, <1>3, <3>1, OldestFact
  <2> HIDE DEF x, known, w
  <2>2. x.number \in Nat
    BY <1>1, <2>1 DEF Types, Run
  <2>3. Told(x, w.first) \in {"not_found", "duplicates", "created"}
    BY DEF Told
  <2>4. PICK p \in Delivered : p.key = x.key /\ p.items = x.items
    BY <2>1 DEF IInv, WholeResults
  <2>5. x.items = w.payload.items \/ \E q \in Delivered \ {w.payload} : q.key = w.payload.key /\ q.items = x.items
    BY <2>1, <2>4
  <2>6. End(r, Told(x, w.first), x.number)
    BY <1>1, <1>3
  <2>7. Told(x, w.first) \in Answers
    BY <2>3 DEF Answers
  <2>8. w = requests[r]
    BY DEF w
  <2> QED
    BY <1>1, <2>1, <2>2, <2>3, <2>5, <2>6, <2>7, <2>8, EndStep
<1> QED
  BY <1>2, <1>3

\* The second lookup of the key.
LEMMA CheckStep == ASSUME IInv, NEW r \in Requests, Check(r) PROVE IInv'
<1>1. requests[r].pc = "check" /\ KeepData /\ Thread(r) /\ Types
  BY ReqFact DEF Check, AtAgent
<1>2. CASE \E i \in requests[r].payload.items : Stored(i)
  <2>1. End(r, "conflict", 0)
    BY <1>2 DEF Check
  <2> QED
    BY <1>1, <1>2, <2>1, EndStep DEF Answers
<1>3. CASE ~ \E i \in requests[r].payload.items : Stored(i)
  <2>1. Goto(r, "number")
    BY <1>3 DEF Check
  <2> QED
    BY <1>1, <1>3, <2>1, GotoStep DEF Thread, Points, Holding
<1> QED
  BY <1>2, <1>3

\* The number is computed: one above the highest.
LEMMA NumberStep == ASSUME IInv, NEW r \in Requests, Number(r) PROVE IInv'
<1> DEFINE w == [requests[r] EXCEPT !.pc = "flush", !.number = NextNumber(r)]
<1>1. /\ requests[r].pc = "number" /\ KeepData /\ Thread(r) /\ Types /\ requests[r] \in Req
      /\ HighestOne \in Nat
  BY ReqFact DEF Number, AtAgent
<1>2. NextNumber(r) = HighestOne + 1 /\ NextNumber(r) \in Nat
  BY <1>1 DEF NextNumber
<1>3. /\ w \in Req /\ w.pc = "flush" /\ w.number = HighestOne + 1 /\ w.payload = requests[r].payload
      /\ w.base = requests[r].base
  BY <1>1, <1>2 DEF Req, Points
<1>4. requests' = [requests EXCEPT ![r] = w]
  BY DEF Number
<1> HIDE DEF w
<1>5. Others(r) /\ requests'[r] = w
  BY <1>1, <1>3, <1>4, One
<1>6. requests[r].base \in Nat
  BY <1>1 DEF Req
<1>7. Thread(r)'
  <2>1. requests[r].payload \in Payloads /\ requests[r].payload.kind \in Agents /\ requests[r].base <= HighestOne
        /\ ((\E i \in requests[r].payload.items : Stored(i)) => requests[r].base < HighestOne)
    BY <1>1 DEF Thread
  <2>2. requests[r].base < HighestOne + 1
    BY <1>1, <1>6, <2>1
  <2> QED
    BY <1>1, <1>3, <1>5, <2>1, <2>2, Kept DEF Thread, Holding
<1>8. Answered(r)' /\ Keeps(r)
  BY <1>1, <1>3, <1>5 DEF Answered, Keeps
<1> QED
  BY <1>1, <1>3, <1>5, <1>7, <1>8, QuietStep DEF Holding

\* The run is flushed: its number is held, or it clashes.
LEMMA FlushStep == ASSUME IInv, NEW r \in Requests, Flush(r) PROVE IInv'
<1>1. /\ requests[r].pc = "flush" /\ KeepData /\ Thread(r) /\ Types /\ requests[r] \in Req
      /\ HighestOne \in Nat /\ Numbers /\ ~Held(requests[r].number)
  BY ReqFact DEF Flush, AtAgent
<1>2. CASE Taken(requests[r].number)
  <2>1. End(r, "error", 0)
    BY <1>2 DEF Flush
  <2>2. requests[r].number <= HighestOne /\ requests[r].base < requests[r].number
    BY <1>1, <1>2, HighestFact DEF Thread, Req
  <2>3. HighestOne > requests[r].base
    BY <1>1, <2>2 DEF Req
  <2> QED
    BY <1>1, <2>1, <2>3, EndStep DEF Answers
<1>3. CASE ~Taken(requests[r].number)
  <2>1. Goto(r, "resolve")
    BY <1>3 DEF Flush
  <2>2. \A o \in Requests : requests[o].pc \in Holding => requests[o].number # requests[r].number
    BY <1>1 DEF Held, Holding
  <2> QED
    BY <1>1, <1>3, <2>1, <2>2, GotoStep DEF Thread, Points, Holding
<1> QED
  BY <1>2, <1>3

\* The names are looked up.
LEMMA ResolveStep == ASSUME IInv, NEW r \in Requests, Resolve(r) PROVE IInv'
<1> DEFINE known == NamesOf(requests[r].payload.kind) \intersect mapped
           w == [requests[r] EXCEPT !.pc = "commit", !.known = known]
<1>1. /\ requests[r].pc = "resolve" /\ KeepData /\ Thread(r) /\ Types /\ requests[r] \in Req
  BY ReqFact DEF Resolve, AtAgent
<1>2. known \in SUBSET Names
  BY <1>1 DEF Types
<1>3. /\ w \in Req /\ w.pc = "commit" /\ w.number = requests[r].number /\ w.payload = requests[r].payload
      /\ w.base = requests[r].base
  <2> HIDE DEF known
  <2> QED
    BY <1>1, <1>2 DEF Req, Points
<1>4. requests' = [requests EXCEPT ![r] = w]
  BY DEF Resolve
<1> HIDE DEF w
<1>5. Others(r) /\ requests'[r] = w
  BY <1>1, <1>3, <1>4, One
<1>6. Thread(r)'
  BY <1>1, <1>3, <1>5, Kept DEF Thread, Holding
<1>7. Answered(r)' /\ Keeps(r)
  BY <1>1, <1>3, <1>5 DEF Answered, Keeps
<1>8. \A o \in Requests \ {r} : requests[o].pc \in Holding => requests[o].number # requests'[r].number
  BY <1>1, <1>3, <1>5 DEF IInv, Threads, Alone, Holding
<1> QED
  BY <1>1, <1>5, <1>6, <1>7, <1>8, QuietStep

\* A reading is received.
LEMMA ReceiveStep == ASSUME IInv, NEW r \in Requests, NEW p \in Payloads, Receive(r, p) PROVE IInv'
<1> DEFINE pc == IF OfMessage(p.key) # {} THEN "duplicate" ELSE "insert"
           w == [Idle EXCEPT !.payload = p, !.seen = lastSeen, !.pc = pc]
<1>1. p.kind = "reading" /\ KeepData /\ Types /\ requests[r].pc = "idle" /\ lastSeen \in Nat
  BY ReqFact DEF Receive, Arrives, Types
<1>2. pc \in {"duplicate", "insert"} /\ (pc = "duplicate" => OfMessage(p.key) # {})
  OBVIOUS
<1>3. w \in Req /\ w.pc = pc /\ w.payload = p
  <2> HIDE DEF pc
  <2> QED
    BY <1>1, <1>2, IdleType DEF Req, Points, Answers
<1>4. requests' = [requests EXCEPT ![r] = w]
  BY DEF Receive
<1> HIDE DEF w, pc
<1>5. Others(r) /\ requests'[r] = w
  BY <1>1, <1>3, <1>4, One
<1>6. Thread(r)'
  BY <1>1, <1>2, <1>3, <1>5 DEF Thread, Holding
<1>7. Answered(r)' /\ Keeps(r)
  BY <1>1, <1>2, <1>3, <1>5, Kept DEF Answered, Keeps
<1> QED
  BY <1>1, <1>2, <1>3, <1>5, <1>6, <1>7, QuietStep DEF Holding

-----------------------------------------------------------------------------
(* A step that stores, and the import. *)
\* Runs that are only added to or told otherwise of, and readings added to: what other threads
\* and their answers rest on stays.
Grows ==
  /\ HighestOne' >= HighestOne /\ HighestOne' \in Nat /\ HighestOne \in Nat
  /\ \A x \in runs : \E y \in runs' : y.number = x.number /\ y.key = x.key /\ y.items = x.items
  /\ readings \subseteq readings' /\ Delivered \subseteq Delivered'

\* An answer that was true stays true.
LEMMA AnsweredStays ==
  ASSUME Types, Grows, NEW o \in Requests, Answered(o), requests'[o] = requests[o] PROVE Answered(o)'
<1>1. \A i : Stored(i) => Stored(i)'
  BY DEF Grows, Stored
<1>2. \A k : OfMessage(k) # {} => OfMessage(k)' # {}
  BY DEF Grows, OfMessage
<1>3. requests[o].base \in Nat
  BY DEF Types, Req
<1>4. HighestOne > requests[o].base => HighestOne' > requests[o].base
  BY <1>3 DEF Grows
<1> DEFINE w == requests[o]
<1>5. ASSUME w.pc \in {"created", "duplicates"}
      PROVE  \E y \in runs' : /\ y.number = w.told /\ y.key = w.payload.key
                              /\ \/ y.items = w.payload.items
                                 \/ \E p \in Delivered' \ {w.payload} : p.key = w.payload.key /\ p.items = y.items
  <2>1. PICK x \in runs : /\ x.number = w.told /\ x.key = w.payload.key
                          /\ \/ x.items = w.payload.items
                             \/ \E p \in Delivered \ {w.payload} : p.key = w.payload.key /\ p.items = x.items
    BY <1>5 DEF Answered
  <2>2. PICK y \in runs' : y.number = x.number /\ y.key = x.key /\ y.items = x.items
    BY DEF Grows
  <2> QED
    BY <2>1, <2>2 DEF Grows
<1> QED
  BY <1>1, <1>2, <1>4, <1>5 DEF Answered

\* What is told of a run.
LEMMA ToldAnswers == \A x, first : Told(x, first) \in {"not_found", "duplicates", "created"}
  BY DEF Told

\* Commit without a clash: one run more, with the next number.
LEMMA CommitStored ==
  ASSUME IInv, NEW r \in Requests, Commit(r), ~ \E i \in requests[r].payload.items : Stored(i) PROVE IInv'
<1> DEFINE w == requests[r]
           x == RunOf(w)
           n == w.number
           H == HighestOne
<1>1. /\ w.pc = "commit" /\ runs' = runs \union {x} /\ End(r, Told(x, w.first), n)
      /\ UNCHANGED <<readings, lastSeen, mapped, importer>>
      /\ Types /\ w \in Req /\ Thread(r) /\ Numbers
  BY ReqFact DEF Commit, AtAgent
<1>2. /\ H \in Nat /\ {y.number : y \in runs} = 1..H /\ n \in Nat /\ w.base \in Nat
      /\ \A k \in Nat : Taken(k) <=> k \in 1..H
  BY <1>1, HighestFact DEF Req
<1>3. w.base < n /\ n <= H + 1 /\ ~Taken(n) /\ w.base <= H /\ w.payload \in Payloads /\ w.payload.kind \in Agents
  BY <1>1 DEF Thread, Holding
<1>4. n = H + 1
  BY <1>2, <1>3
<1>5. /\ x \in Run /\ x.number = n /\ x.key = w.payload.key /\ x.items = w.payload.items /\ x.kind = w.payload.kind
      /\ x.warnings \ {"cluster"} = ColumnsOf(x.kind) \ x.known
  <2>1. w.payload.key \in Keys /\ w.payload.items \in SUBSET Items /\ w.payload.mode \in {"simulated", "mock_agent_data"}
    BY <1>3, PayloadFact
  <2>2. w.payload.kind \in {"investigation", "response"} /\ w.known \in SUBSET Names
    BY <1>1, <1>3 DEF Agents, Req
  <2>3. NamesOf(w.payload.kind) \in SUBSET Names
    BY DEF NamesOf, Names
  <2> QED
    BY <1>2, <2>1, <2>2, <2>3 DEF RunOf, Run, ColumnsOf
<1>6. Told(x, w.first) \in {"not_found", "duplicates", "created"} /\ Told(x, w.first) \in Answers
  BY ToldAnswers DEF Answers
<1>7. /\ Others(r) /\ requests'[r].pc = Told(x, w.first) /\ requests'[r].told = n /\ requests'[r].payload = w.payload
  BY <1>1, <1>2, <1>6, EndFact
<1> HIDE DEF x, n, w
<1>w. w = requests[r]
  BY DEF w
<1>8. Keeps(r)
  BY <1>6, <1>7, <1>w DEF Keeps
<1>9. Delivered \subseteq Delivered' /\ w.payload \in Delivered'
  BY <1>7, <1>8, DeliveredStays DEF Delivered, Keeps
<1>10. Types'
  BY <1>1, <1>5, <1>7 DEF Types, Others
<1>11. Numbers'
  <2>1. {y.number : y \in runs'} = 1..(H + 1)
    <3>1. {y.number : y \in runs'} = {y.number : y \in runs} \union {n}
      BY <1>1, <1>5
    <3> QED
      BY <1>2, <1>4, <3>1
  <2>2. \A y \in runs : y.number # n
    BY <1>3 DEF Taken
  <2>3. H + 1 \in Nat
    BY <1>2
  <2>4. \A y, z \in runs' : y.number = z.number => y = z
    BY <1>1, <1>5, <2>2 DEF Numbers
  <2> QED
    BY <2>1, <2>3, <2>4 DEF Numbers
<1>12. HighestOne' = H + 1
  <2>1. {y.number : y \in runs'} = 1..(H + 1) /\ H + 1 \in Nat
    <3>1. {y.number : y \in runs'} = {y.number : y \in runs} \union {n}
      BY <1>1, <1>5
    <3> QED
      BY <1>2, <1>4, <3>1
  <2> HIDE DEF H
  <2> QED
    BY <2>1, HighestOf DEF HighestOne
<1>13. Grows
  <2>1. H + 1 >= H /\ H + 1 \in Nat
    BY <1>2
  <2>2. readings \subseteq readings'
    BY <1>1
  <2> QED
    BY <1>1, <1>2, <1>9, <1>12, <2>1, <2>2 DEF Grows
<1>14. Alone'
  BY <1>6, <1>7, AloneStays DEF IInv, Threads, Holding
<1>15. ASSUME NEW o \in Requests PROVE Thread(o)'
  <2>1. CASE o = r
    BY <1>3, <1>6, <1>7, <2>1 DEF Thread, Holding
  <2>2. CASE o # r
    <3> DEFINE v == requests[o]
    <3>1. requests'[o] = v /\ Thread(o) /\ v \in Req
      BY <1>1, <1>7, <2>2 DEF Others, IInv, Threads, Types
    <3>2. v.base \in Nat /\ v.number \in Nat
      BY <3>1 DEF Req
    <3>3. \A k \in Nat : Taken(k)' => Taken(k) \/ k = n
      BY <1>1, <1>5 DEF Taken
    <3>4. v.pc \in Holding => v.number # n
      BY <1>1, <2>2, <1>w DEF IInv, Threads, Alone, Holding, n
    <3>5. v.base <= H => v.base <= H + 1 /\ v.base < H + 1
      BY <1>2, <3>2
    <3>6. v.number <= H + 1 => v.number <= (H + 1) + 1
      BY <1>2, <3>2
    <3> HIDE DEF v, H
    <3>7. v = requests[o] /\ H = HighestOne
      BY DEF v, H
    <3> QED
      BY <1>12, <3>1, <3>2, <3>3, <3>4, <3>5, <3>6, <3>7 DEF Thread
  <2> QED
    BY <2>1, <2>2
<1>16. ASSUME NEW o \in Requests PROVE Answered(o)'
  <2>1. CASE o = r
    <3>1. x \in runs' /\ x.number = n /\ x.key = w.payload.key /\ x.items = w.payload.items
      BY <1>1, <1>5
    <3> QED
      BY <1>6, <1>7, <2>1, <3>1 DEF Answered
  <2>2. CASE o # r
    <3>1. requests'[o] = requests[o] /\ Answered(o)
      BY <1>7, <2>2, AnsweredEach DEF Others, IInv
    <3> QED
      BY <1>1, <1>13, <3>1, AnsweredStays
  <2> QED
    BY <2>1, <2>2
<1>17. WholeResults'
  <2>1. \A y \in runs : x.items \intersect y.items = {}
    BY <1>5, <1>w DEF Stored
  <2>2. \A y \in runs' : \E p \in Delivered' : p.key = y.key /\ p.items = y.items /\ p.kind = y.kind
    BY <1>1, <1>5, <1>9 DEF IInv, WholeResults
  <2>3. \A y, z \in runs' : y.items \intersect z.items # {} => y = z
    BY <1>1, <2>1 DEF IInv, WholeResults
  <2> QED
    BY <2>2, <2>3 DEF WholeResults
<1>18. WarningsMatch'
  BY <1>1, <1>5 DEF IInv, WarningsMatch
<1> QED
  BY <1>10, <1>11, <1>14, <1>15, <1>16, <1>17, <1>18 DEF IInv, Threads, AnsweredTrue, Answered

\* The commit, with or without a clash.
LEMMA CommitStep == ASSUME IInv, NEW r \in Requests, Commit(r) PROVE IInv'
<1> DEFINE w == requests[r]
<1>1. CASE \E i \in w.payload.items : Stored(i)
  <2>1. /\ w.pc = "commit" /\ runs' = runs /\ End(r, Clashed(w), w.number)
        /\ UNCHANGED <<readings, lastSeen, mapped, importer>> /\ w \in Req /\ Thread(r)
    BY <1>1, ReqFact DEF Commit, AtAgent
  <2>2. Clashed(w) \in {"conflict", "error"} /\ Clashed(w) \in Answers /\ KeepData /\ w.number \in Nat
    BY <2>1 DEF Clashed, Answers, KeepData, Req
  <2>3. w.base < HighestOne /\ w.base \in Nat /\ HighestOne \in Nat
    BY <1>1, <2>1, ReqFact DEF Thread, Req
  <2>4. HighestOne > w.base
    BY <2>3
  <2> QED
    BY <1>1, <2>1, <2>2, <2>4, EndStep
<1>2. CASE ~ \E i \in w.payload.items : Stored(i)
  BY <1>2, CommitStored
<1> QED
  BY <1>1, <1>2

\* A thread's standing where runs keep numbers and items.
LEMMA ThreadStays ==
  ASSUME NEW o \in Requests, Thread(o), requests'[o] = requests[o], HighestOne' = HighestOne,
         \A n : Taken(n)' = Taken(n), \A i : Stored(i)' = Stored(i)
  PROVE  Thread(o)'
  BY DEF Thread

\* The insert of a reading.
LEMMA InsertStep == ASSUME IInv, NEW r \in Requests, Insert(r) PROVE IInv'
<1> DEFINE w == requests[r]
           clash == \E x \in readings : x.at = w.payload.at
<1>1. /\ w.pc = "insert" /\ UNCHANGED <<runs, mapped, importer>> /\ Types /\ w \in Req /\ Thread(r)
      /\ HighestOne \in Nat
  BY ReqFact DEF Insert
<1>2. w.payload.kind = "reading" /\ w.payload \in Payloads
  BY <1>1 DEF Thread
<1>3. CASE clash
  <2>1. End(r, AfterClash(w.payload.key), 0) /\ KeepData
    BY <1>1, <1>3 DEF Insert, KeepData
  <2>2. \/ AfterClash(w.payload.key) = "duplicate" /\ OfMessage(w.payload.key) # {}
        \/ AfterClash(w.payload.key) = "error"
    BY DEF AfterClash
  <2>3. w.payload.kind \notin Agents /\ AfterClash(w.payload.key) \in Answers
    BY <1>2, <2>2 DEF Agents, Answers
  <2> QED
    BY <1>1, <2>1, <2>2, <2>3, EndStep
<1>4. CASE ~clash
  <2> DEFINE m == [message |-> w.payload.key, at |-> w.payload.at]
  <2>1. /\ readings' = readings \union {m} /\ End(r, "inserted", 0) /\ "inserted" \in Answers
        /\ lastSeen' \in {lastSeen, w.payload.at}
    BY <1>4 DEF Insert, Answers
  <2>2. w.payload.key \in Keys /\ w.payload.at \in Nat
    BY <1>2, PayloadFact
  <2>3. m.message = w.payload.key /\ m.message \in Keys /\ m.at \in Nat
    BY <2>2
  <2>4. Others(r) /\ requests'[r].pc = "inserted" /\ requests'[r].payload = w.payload
    BY <1>1, <2>1, EndFact
  <2> HIDE DEF m
  <2>5. Types'
    BY <1>1, <2>1, <2>2, <2>3, <2>4 DEF Types, Others
  <2>6. /\ HighestOne' = HighestOne /\ (\A n : Taken(n)' = Taken(n)) /\ (\A i : Stored(i)' = Stored(i))
    BY <1>1 DEF HighestOne, Taken, Stored
  <2>7. Keeps(r) /\ Delivered \subseteq Delivered'
    BY <1>1, <2>4, DeliveredStays DEF Keeps
  <2>8. Grows
    BY <1>1, <2>1, <2>6, <2>7 DEF Grows
  <2>9. ASSUME NEW o \in Requests PROVE Thread(o)'
    <3>1. CASE o = r
      BY <1>2, <2>4, <3>1 DEF Thread, Holding
    <3>2. CASE o # r
      BY <2>4, <2>6, <3>2, ThreadStays DEF Others, IInv, Threads
    <3> QED
      BY <3>1, <3>2
  <2>10. ASSUME NEW o \in Requests PROVE Answered(o)'
    <3>1. CASE o = r
      <4>1. m \in readings' /\ m.message = requests'[r].payload.key
        BY <2>1, <2>3, <2>4
      <4> QED
        BY <2>4, <3>1, <4>1 DEF Answered, OfMessage
    <3>2. CASE o # r
      <4>1. requests'[o] = requests[o] /\ Answered(o)
        BY <2>4, <3>2, AnsweredEach DEF Others, IInv
      <4> QED
        BY <1>1, <2>8, <4>1, AnsweredStays
    <3> QED
      BY <3>1, <3>2
  <2>11. Alone'
    BY <2>4, AloneStays DEF IInv, Threads, Holding
  <2>12. WholeResults' /\ WarningsMatch' /\ Numbers'
    BY <1>1, <2>7 DEF IInv, WholeResults, WarningsMatch, Numbers
  <2> QED
    BY <2>5, <2>9, <2>10, <2>11, <2>12 DEF IInv, Threads, AnsweredTrue, Answered
<1> QED
  BY <1>3, <1>4

\* What is stored and answered stands where none of it changes.
LEMMA DataStays == ASSUME IInv, Types', UNCHANGED <<runs, readings, requests>> PROVE IInv'
<1>1. HighestOne' = HighestOne /\ (\A n : Taken(n)' = Taken(n)) /\ (\A i : Stored(i)' = Stored(i))
      /\ (\A k : OfMessage(k)' = OfMessage(k)) /\ Delivered' = Delivered
  BY DEF HighestOne, Taken, Stored, OfMessage, Delivered
<1>2. Numbers' /\ WholeResults' /\ WarningsMatch'
  BY <1>1 DEF IInv, Numbers, WholeResults, WarningsMatch
<1>3. Threads'
  <2>1. \A o \in Requests : Thread(o)'
    BY <1>1, ThreadStays DEF IInv, Threads
  <2> QED
    BY <2>1 DEF IInv, Threads, Alone
<1>4. \A o \in Requests : Answered(o)'
  BY <1>1, AnsweredEach DEF IInv, Answered
<1>5. AnsweredTrue'
  BY <1>4 DEF AnsweredTrue, Answered
<1> QED
  BY <1>2, <1>3, <1>5 DEF IInv

\* An import reads the runs.
LEMMA ImportReadStep == ASSUME IInv, NEW file \in Files, ImportRead(file) PROVE IInv'
<1> DEFINE seen == {x.number : x \in runs}
<1>1. /\ importer.left > 0 /\ UNCHANGED <<runs, readings, lastSeen, mapped, requests>>
      /\ importer' = [importer EXCEPT !.left = @ - 1, !.read = TRUE, !.seen = seen, !.on = file.on, !.off = file.off]
      /\ Types
  BY DEF ImportRead, IInv
<1>2. seen \in SUBSET Nat
  BY <1>1 DEF Types, Run
<1>3. file.on \in SUBSET Names /\ file.off \in SUBSET Names /\ Imports \in Nat
  BY IngestAssumption
<1> HIDE DEF seen
<1>4. importer.left - 1 \in 0..Imports
  BY <1>1, <1>3 DEF Types, Importer
<1>5. importer' \in Importer
  BY <1>1, <1>2, <1>3, <1>4 DEF Types, Importer
<1>6. Types'
  BY <1>1, <1>5 DEF Types
<1> QED
  BY <1>1, <1>6, DataStays

\* What an import makes of a run.
LEMMA ApplyFact ==
  ASSUME NEW x \in Run, NEW names, x.warnings \ {"cluster"} = ColumnsOf(x.kind) \ x.known
  PROVE  LET y == Apply(x, names) IN
         /\ y \in Run /\ y.number = x.number /\ y.key = x.key /\ y.items = x.items /\ y.kind = x.kind
         /\ y.warnings \ {"cluster"} = ColumnsOf(y.kind) \ y.known
<1> DEFINE known == ColumnsOf(x.kind) \intersect names
           left  == NamesOf(x.kind) \ names
<1>1. known \in SUBSET Names /\ left \in SUBSET Names
  BY DEF ColumnsOf, NamesOf, Names
<1>2. Apply(x, names) = IF known = x.known THEN x ELSE [x EXCEPT !.known = known, !.warnings = left]
  BY DEF Apply
<1>3. left \ {"cluster"} = ColumnsOf(x.kind) \ known
  BY DEF ColumnsOf
<1> HIDE DEF known, left
<1>4. CASE known = x.known
  BY <1>2, <1>4
<1>5. CASE known # x.known
  <2> DEFINE z == [x EXCEPT !.known = known, !.warnings = left]
  <2>1. /\ z \in Run /\ z.number = x.number /\ z.key = x.key /\ z.items = x.items /\ z.kind = x.kind
        /\ z.warnings = left /\ z.known = known
    BY <1>1 DEF Run
  <2> HIDE DEF z
  <2>2. Apply(x, names) = z
    BY <1>2, <1>5 DEF z
  <2> QED
    BY <1>3, <2>1, <2>2
<1> QED
  BY <1>4, <1>5

\* An import commits its mappings and what it made of the runs.
LEMMA ImportCommitStep == ASSUME IInv, ImportCommit PROVE IInv'
<1> DEFINE names == (mapped \ importer.off) \union importer.on
           f(x) == IF x.number \in importer.seen THEN Apply(x, names) ELSE x
<1>1. /\ mapped' = names /\ runs' = {f(x) : x \in runs} /\ UNCHANGED <<readings, lastSeen, requests>>
      /\ importer' = [importer EXCEPT !.read = FALSE, !.seen = {}, !.on = {}, !.off = {}] /\ Types /\ Numbers
  BY DEF ImportCommit, IInv
<1>2. ASSUME NEW x \in runs
      PROVE  /\ f(x) \in Run /\ f(x).number = x.number /\ f(x).key = x.key /\ f(x).items = x.items
             /\ f(x).kind = x.kind /\ f(x).warnings \ {"cluster"} = ColumnsOf(f(x).kind) \ f(x).known
  <2>1. x \in Run /\ x.warnings \ {"cluster"} = ColumnsOf(x.kind) \ x.known
    BY <1>1 DEF IInv, WarningsMatch, Types
  <2> HIDE DEF names
  <2> QED
    BY <2>1, ApplyFact
<1>3. importer' \in Importer /\ names \in SUBSET Names
  BY <1>1 DEF Types, Importer
<1> HIDE DEF names, f
<1>4. Types'
  BY <1>1, <1>2, <1>3 DEF Types
<1>5. {x.number : x \in runs'} = {x.number : x \in runs}
  BY <1>1, <1>2
<1>6. Numbers'
  <2>1. \A x, y \in runs : f(x).number = f(y).number => f(x) = f(y)
    BY <1>1, <1>2 DEF Numbers
  <2>2. \A x, y \in runs' : x.number = y.number => x = y
    BY <1>1, <2>1
  <2>3. \E n \in Nat : {x.number : x \in runs'} = 1..n
    BY <1>1, <1>5 DEF Numbers
  <2> QED
    BY <2>2, <2>3 DEF Numbers
<1>7. HighestOne' = HighestOne
  BY <1>5 DEF HighestOne
<1>8. \A n : Taken(n)' = Taken(n)
  <2>1. ASSUME NEW n PROVE Taken(n)' <=> Taken(n)
    BY <1>1, <1>2 DEF Taken
  <2> QED
    BY <2>1 DEF Taken
<1>9. \A i : Stored(i)' = Stored(i)
  <2>1. ASSUME NEW i PROVE Stored(i)' <=> Stored(i)
    BY <1>1, <1>2 DEF Stored
  <2> QED
    BY <2>1 DEF Stored
<1>10. Delivered' = Delivered
  BY <1>1 DEF Delivered
<1>11. Grows
  <2>1. HighestOne \in Nat /\ HighestOne >= HighestOne
    BY <1>1, HighestFact
  <2>2. \A x \in runs : \E y \in runs' : y.number = x.number /\ y.key = x.key /\ y.items = x.items
    BY <1>1, <1>2
  <2> QED
    BY <1>1, <1>7, <1>10, <2>1, <2>2 DEF Grows
<1>12. \A o \in Requests : Thread(o)'
  BY <1>1, <1>7, <1>8, <1>9, ThreadStays DEF IInv, Threads
<1>13. \A o \in Requests : Answered(o)'
  BY <1>1, <1>11, AnsweredStays, AnsweredEach DEF IInv
<1>14. Alone'
  BY <1>1 DEF IInv, Threads, Alone
<1>15. WholeResults'
  <2>1. \A x \in runs : \E p \in Delivered' : p.key = f(x).key /\ p.items = f(x).items /\ p.kind = f(x).kind
    BY <1>2, <1>10 DEF IInv, WholeResults
  <2>2. \A x, y \in runs : f(x).items \intersect f(y).items # {} => f(x) = f(y)
    BY <1>2 DEF IInv, WholeResults
  <2> QED
    BY <1>1, <2>1, <2>2 DEF WholeResults
<1>16. WarningsMatch'
  BY <1>1, <1>2 DEF WarningsMatch
<1> QED
  BY <1>4, <1>6, <1>12, <1>13, <1>14, <1>15, <1>16 DEF IInv, Threads, AnsweredTrue, Answered

-----------------------------------------------------------------------------
(* The steps, and the theorems. *)
\* It holds at the start.
LEMMA InitIInv == Init => IInv
<1> SUFFICES ASSUME Init PROVE IInv
  OBVIOUS
<1>1. /\ runs = {} /\ readings = {} /\ lastSeen = 0 /\ mapped = Known
      /\ \A r \in Requests : requests[r] = Idle
  BY DEF Init
<1>2. Idle.pc = "idle"
  BY DEF Idle
<1>3. Types
  <2>1. importer \in Importer
    BY IngestAssumption DEF Init, Importer
  <2>2. requests \in [Requests -> Req]
    BY IdleType DEF Init
  <2> QED
    BY <1>1, <2>1, <2>2, IngestAssumption DEF Types
<1>4. Numbers
  <2>1. {x.number : x \in runs} = 1..0
    BY <1>1
  <2> QED
    BY <1>1, <2>1 DEF Numbers
<1>5. Threads
  BY <1>1, <1>2 DEF Threads, Alone, Thread, Holding
<1>6. WholeResults /\ WarningsMatch
  BY <1>1 DEF WholeResults, WarningsMatch
<1>7. AnsweredTrue
  BY <1>1, <1>2 DEF AnsweredTrue
<1> QED
  BY <1>3, <1>4, <1>5, <1>6, <1>7 DEF IInv

\* Every step preserves the invariant.
LEMMA NextIInv == IInv /\ [Next]_vars => IInv'
<1> SUFFICES ASSUME IInv, [Next]_vars PROVE IInv'
  OBVIOUS
<1>1. CASE UNCHANGED vars
  <2>1. Types'
    BY <1>1 DEF vars, IInv, Types
  <2> QED
    BY <1>1, <2>1, DataStays DEF vars
<1>2. ASSUME NEW r \in Requests, Step(r) PROVE IInv'
  BY <1>2, LookStep, CheckStep, NumberStep, FlushStep, ResolveStep, CommitStep, InsertStep DEF Step
<1>3. ASSUME NEW r \in Requests, NEW p \in Payloads, Accept(r, p) \/ Receive(r, p) PROVE IInv'
  BY <1>3, AcceptStep, ReceiveStep
<1> QED
  BY <1>1, <1>2, <1>3, ImportReadStep, ImportCommitStep DEF Next

\* The invariant always holds.
LEMMA Always == Spec => []IInv
  BY InitIInv, NextIInv, PTL DEF Spec

\* Rows, threads and the import stay of their types, no number is of two runs, and no two
\* threads hold one (integrations.py, the flush of the run).
THEOREM TypeCorrect == Spec => []TypeOK
<1>1. IInv => TypeOK
  <2> SUFFICES ASSUME IInv PROVE TypeOK
    OBVIOUS
  <2>1. \A r \in Requests : requests[r] \in Req /\ importer \in Importer
    BY DEF IInv, Types
  <2>2. \A r \in Requests : /\ requests[r].pc \in Points \union Answers
                            /\ requests[r].payload \in Payloads \union {Nothing}
    BY <2>1 DEF Req
  <2>3. importer.left \in 0..Imports
    BY DEF IInv, Types, Importer
  <2> QED
    BY <2>2, <2>3 DEF IInv, Types, Numbers, Threads, Alone, Holding, Points, TypeOK
<1> QED
  BY <1>1, Always, PTL

\* What is stored is whole, and no item of a result is stored twice, whatever is delivered
\* at once or again (integrations.py, accept_investigation_result and
\* accept_response_result).
THEOREM ResultsWhole == Spec => []WholeResults
<1>1. IInv => WholeResults
  BY DEF IInv
<1> QED
  BY <1>1, Always, PTL

\* Every answer is true when it is given and stays so: of a result that is accepted, of one
\* that is refused, and of one that is lost to another's number (integrations.py,
\* telemetry.py).
THEOREM AnswersTrue == Spec => []AnsweredTrue
<1>1. IInv => AnsweredTrue
  BY DEF IInv
<1> QED
  BY <1>1, Always, PTL

\* A run's warnings are what its finding or recommendation does not know, whatever is
\* imported meanwhile, but for the cluster of a response, of which nothing is kept
\* (identity.py, apply_stored_mappings).
THEOREM WarningsTold == Spec => []WarningsMatch
<1>1. IInv => WarningsMatch
  BY DEF IInv
<1> QED
  BY <1>1, Always, PTL

-----------------------------------------------------------------------------
(***************************************************************************)
(* What the platform tells of the agents (AgentContracts).                 *)
(***************************************************************************)
\* A request that is not retried has the answer of its only attempt.
LEMMA OnlyAttempt == ASSUME NEW f PROVE RequestWithRetry(<<f>>, 0) = f
<1> DEFINE last == SelectInSubSeq(<<f>>, 1, 0 + 1, LAMBDA t : ~WorthRetrying(t))
<1>1. last \in {0, 1}
  <2> DEFINE I == {i \in 1..(0 + 1) : ~ WorthRetrying(<<f>>[i])}
  <2>1. last = IF I # {} THEN Min(I) ELSE 0
    BY DEF SelectInSubSeq
  <2>2. I = {} \/ I = {1}
    OBVIOUS
  <2>3. Min({1}) = 1
    BY DEF Min
  <2> HIDE DEF I
  <2> QED
    BY <2>1, <2>2, <2>3
<1>2. RequestWithRetry(<<f>>, 0) = <<f>>[IF last = 0 THEN 0 + 1 ELSE last]
  BY DEF RequestWithRetry
<1> QED
  BY <1>1, <1>2

LEMMA AnswerAccepted ==
  ASSUME NEW agent, NEW reply, reply.status = "200", reply.body.version \notin {"no_object", "2.0"},
         (agent = "investigation" /\ ClientAccepts(reply.body)) \/ (agent = "response" /\ RecommendationAccepted(reply.body))
  PROVE  AgentAnswer(agent, reply) = "accepted"
BY Zenon DEF AgentAnswer

\* What the contract check takes, the client takes.
LEMMA EveryCompatibleAccepted == ASSUME NEW i \in ContractChecks PROVE CompatibleIsAccepted(i)
<1> SUFFICES ASSUME Compatible(i) PROVE AgentAnswer(i.agent, i.fixture) = "accepted"
  BY OnlyAttempt DEF CompatibleIsAccepted, RemoteAnswer
<1> DEFINE b == i.fixture.body
<1>1. i.fixture.status = "200"
  BY DEF Compatible, CheckSteps
<1>2. IF i.agent = "investigation" THEN ParseAccepts(b) ELSE RecommendationAccepted(b)
  BY DEF Compatible, CheckSteps
<1>3. i.agent \in {"investigation", "response"}
  BY ContractChecksAssumption
<1>4. CASE i.agent = "investigation"
  <2>1. ClientAccepts(b) /\ b.version \notin {"no_object", "2.0"}
    BY <1>2, <1>4 DEF ParseAccepts, ClientAccepts
  <2> QED
    BY <1>1, <1>4, <2>1, AnswerAccepted
<1>5. CASE i.agent = "response"
  <2>1. RecommendationAccepted(b) /\ b.version \notin {"no_object", "2.0"}
    BY <1>2, <1>5 DEF RecommendationAccepted
  <2> QED
    BY <1>1, <1>5, <2>1, AnswerAccepted
<1> QED
  BY <1>3, <1>4, <1>5

-----------------------------------------------------------------------------
\* A row is told healthy after a request that found it so, or that left alone what was told before.
LEMMA HealthyAfter ==
  ASSUME NEW row, NEW r, r.checks \in BOOLEAN, ToldReachable(AfterRequest(row, r))
  PROVE  \/ r.checks /\ ClientHealth(r.settings, r.reply) = "healthy"
         \/ /\ ToldReachable(row) /\ Enabled(r.settings)
            /\ r.checks => ClientHealth(r.settings, r.reply) = "raises"
<1> DEFINE said == ClientHealth(r.settings, r.reply)
           once == SyncFromSettings(row, r.settings)
           twice == SyncFromSettings(once, r.settings)
<1>1. /\ once.health = IF Enabled(r.settings) THEN row.health ELSE "disabled"
      /\ twice.health = IF Enabled(r.settings) THEN once.health ELSE "disabled"
  BY DEF SyncFromSettings
<1>2. CASE ~ r.checks
  <2>1. AfterRequest(row, r) = once
    BY <1>2 DEF AfterRequest
  <2> HIDE DEF once
  <2> QED
    BY <1>1, <1>2, <2>1 DEF ToldReachable
<1>3. CASE r.checks
  <2>1. AfterRequest(row, r) = [twice EXCEPT !.health = IF said = "raises" THEN @ ELSE said]
    BY <1>3 DEF AfterRequest, CheckHealth
  <2>2. AfterRequest(row, r).health = IF said = "raises" THEN twice.health ELSE said
    BY <2>1 DEF SyncFromSettings
  <2> HIDE DEF once, twice, said
  <2>3. IF said = "raises" THEN twice.health = "healthy" ELSE said = "healthy"
    BY <2>2 DEF ToldReachable
  <2> QED
    BY <1>1, <1>3, <2>3 DEF ToldReachable, said
<1> QED
  BY <1>2, <1>3

LEMMA EveryHealthChecked == ASSUME NEW h \in AgentHistories PROVE ReachableByCheck(h)
<1> DEFINE q(k) == h.requests[k]
           said(k) == ClientHealth(q(k).settings, q(k).reply)
           Since(n, k) == /\ q(k).checks /\ said(k) = "healthy"
                          /\ \A j \in (k + 1)..n : Enabled(q(j).settings) /\ (q(j).checks => said(j) \in {"healthy", "raises"})
           Fits(n) == ToldReachable(h.rows[n]) => \E k \in 1..n : Since(n, k)
           N == Len(h.requests)
           Fails == {n \in 0..N : ~ Fits(n)}
<1>1. /\ N \in Nat /\ DOMAIN h.requests = 1..N /\ DOMAIN h.rows = 0..N /\ h.rows[0] = NewRow
      /\ \A n \in 1..N : h.rows[n] = AfterRequest(h.rows[n - 1], q(n)) /\ q(n).checks \in BOOLEAN
  <2> DEFINE S == [settings : [integration : BOOLEAN, agent : BOOLEAN, mode : STRING, url : BOOLEAN],
                   checks : BOOLEAN, reply : [status : STRING]]
  <2>1. h.requests \in Seq(S) /\ RowsOf(h.requests, h.rows)
    BY AgentHistoriesAssumption
  <2>2. \A r \in S : r.checks \in BOOLEAN
    OBVIOUS
  <2> HIDE DEF S
  <2>3. N \in Nat /\ DOMAIN h.requests = 1..N /\ \A n \in 1..N : q(n) \in S
    BY <2>1
  <2>4. /\ DOMAIN h.rows = 0..N /\ h.rows[0] = NewRow
        /\ \A n \in DOMAIN h.requests : h.rows[n] = AfterRequest(h.rows[n - 1], q(n))
    BY <2>1 DEF RowsOf
  <2> QED
    BY <2>2, <2>3, <2>4
<1>2. Fits(0)
  BY <1>1 DEF NewRow, ToldReachable
<1>3. ASSUME NEW n \in 1..N, Fits(n - 1) PROVE Fits(n)
  <2> SUFFICES ASSUME ToldReachable(h.rows[n]) PROVE \E k \in 1..n : Since(n, k)
    OBVIOUS
  <2>1. \/ q(n).checks /\ said(n) = "healthy"
        \/ ToldReachable(h.rows[n - 1]) /\ Enabled(q(n).settings) /\ (q(n).checks => said(n) = "raises")
    BY <1>1, HealthyAfter
  <2>2. CASE q(n).checks /\ said(n) = "healthy"
    <3>1. Since(n, n)
      BY <2>2, <1>1
    <3> QED
      BY <3>1
  <2>3. CASE ToldReachable(h.rows[n - 1]) /\ Enabled(q(n).settings) /\ (q(n).checks => said(n) = "raises")
    <3>1. PICK k \in 1..(n - 1) : Since(n - 1, k)
      BY <1>3, <2>3
    <3>2. \A j \in (k + 1)..n : j \in (k + 1)..(n - 1) \/ j = n
      OBVIOUS
    <3>3. Since(n, k)
      BY <2>3, <3>1, <3>2
    <3> QED
      BY <3>3
  <2> QED
    BY <2>1, <2>2, <2>3
<1> HIDE DEF Fits
<1>4. Fails = {}
  <2> SUFFICES ASSUME Fails # {} PROVE FALSE
    OBVIOUS
  <2>1. PICK n \in Fails : \A m \in Fails : n <= m
    <3>1. Fails \in SUBSET Nat
      OBVIOUS
    <3> HIDE DEF Fails
    <3> QED
      BY <3>1, SmallestNat
  <2>2. n \in 1..N /\ n - 1 \in 0..N /\ ~ (n <= n - 1) /\ ~ Fits(n)
    BY <1>1, <1>2, <2>1
  <2>3. Fits(n - 1)
    BY <2>1, <2>2
  <2> QED
    BY <1>3, <2>2, <2>3
<1> QED
  BY <1>1, <1>4 DEF ReachableByCheck, Fits

-----------------------------------------------------------------------------
LEMMA EveryListOpens == ASSUME NEW i \in RunLists PROVE ListedOpens(i)
BY RunListsAssumption DEF ListedOpens, ListRuns, ListFindings, Newest, GetRun, GetFinding

\* A batch has no more clusters than findings.
LEMMA ClustersCounted ==
  ASSUME NEW T, NEW s \in Seq(T) PROVE Cardinality(Clusters(s)) \in Nat
<1> DEFINE c == [k \in 1..Len(s) |-> s[k].cluster]
<1>1. Len(s) \in Nat
  OBVIOUS
<1>2. c \in Surjection(1..Len(s), Clusters(s))
  BY DEF Clusters, ToSet, Surjection
<1>3. IsFiniteSet(1..Len(s))
  BY <1>1, FS_Interval
<1>4. IsFiniteSet(Clusters(s))
  BY <1>2, <1>3, FS_Surjection
<1> QED
  BY <1>4, FS_CardinalityType

LEMMA EveryForwardedValid == ASSUME NEW b \in RawBatches PROVE ForwardedIsValid(b)
<1> DEFINE told == IF b.total = Null THEN 1 ELSE b.total
           n == Cardinality(Clusters(b.threats))
           total == Max({told, n})
           F == [count |-> Len(b.threats), threats |-> b.threats, total |-> total]
<1>1. b.threats \in Seq([cluster : STRING, tier : 1..3, confidence : 0..100]) /\ told \in Int
  BY RawBatchesAssumption
<1>2. n \in Nat
  BY <1>1, ClustersCounted
<1>3. total \in Int /\ total >= n
  <2>1. \A x, y \in Int : Max({x, y}) \in Int /\ Max({x, y}) >= y
    BY DEF Max
  <2> HIDE DEF told, n
  <2> QED
    BY <1>1, <1>2, <2>1
<1>4. Forwarded(b) = IF b.threats = << >> THEN {} ELSE {F}
  BY DEF Forwarded
<1>5. BatchValid(F)
  <2> DEFINE S == [cluster : STRING, tier : 1..3, confidence : 0..100]
  <2>0. \A t \in S : t.tier \in 1..3 /\ t.confidence \in 0..100
    OBVIOUS
  <2>1. \A t \in ToSet(b.threats) : t.tier \in 1..3 /\ t.confidence \in 0..100
    <3> HIDE DEF S
    <3>1. b.threats \in Seq(S)
      BY <1>1 DEF S
    <3>2. \A t \in ToSet(b.threats) : t \in S
      BY <3>1 DEF ToSet
    <3> QED
      BY <2>0, <3>2
  <2>2. n = Cardinality({t.cluster : t \in ToSet(b.threats)})
    BY DEF Clusters
  <2> HIDE DEF n, total
  <2> QED
    BY <1>2, <1>3, <2>1, <2>2 DEF BatchValid
<1> HIDE DEF F
<1> QED
  BY <1>4, <1>5 DEF ForwardedIsValid

LEMMA ActuationOf ==
  ASSUME NEW e
  PROVE  Actuation(e) # "not_executed" <=> e.decision = "AUTONOMOUS_ISOLATE" /\ (e.confirmed \/ e.sent)
<1>1. CASE e.decision = "AUTONOMOUS_ISOLATE" /\ e.confirmed
  BY <1>1, Zenon DEF Actuation
<1>2. CASE e.decision = "AUTONOMOUS_ISOLATE" /\ ~ e.confirmed /\ e.sent
  BY <1>2, Zenon DEF Actuation
<1>3. CASE ~ (e.decision = "AUTONOMOUS_ISOLATE" /\ (e.confirmed \/ e.sent))
  BY <1>3, Zenon DEF Actuation
<1> QED
  BY <1>1, <1>2, <1>3

LEMMA EveryValveTold == ASSUME NEW e \in AuditEntries PROVE SafetyTellsTheValve(e)
<1>1. /\ e.sent \in BOOLEAN /\ e.confirmed \in BOOLEAN
      /\ e.sent <=> e.decision = "AUTONOMOUS_ISOLATE"
      /\ e.confirmed => e.sent
  BY AuditEntriesAssumption
<1>2. /\ ToResponseResult(e).decision = e.decision /\ ToResponseResult(e).sent = e.sent
      /\ ToResponseResult(e).confirmed = e.confirmed /\ ToResponseResult(e).audit = Actuation(e)
  BY DEF ToResponseResult
<1>3. EvaluateSafety(MockRecommendation(e.tier)) = "advisory"
  BY DEF EvaluateSafety, MockRecommendation, Reported
<1>4. EvaluateSafety(ToResponseResult(e)) =
        IF e.decision = "AUTONOMOUS_ISOLATE" \/ e.sent \/ e.confirmed
        THEN IF e.sent \/ e.confirmed THEN "unverified" ELSE "blocked" ELSE "advisory"
  BY <1>2 DEF EvaluateSafety, Reported
<1> QED
  BY <1>1, <1>2, <1>3, <1>4, ActuationOf DEF SafetyTellsTheValve

-----------------------------------------------------------------------------
\* What a probe tells of each answer to the contract.
LEMMA VerdictOnContract ==
  ASSUME NEW spec, spec.claims \in BOOLEAN,
         NEW reply \in {"ok", "bad", "no_json", "404", "error", "timeout", "no_connection", "1.0", "2.0"}
  PROVE  /\ ContractVerdict(spec, reply).reachable
         /\ ContractVerdict(spec, reply).contract = "compatible" => spec.claims /\ reply = spec.expected
<1>1. CASE reply \in {"ok", "bad"}
  BY <1>1, Zenon DEF ContractVerdict, Healthy, Status
<1>2. CASE reply = "timeout"
  BY <1>2, Zenon DEF ContractVerdict, Healthy, Status
<1>3. CASE reply \in {"no_connection", "404"}
  BY <1>3, Zenon DEF ContractVerdict, Healthy, Status
<1>4. CASE reply \in {"error", "no_json"}
  BY <1>4, Zenon DEF ContractVerdict, Healthy, Status
<1>5. CASE reply \in {"1.0", "2.0"}
  <2>1. CASE spec.claims
    <3>1. ContractVerdict(spec, reply) = IF reply = spec.expected THEN Healthy("compatible", reply, Null)
                                         ELSE Healthy("incompatible", reply, "agent_contract_mismatch")
      BY <1>5, <2>1, Zenon DEF ContractVerdict
    <3> QED
      BY <2>1, <3>1 DEF Healthy, Status
  <2>2. CASE ~ spec.claims
    BY <1>5, <2>2, Zenon DEF ContractVerdict, Healthy, Status
  <2> QED
    BY <2>1, <2>2
<1> QED
  BY <1>1, <1>2, <1>3, <1>4, <1>5

LEMMA EveryProbeCautious == ASSUME NEW i \in Probes PROVE ProbeIsCautious(i)
<1>1. /\ i.spec.configured \in BOOLEAN /\ i.spec.claims \in BOOLEAN
      /\ i.health \in {"ok", "bad", "no_json", "404", "error", "timeout", "no_connection", "raises"}
      /\ i.contract \in {"ok", "bad", "no_json", "404", "error", "timeout", "no_connection", "raises", "1.0", "2.0"}
  BY ProbesAssumption
<1>2. CASE i.spec.configured /\ i.health = "ok" /\ i.contract # "raises"
  <2>1. Probe(i.spec, i.health, i.contract) = ContractVerdict(i.spec, i.contract)
    BY <1>2 DEF Probe, Refused
  <2> QED
    BY <1>1, <1>2, <2>1, VerdictOnContract DEF ProbeIsCautious
<1>3. CASE ~ (i.spec.configured /\ i.health = "ok" /\ i.contract # "raises")
  <2> DEFINE told == Probe(i.spec, i.health, i.contract)
  <2>1. \/ told = Unavailable("agent_health_timeout") \/ told = Unavailable("agent_unreachable")
        \/ told = Unavailable("agent_health_invalid")
        \/ told = Status(FALSE, FALSE, "not_configured", "unknown", Null, "agent_not_configured")
    BY <1>1, <1>3 DEF Probe, Refused
  <2>2. \A e \in ErrorCodes : e # Null
    BY ErrorCodesAssumption
  <2>3. ~ told.reachable /\ told.error # Null /\ told.contract \notin {"compatible", "incompatible"}
    <3> HIDE DEF told
    <3> QED
      BY <2>1, <2>2 DEF Unavailable, Status, ErrorCodes
  <2> QED
    BY <2>3 DEF ProbeIsCautious
<1> QED
  BY <1>2, <1>3

\* An entry of the cache is the answer of the last call before that probed its agent.
LEMMA EveryCacheFresh == ASSUME NEW u \in CacheUses PROVE CacheIsFresh(u)
<1> DEFINE N == Len(u.calls)
           w(k) == u.calls[k]
           P(k) == ProbedBy(u, k)
           From(n, a, k) == /\ a \in P(k) /\ \A j \in (k + 1)..n : a \notin P(j)
                            /\ u.caches[n][a] = [status |-> w(k).probed[a], expires |-> w(k).ended + u.seconds]
           Fits(n) == /\ u.seconds = 0 => DOMAIN u.caches[n] = {}
                      /\ \A a \in DOMAIN u.caches[n] : \E k \in 1..n : From(n, a, k)
           Fails == {n \in 0..N : ~ Fits(n)}
           Asked == {"investigation", "response", "network"}
           S == [began : Nat, ended : Nat, seen : Nat, refresh : BOOLEAN, probed : [Asked -> [health : STRING, at : Nat]]]
<1>0. u.calls \in Seq(S)
  BY CacheUsesAssumption
<1>1. /\ N \in Nat /\ DOMAIN u.calls = 1..N /\ u.seconds \in Nat /\ u.caches[0] = << >>
      /\ \A n \in 1..N : u.caches[n] = Written(u.caches[n - 1], P(n), w(n), u.seconds)
  <2> HIDE DEF S
  <2>1. N \in Nat /\ DOMAIN u.calls = 1..N
    BY <1>0
  <2>2. u.seconds \in Nat /\ CachesOf(u)
    BY CacheUsesAssumption
  <2> QED
    BY <2>1, <2>2 DEF CachesOf
<1>2. \A n \in 1..N : /\ w(n).seen \in 0..(n - 1) /\ w(n).began \in Nat /\ w(n).ended \in Nat
                      /\ \A a \in DOMAIN w(n).probed : w(n).probed[a].at \in Nat /\ w(n).began <= w(n).probed[a].at
  <2>2. \A c \in S : /\ c.began \in Nat /\ c.ended \in Nat /\ c.seen \in Nat
                     /\ \A a \in DOMAIN c.probed : c.probed[a].at \in Nat
    OBVIOUS
  <2> HIDE DEF S
  <2>3. \A n \in 1..N : w(n) \in S
    BY <1>0, <1>1
  <2>4. \A n \in 1..N : w(n).seen < n /\ \A a \in DOMAIN w(n).probed : w(n).began <= w(n).probed[a].at
    BY <1>1, CacheUsesAssumption
  <2> QED
    BY <2>2, <2>3, <2>4
<1>3. Fits(0)
  <2>1. DOMAIN u.caches[0] = {}
    BY <1>1
  <2> QED
    BY <2>1
<1>4. ASSUME NEW n \in 1..N, Fits(n - 1) PROVE Fits(n)
  <2>1. u.caches[n] = Written(u.caches[n - 1], P(n), w(n), u.seconds)
    BY <1>1
  <2> HIDE DEF P
  <2>2. CASE u.seconds = 0
    BY <1>4, <2>1, <2>2 DEF Written
  <2>3. CASE u.seconds # 0
    <3> SUFFICES ASSUME NEW a \in DOMAIN u.caches[n] PROVE \E k \in 1..n : From(n, a, k)
      BY <2>3
    <3>1. CASE a \in P(n)
      <4>1. u.caches[n][a] = [status |-> w(n).probed[a], expires |-> w(n).ended + u.seconds]
        BY <2>1, <2>3, <3>1 DEF Written
      <4>2. From(n, a, n)
        BY <3>1, <4>1
      <4> QED
        BY <4>2
    <3>2. CASE a \notin P(n)
      <4>1. a \in DOMAIN u.caches[n - 1] /\ u.caches[n][a] = u.caches[n - 1][a]
        BY <2>1, <2>3, <3>2 DEF Written
      <4>2. PICK k \in 1..(n - 1) : From(n - 1, a, k)
        BY <1>4, <4>1
      <4>3. \A j \in (k + 1)..n : j \in (k + 1)..(n - 1) \/ j = n
        OBVIOUS
      <4>4. From(n, a, k)
        BY <3>2, <4>1, <4>2, <4>3
      <4> QED
        BY <4>4
    <3> QED
      BY <3>1, <3>2
  <2> QED
    BY <2>2, <2>3
<1> HIDE DEF Fits
<1>5. Fails = {}
  <2> SUFFICES ASSUME Fails # {} PROVE FALSE
    OBVIOUS
  <2>1. PICK n \in Fails : \A m \in Fails : n <= m
    <3>1. Fails \in SUBSET Nat
      OBVIOUS
    <3> HIDE DEF Fails
    <3> QED
      BY <3>1, SmallestNat
  <2>2. n \in 1..N /\ n - 1 \in 0..N /\ ~ (n <= n - 1) /\ ~ Fits(n)
    BY <1>1, <1>3, <2>1
  <2>3. Fits(n - 1)
    BY <2>1, <2>2
  <2> QED
    BY <1>4, <2>2, <2>3
<1>6. ASSUME NEW n \in 1..N, NEW a \in DOMAIN w(n).probed \ P(n)
      PROVE  \E k \in 1..w(n).seen :
               /\ Collected(Seen(u, n), w(n))[a] = w(k).probed[a] /\ w(n).began - w(k).ended < u.seconds
               /\ w(n).began - w(k).probed[a].at < u.seconds + (w(k).ended - w(k).began)
               /\ a \in P(k) /\ \A j \in (k + 1)..w(n).seen : a \notin P(j)
  <2> DEFINE seen == w(n).seen
             entry == u.caches[seen][a]
  <2>1. /\ Seen(u, n) = u.caches[seen] /\ P(n) = PendingProbes(u.caches[seen], w(n))
    BY DEF Seen, ProbedBy
  <2>2. a \in DOMAIN u.caches[seen] /\ ~ (entry.expires <= w(n).began)
    BY <1>6, <2>1 DEF PendingProbes
  <2>3. Collected(Seen(u, n), w(n))[a] = entry.status
    BY <1>6, <2>1 DEF Collected
  <2>4. seen \in 0..N /\ w(n).began \in Nat
    BY <1>1, <1>2
  <2>5. PICK k \in 1..seen : From(seen, a, k)
    <3>1. Fits(seen)
      BY <1>5, <2>4
    <3> QED
      BY <2>2, <3>1 DEF Fits
  <2>6. entry.status = w(k).probed[a] /\ entry.expires = w(k).ended + u.seconds
    BY <2>5
  <2>7. k \in 1..N /\ a \in DOMAIN w(k).probed
    BY <2>4, <2>5 DEF ProbedBy, PendingProbes
  <2>8. /\ w(k).began \in Nat /\ w(k).ended \in Nat
        /\ w(k).probed[a].at \in Nat /\ w(k).began <= w(k).probed[a].at
    BY <1>2, <2>7
  <2>9. w(n).began < w(k).ended + u.seconds
    BY <1>1, <2>2, <2>4, <2>6, <2>8
  <2>10. /\ w(n).began - w(k).ended < u.seconds
         /\ w(n).began - w(k).probed[a].at < u.seconds + (w(k).ended - w(k).began)
    <3>1. \A x, y, z, t, l \in Nat : x < y + l /\ z <= t => x - y < l /\ x - t < l + (y - z)
      OBVIOUS
    <3>2. u.seconds \in Nat /\ w(n).began \in Nat
      BY <1>1, <2>4
    <3> QED
      BY <2>8, <2>9, <3>1, <3>2
  <2> QED
    BY <2>3, <2>5, <2>6, <2>10
<1> QED
  BY <1>1, <1>6 DEF CacheIsFresh

\* For all answers, histories, lists, batches, results, probes and caches, what the platform tells
\* of the agents is what they answered, and what they tell the platform fits its contract.
THEOREM ContractsHold == ContractsSpec => []AgentsToldTrue
<1> DEFINE Tried == /\ subject = "contract" => input \in ContractChecks
                    /\ subject = "health" => input \in AgentHistories
                    /\ subject = "lists" => input \in RunLists
                    /\ subject = "forward" => input \in RawBatches
                    /\ subject = "entry" => input \in AuditEntries
                    /\ subject = "probe" => input \in Probes
                    /\ subject = "cache" => input \in CacheUses
           TryAny == TryContract \/ TryHealth \/ TryLists \/ TryForward \/ TryEntry \/ TryProbe \/ TryCache
<1>1. Untried => Tried
  BY DEF Untried
<1>2. Tried /\ [TryAny]_trial => Tried'
  BY DEF TryContract, TryHealth, TryLists, TryForward, TryEntry, TryProbe, TryCache, Try, trial
<1>3. Tried => AgentsToldTrue
  BY EveryCompatibleAccepted, EveryHealthChecked, EveryListOpens, EveryForwardedValid, EveryValveTold,
     EveryProbeCautious, EveryCacheFresh DEF AgentsToldTrue, For
<1> QED
  BY <1>1, <1>2, <1>3, PTL DEF ContractsSpec
=============================================================================
