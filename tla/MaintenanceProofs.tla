-------------------------- MODULE MaintenanceProofs --------------------------
(***************************************************************************)
(* Proofs about Maintenance for any sessions, plans, orders and dates.     *)
(* IInv is the inductive invariant:                                        *)
(*   Types     what rows and transactions may be;                          *)
(*   Room      what is not committed fits the bound on orders;             *)
(*   Apart     no row and no number has two holders;                       *)
(*   AllGood   what a transaction has read under its locks is still so,    *)
(*             and what it will write agrees with it;                      *)
(*   OneOpenOrder.                                                         *)
(* AllReady, beside it, is for the refinement of MaintenanceBook: what a   *)
(* transaction has in hand at its commit.                                  *)
(* The last part is about the demonstration's seed: SeedDatabaseIs says    *)
(* table by table what it leaves, and SeedsHold follows from that.         *)
(***************************************************************************)
EXTENDS Maintenance, Seeds, FiniteSetTheorems, FunctionTheorems, SequenceTheorems, WellFoundedInduction, TLAPS

Ops   == {"none", "edit", "create_order", "create_plan", "update_plan", "generate"}
Steps == {"idle", "insert", "ready", "locking", "plan"}
Tran  == [op : Ops, step : Steps, plan : Plans \union {NoPlan}, order : Nat,
          locks : SUBSET Plans, holds : SUBSET Numbers,
          rows : Seq(OrderRow), row : PlanRow \union OrderRow \union {<< >>}, moved : SUBSET Plans,
          queue : Seq(Plans), todo : Seq(Plans), asOf : Nat, seen : {0} \union Dates, date : {0} \union Dates]

Types ==
  /\ plan \in [Plans -> PlanRow] /\ order \in Seq(OrderRow) /\ Len(order) <= MaxOrders
  /\ next \in {0} \union Dates /\ tx \in [Sessions -> Tran]

Room == \A s \in Sessions : tx[s].step # "insert" => Len(order) + Len(tx[s].rows) <= MaxOrders

Disjoint(t, z) == /\ t.locks \intersect z.locks = {} /\ t.holds \intersect z.holds = {}
                  /\ t.order # 0 => t.order # z.order
Apart == \A s, u \in Sessions : s # u => Disjoint(tx[s], tx[u])

Elems(q)    == {q[i] : i \in DOMAIN q}
Distinct(q) == \A i, j \in DOMAIN q : i # j => q[i] # q[j]
OpenIn(p, od) == \E o \in DOMAIN od : od[o].plan = p /\ od[o].status \in Open
SeenBy(t, pl) == IF t.op \in {"create_plan", "update_plan"} THEN [pl EXCEPT ![t.plan] = t.row] ELSE pl

\* What an operation has at its steps.
KindGood(t) ==
  /\ t.step = "idle" => t = Idle
  /\ t.op # "generate" => t.todo = << >> /\ t.queue = << >> /\ t.moved = {} /\ t.step \notin {"locking", "plan"}
  /\ t.op = "generate" => t.order = 0 /\ t.step # "insert"
  /\ t.step = "locking" => t.queue # << >> /\ t.rows = << >> /\ t.moved = {}
  /\ t.step = "plan" => t.todo # << >>
  /\ t.rows # << >> => t.op \in {"create_order", "generate"}
  /\ t.step \in {"insert", "locking"} => t.holds = {}
  /\ t.step = "plan" => t.holds \in {{}, Needs("generate")}
  /\ t.op \in {"edit", "create_plan"} => t.locks = {}
  /\ t.op = "none" => t.step = "idle"
\* The order it has locked is as it was read.
EditGood(t, od) ==
  t.order # 0 => t.op = "edit" /\ t.order \in DOMAIN od /\ t.row = od[t.order] /\ t.rows = << >>
\* The orders it will insert are of plans it has locked, without an open one; their numbers are held.
RowsGood(t, od) ==
  /\ \A i \in DOMAIN t.rows :
       /\ t.rows[i] = NewOrder(t.rows[i].plan)
       /\ t.rows[i].plan # NoPlan => t.rows[i].plan \in t.locks /\ ~OpenIn(t.rows[i].plan, od)
  /\ \A i, j \in DOMAIN t.rows : i # j => t.rows[i].plan # t.rows[j].plan
  /\ t.rows # << >> /\ t.step # "insert" => {"order_number", "event_number"} \subseteq t.holds
\* Each plan it will move on has such an order.
MovedGood(t, pl) ==
  \A p \in t.moved : /\ p \in t.locks /\ pl[p].state # "absent" /\ pl[p].due < MaxDate
                     /\ \E i \in DOMAIN t.rows : t.rows[i] = NewOrder(p)
\* The plans a run has yet to look at are locked, and there.
TodoGood(t, pl) ==
  /\ \A p \in Elems(t.todo) : /\ p \in t.locks /\ pl[p].state # "absent"
                              /\ \A i \in DOMAIN t.rows : t.rows[i].plan # p
  /\ Distinct(t.todo)
\* A run locks each plan once.
QueueGood(t) == Distinct(t.queue) /\ Elems(t.queue) \intersect Elems(t.todo) = {}
\* A change of a plan holds the next event's number from the moment it looked at the asset's plans.
PlanGood(t, pl) ==
  t.op \in {"create_plan", "update_plan"} =>
    /\ t.rows = << >>
    /\ t.op = "update_plan" => t.plan \in Plans /\ t.plan \in t.locks /\ pl[t.plan].state # "absent"
    /\ t.step = "ready" =>
         /\ t.plan \in Plans /\ t.row \in PlanRow /\ "event_number" \in t.holds
         /\ t.op = "create_plan" => pl[t.plan].state = "absent"
         /\ EnabledIn(SeenBy(t, pl)) # {} => t.date = FirstDate(SeenBy(t, pl))
Good(t, pl, od) == /\ KindGood(t) /\ EditGood(t, od) /\ RowsGood(t, od) /\ MovedGood(t, pl)
                   /\ TodoGood(t, pl) /\ QueueGood(t) /\ PlanGood(t, pl)
AllGood == \A s \in Sessions : Good(tx[s], plan, order)

IInv == Types /\ Room /\ Apart /\ AllGood /\ OneOpenOrder

-----------------------------------------------------------------------------
(* Numbers, sets and sequences. *)
\* The smallest of numbers.
LEMMA SmallestNat == ASSUME NEW T \in SUBSET Nat, T # {} PROVE \E x \in T : \A y \in T : x <= y
<1> DEFINE R == {ss \in Nat \X Nat : ss[1] < ss[2]}
<1>1. R = OpToRel(<, Nat)
  BY DEF OpToRel
<1>2. IsWellFoundedOn(R, Nat)
  BY <1>1, NatLessThanWellFounded
<1>3. ASSUME NEW x \in Nat, NEW y \in Nat, y < x PROVE <<y, x>> \in R
  BY <1>3
<1> HIDE DEF R
<1>4. PICK x \in T : \A y \in T : <<y, x>> \notin R
  BY <1>2, WFMin
<1>5. \A y \in T : ~ (y < x)
  BY <1>3, <1>4
<1> QED
  BY <1>5

\* Of enabled plans one is the first.
LEMMA FirstDateFact ==
  ASSUME NEW rows \in [Plans -> PlanRow], EnabledIn(rows) # {}
  PROVE  FirstDate(rows) \in Dates
<1> DEFINE T == {rows[p].due : p \in EnabledIn(rows)}
<1>1. \A p \in EnabledIn(rows) : rows[p].due \in Dates
  BY DEF EnabledIn, PlanRow
<1>2. T \in SUBSET Nat /\ T # {}
  BY <1>1, MaxDateAssumption DEF Dates
<1>3. PICK d \in T : \A e \in T : d <= e
  <2> HIDE DEF T
  <2> QED
    BY <1>2, SmallestNat
<1>4. d \in Dates /\ (\E p \in EnabledIn(rows) : rows[p].due = d) /\ \A p \in EnabledIn(rows) : d <= rows[p].due
  BY <1>1, <1>3
<1> QED
  BY <1>4 DEF FirstDate

\* Some plans have a first one.
LEMMA FirstOf ==
  ASSUME NEW rows \in [Plans -> PlanRow], NEW S \in SUBSET Plans, S # {}
  PROVE  \E m \in S : \A p \in S : Earlier(rows, m, p)
<1> DEFINE T == {rows[p].due : p \in S}
<1>1. \A p \in S : rows[p].due \in Nat /\ p \in Nat
  BY PlansAssumption, MaxDateAssumption DEF PlanRow, Dates
<1>2. T \in SUBSET Nat /\ T # {}
  BY <1>1
<1>3. PICK d \in T : \A e \in T : d <= e
  <2> HIDE DEF T
  <2> QED
    BY <1>2, SmallestNat
<1> DEFINE U == {p \in S : rows[p].due = d}
<1>4. U \in SUBSET Nat /\ U # {}
  BY <1>1, <1>3
<1>5. PICK m \in U : \A p \in U : m <= p
  <2> HIDE DEF U
  <2> QED
    BY <1>4, SmallestNat
<1>6. ASSUME NEW p \in S PROVE Earlier(rows, m, p)
  <2>1. d <= rows[p].due /\ rows[m].due = d /\ rows[p].due \in Nat /\ d \in Nat
    BY <1>1, <1>3, <1>5
  <2>2. CASE rows[p].due = d
    <3>1. m <= p
      BY <1>5, <2>2
    <3> QED
      BY <2>1, <2>2, <3>1 DEF Earlier
  <2>3. CASE rows[p].due # d
    BY <2>1, <2>3 DEF Earlier
  <2> QED
    BY <2>2, <2>3
<1> QED
  BY <1>5, <1>6

\* q is S in the order of its plans.
Sorts(rows, S, n, q) == q \in [1..n -> S] /\ \A i, j \in 1..n : i < j => q[i] # q[j] /\ Earlier(rows, q[i], q[j])
\* Every set of plans can be put in order: of the sets that cannot, a smallest one without
\* its first plan could.
LEMMA Sortable ==
  ASSUME NEW rows \in [Plans -> PlanRow], NEW S \in SUBSET Plans
  PROVE  \E q : Sorts(rows, S, Cardinality(S), q)
<1> DEFINE Bad == {n \in Nat : \E U \in SUBSET Plans : Cardinality(U) = n /\ ~ \E q : Sorts(rows, U, n, q)}
<1>1. ASSUME NEW U \in SUBSET Plans PROVE IsFiniteSet(U) /\ Cardinality(U) \in Nat
  BY PlansAssumption, FS_Subset, FS_CardinalityType
<1>2. ASSUME Bad # {} PROVE FALSE
  <2>1. PICK n \in Bad : \A m \in Bad : n <= m
    <3>1. Bad \in SUBSET Nat
      OBVIOUS
    <3> HIDE DEF Bad
    <3> QED
      BY <1>2, <3>1, SmallestNat
  <2>2. PICK U \in SUBSET Plans : Cardinality(U) = n /\ ~ \E q : Sorts(rows, U, n, q)
    BY <2>1
  <2>3. n \in Nat
    BY <2>1
  <2>4. CASE U = {}
    <3>1. n = 0
      BY <2>2, <2>4, FS_EmptySet
    <3>2. Sorts(rows, U, n, [i \in 1..0 |-> 0])
      BY <3>1 DEF Sorts
    <3> QED
      BY <2>2, <3>2
  <2>5. CASE U # {}
    <3>1. PICK m \in U : \A p \in U : Earlier(rows, m, p)
      BY <2>5, FirstOf
    <3> DEFINE V == U \ {m}
    <3>2. V \in SUBSET Plans /\ Cardinality(V) = n - 1 /\ n - 1 \in Nat
      <4>1. V \in SUBSET Plans /\ IsFiniteSet(U) /\ m \in U
        BY <1>1, <3>1
      <4>2. Cardinality(V) = Cardinality(U) - 1
        BY <4>1, FS_RemoveElement
      <4>3. Cardinality(V) \in Nat
        <5> HIDE DEF V
        <5> QED
          BY <1>1, <4>1
      <4> QED
        BY <2>2, <4>1, <4>2, <4>3
    <3>3. n - 1 \notin Bad
      <4> HIDE DEF Bad
      <4> QED
        BY <2>1, <2>3, <3>2
    <3>4. PICK g : Sorts(rows, V, n - 1, g)
      <4> HIDE DEF V
      <4> QED
        BY <3>2, <3>3
    <3> DEFINE q == [i \in 1..n |-> IF i = 1 THEN m ELSE g[i - 1]]
    <3>5. \A i \in 1..n : i # 1 => i - 1 \in 1..(n - 1) /\ q[i] = g[i - 1] /\ q[i] \in V
      BY <2>3, <3>4 DEF Sorts
    <3>6. q \in [1..n -> U]
      BY <3>1, <3>5
    <3>7. ASSUME NEW i \in 1..n, NEW j \in 1..n, i < j PROVE q[i] # q[j] /\ Earlier(rows, q[i], q[j])
      <4>1. j # 1 /\ j - 1 \in 1..(n - 1) /\ q[j] = g[j - 1] /\ q[j] \in V
        BY <2>3, <3>5, <3>7
      <4>2. CASE i = 1
        <5>1. q[i] = m
          BY <4>2
        <5> HIDE DEF q
        <5> QED
          BY <3>1, <4>1, <5>1
      <4>3. CASE i # 1
        <5>1. i - 1 \in 1..(n - 1) /\ q[i] = g[i - 1] /\ i - 1 < j - 1
          BY <2>3, <3>5, <3>7, <4>3
        <5> HIDE DEF q
        <5> QED
          BY <3>4, <4>1, <5>1 DEF Sorts
      <4> QED
        BY <4>2, <4>3
    <3>8. Sorts(rows, U, n, q)
      <4> HIDE DEF q
      <4> QED
        BY <3>6, <3>7 DEF Sorts
    <3> QED
      BY <2>2, <3>8
  <2> QED
    BY <2>4, <2>5
<1>3. Cardinality(S) \notin Bad
  <2> HIDE DEF Bad
  <2> QED
    BY <1>2
<1> QED
  BY <1>1, <1>3

\* The order in which a run locks its plans: each once.
LEMMA InOrderFact ==
  ASSUME NEW rows \in [Plans -> PlanRow], NEW S \in SUBSET Plans, S # {}
  PROVE  /\ InOrder(rows, S) \in Seq(Plans) /\ InOrder(rows, S) # << >>
         /\ Distinct(InOrder(rows, S)) /\ Elems(InOrder(rows, S)) \subseteq S
<1> DEFINE n == Cardinality(S)
           q == InOrder(rows, S)
<1>1. n \in Nat /\ n # 0
  BY PlansAssumption, FS_Subset, FS_CardinalityType, FS_EmptySet
<1>2. \E g \in [1..n -> S] : \A i, j \in 1..n : i < j => g[i] # g[j] /\ Earlier(rows, g[i], g[j])
  BY Sortable DEF Sorts
<1>3. q \in [1..n -> S] /\ \A i, j \in 1..n : i < j => q[i] # q[j]
  BY <1>2 DEF InOrder
<1> HIDE DEF q, n
<1>4. DOMAIN q = 1..n /\ q \in Seq(Plans) /\ Elems(q) \subseteq S
  BY <1>1, <1>3 DEF Elems
<1>5. q # << >>
  BY <1>1, <1>4
<1>6. Distinct(q)
  <2> SUFFICES ASSUME NEW i \in 1..n, NEW j \in 1..n, i # j PROVE q[i] # q[j]
    BY <1>4 DEF Distinct
  <2>1. i < j \/ j < i
    BY <1>1
  <2> QED
    BY <1>3, <2>1
<1> QED
  BY <1>4, <1>5, <1>6 DEF q

\* A sequence of plans without its first.
LEMMA TailFact ==
  ASSUME NEW q \in Seq(Plans), q # << >>, Distinct(q)
  PROVE  /\ Head(q) \in Plans /\ Head(q) \in Elems(q) /\ Tail(q) \in Seq(Plans) /\ Distinct(Tail(q))
         /\ Elems(Tail(q)) \subseteq Elems(q) /\ Head(q) \notin Elems(Tail(q))
<1>1. /\ Len(q) \in Nat /\ DOMAIN q = 1..Len(q) /\ 1 \in DOMAIN q /\ Head(q) = q[1] /\ Tail(q) \in Seq(Plans)
      /\ DOMAIN Tail(q) = 1..(Len(q) - 1) /\ \A i \in 1..(Len(q) - 1) : Tail(q)[i] = q[i + 1]
  OBVIOUS
<1> DEFINE z == Tail(q)
<1> HIDE DEF z
<1>2. \A i \in DOMAIN z : i + 1 \in DOMAIN q /\ z[i] = q[i + 1] /\ i + 1 # 1
  BY <1>1 DEF z
<1>3. Distinct(z)
  <2> SUFFICES ASSUME NEW i \in DOMAIN z, NEW j \in DOMAIN z, i # j PROVE z[i] # z[j]
    BY DEF Distinct
  <2>1. i + 1 # j + 1
    BY <1>1 DEF z
  <2> QED
    BY <1>2, <2>1 DEF Distinct
<1>4. Elems(z) \subseteq Elems(q) /\ q[1] \notin Elems(z)
  BY <1>1, <1>2 DEF Elems, Distinct
<1> QED
  BY <1>1, <1>3, <1>4 DEF z, Elems

\* A sequence with one more at its end.
LEMMA AppendFact ==
  ASSUME NEW S, NEW q \in Seq(S), NEW x \in S
  PROVE  /\ Append(q, x) \in Seq(S) /\ Len(Append(q, x)) = Len(q) + 1 /\ Append(q, x) # << >>
         /\ DOMAIN Append(q, x) = 1..(Len(q) + 1) /\ Elems(Append(q, x)) = Elems(q) \union {x}
         /\ \A i \in DOMAIN q : Append(q, x)[i] = q[i]
         /\ Append(q, x)[Len(q) + 1] = x /\ Len(q) \in Nat /\ DOMAIN q = 1..Len(q)
<1>1. /\ Append(q, x) \in Seq(S) /\ Len(Append(q, x)) = Len(q) + 1 /\ Append(q, x) # << >>
      /\ DOMAIN Append(q, x) = 1..(Len(q) + 1) /\ \A i \in DOMAIN q : Append(q, x)[i] = q[i]
      /\ Append(q, x)[Len(q) + 1] = x /\ Len(q) \in Nat /\ DOMAIN q = 1..Len(q)
  OBVIOUS
<1> DEFINE z == Append(q, x)
<1> HIDE DEF z
<1>2. \A i \in DOMAIN z : i \in DOMAIN q \/ i = Len(q) + 1
  BY <1>1 DEF z
<1>3. Elems(z) = Elems(q) \union {x}
  BY <1>1, <1>2 DEF Elems, z
<1> QED
  BY <1>1, <1>3 DEF z

-----------------------------------------------------------------------------
(* A step that publishes nothing. *)
\* A transaction that holds nothing and has read nothing.
LEMMA IdleFact ==
  /\ Idle \in Tran /\ \A z : Disjoint(Idle, z)
  /\ \A pl, od : Good(Idle, pl, od)
  /\ Idle.step = "idle" /\ Idle.order = 0 /\ Idle.locks = {} /\ Idle.holds = {} /\ Idle.op = "none"
  /\ Idle.rows = << >> /\ Idle.moved = {} /\ Idle.queue = << >> /\ Idle.todo = << >>
<1>1. Idle \in Tran
  BY DEF Idle, Tran, Ops, Steps
<1>2. /\ Idle.op = "none" /\ Idle.step = "idle" /\ Idle.order = 0 /\ Idle.locks = {} /\ Idle.holds = {}
      /\ Idle.rows = << >> /\ Idle.moved = {} /\ Idle.queue = << >> /\ Idle.todo = << >>
  BY DEF Idle
<1>3. \A z : Disjoint(Idle, z)
  BY <1>2 DEF Disjoint
<1>4. ASSUME NEW pl, NEW od PROVE Good(Idle, pl, od)
  <2>1. DOMAIN Idle.rows = {} /\ DOMAIN Idle.queue = {} /\ DOMAIN Idle.todo = {}
    BY <1>2
  <2>2. KindGood(Idle) /\ EditGood(Idle, od) /\ PlanGood(Idle, pl)
    BY <1>2 DEF KindGood, EditGood, PlanGood
  <2>3. RowsGood(Idle, od) /\ MovedGood(Idle, pl)
    BY <1>2, <2>1 DEF RowsGood, MovedGood
  <2>4. TodoGood(Idle, pl) /\ QueueGood(Idle)
    BY <1>2, <2>1 DEF TodoGood, QueueGood, Elems, Distinct
  <2> QED
    BY <2>2, <2>3, <2>4 DEF Good
<1> QED
  BY <1>1, <1>2, <1>3, <1>4

\* One transaction changes.
LEMMA One ==
  ASSUME Types, NEW s \in Sessions, NEW w \in Tran, Goes(s, w)
  PROVE  tx' \in [Sessions -> Tran] /\ tx'[s] = w /\ \A u \in Rest(s) : tx'[u] = tx[u]
  BY DEF Types, Goes, Rest

\* What one holds, the others do not.
LEMMA ApartStays ==
  ASSUME Types, Apart, NEW s \in Sessions, NEW w \in Tran, Goes(s, w), \A u \in Rest(s) : Disjoint(w, tx[u])
  PROVE  Apart'
<1> SUFFICES ASSUME NEW a \in Sessions, NEW b \in Sessions, a # b PROVE Disjoint(tx'[a], tx'[b])
  BY DEF Apart, Disjoint
<1>1. tx'[s] = w /\ \A u \in Rest(s) : tx'[u] = tx[u]
  BY One
<1>2. CASE a = s
  BY <1>1, <1>2 DEF Rest
<1>3. CASE b = s
  <2>1. Disjoint(tx'[b], tx'[a])
    BY <1>1, <1>3 DEF Rest
  <2> QED
    BY <2>1 DEF Disjoint
<1>4. CASE a # s /\ b # s
  BY <1>1, <1>4 DEF Rest, Apart
<1> QED
  BY <1>2, <1>3, <1>4

\* A transaction goes on, and what it has then is good.
LEMMA QuietStep ==
  ASSUME IInv, NEW s \in Sessions, NEW w \in Tran, Goes(s, w), Unpublished, Good(w, plan, order),
         w.step # "insert" => Len(order) + Len(w.rows) <= MaxOrders, \A u \in Rest(s) : Disjoint(w, tx[u])
  PROVE  IInv'
<1>1. tx' \in [Sessions -> Tran] /\ tx'[s] = w /\ (\A u \in Rest(s) : tx'[u] = tx[u])
  BY One DEF IInv
<1>2. plan' = plan /\ order' = order /\ next' = next
  BY DEF Unpublished
<1>3. Types' /\ OneOpenOrder'
  BY <1>1, <1>2 DEF IInv, Types, OneOpenOrder
<1>4. Room'
  BY <1>1, <1>2 DEF IInv, Room, Rest
<1>5. Apart'
  BY ApartStays DEF IInv
<1>6. AllGood'
  BY <1>1, <1>2 DEF IInv, AllGood, Rest
<1> QED
  BY <1>3, <1>4, <1>5, <1>6 DEF IInv

\* What a request has at its beginning: it locks its rows and writes nothing yet.
LEMMA StartStep ==
  ASSUME IInv, NEW s \in Sessions, NEW w \in Tran, Starts(s, w), w.step = "insert", w.holds = {},
         w.op \in {"edit", "create_order", "create_plan", "update_plan"},
         w.moved = {}, w.queue = << >>, w.todo = << >>, w.op \in {"edit", "create_plan"} => w.locks = {},
         EditGood(w, order), RowsGood(w, order), PlanGood(w, plan), w.rows # << >> => w.op = "create_order",
         \A u \in Rest(s) : w.locks \intersect tx[u].locks = {} /\ (w.order # 0 => w.order # tx[u].order)
  PROVE  IInv'
<1>1. KindGood(w) /\ MovedGood(w, plan)
  BY DEF KindGood, MovedGood
<1>2. TodoGood(w, plan) /\ QueueGood(w)
  <2>1. DOMAIN w.queue = {} /\ DOMAIN w.todo = {}
    OBVIOUS
  <2> QED
    BY <2>1 DEF TodoGood, QueueGood, Elems, Distinct
<1>3. Good(w, plan, order)
  BY <1>1, <1>2 DEF Good
<1>4. \A u \in Rest(s) : Disjoint(w, tx[u])
  BY DEF Disjoint
<1> QED
  BY <1>3, <1>4, QuietStep DEF Starts

\* A request that ends with nothing written.
LEMMA FailStep == ASSUME IInv, NEW s \in Sessions, Fail(s) PROVE IInv'
<1>1. Len(order) + Len(Idle.rows) <= MaxOrders
  BY IdleFact, MaxOrdersAssumption DEF IInv, Types
<1> QED
  BY <1>1, IdleFact, QuietStep DEF Fail

\* An operation on an order begins.
LEMMA LockOrderStep == ASSUME IInv, NEW s \in Sessions, LockOrder(s) PROVE IInv'
<1>1. PICK o \in DOMAIN order :
        /\ OrderFree(s, o)
        /\ Starts(s, [Idle EXCEPT !.op = "edit", !.step = "insert", !.order = o, !.plan = order[o].plan,
                                  !.row = order[o]])
  BY DEF LockOrder
<1> DEFINE w == [Idle EXCEPT !.op = "edit", !.step = "insert", !.order = o, !.plan = order[o].plan,
                             !.row = order[o]]
<1>2. order[o] \in OrderRow /\ o \in Nat /\ o # 0
  BY DEF IInv, Types
<1>3. order[o].plan \in Plans \union {NoPlan}
  BY <1>2 DEF OrderRow
<1>4. /\ w \in Tran /\ w.op = "edit" /\ w.step = "insert" /\ w.order = o /\ w.row = order[o]
      /\ w.locks = {} /\ w.holds = {} /\ w.rows = << >> /\ w.moved = {} /\ w.queue = << >> /\ w.todo = << >>
  <2>1. "edit" \in Ops /\ "insert" \in Steps
    BY DEF Ops, Steps
  <2> QED
    BY <1>2, <1>3, <2>1, IdleFact DEF Tran
<1>5. Starts(s, w)
  BY <1>1
<1> HIDE DEF w
<1>6. DOMAIN w.rows = {}
  BY <1>4
<1>7. EditGood(w, order) /\ RowsGood(w, order) /\ PlanGood(w, plan)
  BY <1>4, <1>6 DEF EditGood, RowsGood, PlanGood
<1>8. \A u \in Rest(s) : w.order # tx[u].order
  BY <1>1, <1>4 DEF OrderFree
<1> QED
  BY <1>4, <1>5, <1>7, <1>8, StartStep

\* The creation of an order begins, of a plan or of none.
LEMMA CreateOrderStep == ASSUME IInv, NEW s \in Sessions, CreateOrder(s) PROVE IInv'
<1>1. PICK p \in Plans \union {NoPlan}, held \in SUBSET Plans :
        /\ Creates(s, p, held)
        /\ p # NoPlan => p \in held /\ ~HasOpenOrder(p)
        /\ \A u \in Rest(s) : held \intersect tx[u].locks = {}
  <2>1. CASE Creates(s, NoPlan, {})
    BY <2>1
  <2>2. CASE \E p \in EnabledIn(plan) : PlanFree(s, p) /\ ~HasOpenOrder(p) /\ Creates(s, p, {p})
    <3>1. PICK p \in EnabledIn(plan) : PlanFree(s, p) /\ ~HasOpenOrder(p) /\ Creates(s, p, {p})
      BY <2>2
    <3>2. p \in Plans /\ \A u \in Rest(s) : {p} \intersect tx[u].locks = {}
      BY <3>1 DEF IInv, Types, EnabledIn, PlanFree
    <3> QED
      BY <3>1, <3>2
  <2> QED
    BY <2>1, <2>2 DEF CreateOrder
<1> DEFINE w == [Idle EXCEPT !.op = "create_order", !.step = "insert", !.plan = p, !.locks = held,
                             !.rows = <<NewOrder(p)>>]
<1>2. NewOrder(p) \in OrderRow /\ NewOrder(p).plan = p
  BY DEF NewOrder, OrderRow, Open
<1>3. /\ w \in Tran /\ w.op = "create_order" /\ w.step = "insert" /\ w.order = 0 /\ w.rows = <<NewOrder(p)>>
      /\ w.locks = held /\ w.holds = {} /\ w.moved = {} /\ w.queue = << >> /\ w.todo = << >>
  <2>1. "create_order" \in Ops /\ "insert" \in Steps
    BY DEF Ops, Steps
  <2>2. <<NewOrder(p)>> \in Seq(OrderRow)
    BY <1>2
  <2> QED
    BY <1>2, <2>2, <2>1, IdleFact DEF Tran
<1>4. Starts(s, w)
  BY <1>1 DEF Creates
<1> HIDE DEF w
<1>5. DOMAIN w.rows = {1} /\ w.rows[1] = NewOrder(p)
  BY <1>3
<1>6. p # NoPlan => ~OpenIn(p, order)
  BY <1>1 DEF HasOpenOrder, OpenIn
<1>7. EditGood(w, order) /\ RowsGood(w, order) /\ PlanGood(w, plan)
  BY <1>1, <1>2, <1>3, <1>5, <1>6 DEF EditGood, RowsGood, PlanGood
<1> QED
  BY <1>1, <1>3, <1>4, <1>7, StartStep

\* The creation of a plan begins.
LEMMA CreatePlanStep == ASSUME IInv, NEW s \in Sessions, CreatePlan(s) PROVE IInv'
<1> DEFINE w == [Idle EXCEPT !.op = "create_plan", !.step = "insert", !.seen = next]
<1>1. Starts(s, w) /\ next \in {0} \union Dates
  BY DEF CreatePlan, IInv, Types
<1>2. /\ w \in Tran /\ w.op = "create_plan" /\ w.step = "insert" /\ w.order = 0 /\ w.rows = << >>
      /\ w.locks = {} /\ w.holds = {} /\ w.moved = {} /\ w.queue = << >> /\ w.todo = << >>
  <2>1. "create_plan" \in Ops /\ "insert" \in Steps
    BY DEF Ops, Steps
  <2> QED
    BY <1>1, <2>1, IdleFact DEF Tran
<1> HIDE DEF w
<1>3. EditGood(w, order) /\ RowsGood(w, order) /\ PlanGood(w, plan)
  <2>1. DOMAIN w.rows = {}
    BY <1>2
  <2> QED
    BY <1>2, <2>1 DEF EditGood, RowsGood, PlanGood
<1> QED
  BY <1>1, <1>2, <1>3, StartStep

\* A change of a plan begins.
LEMMA LockPlanStep == ASSUME IInv, NEW s \in Sessions, LockPlan(s) PROVE IInv'
<1>1. PICK p \in Plans :
        /\ plan[p].state # "absent" /\ \A u \in Rest(s) : p \notin tx[u].locks
        /\ Starts(s, [Idle EXCEPT !.op = "update_plan", !.step = "insert", !.plan = p, !.locks = {p}])
  BY DEF LockPlan, PlanFree
<1> DEFINE w == [Idle EXCEPT !.op = "update_plan", !.step = "insert", !.plan = p, !.locks = {p}]
<1>2. Starts(s, w)
  BY <1>1
<1>3. /\ w \in Tran /\ w.op = "update_plan" /\ w.step = "insert" /\ w.order = 0 /\ w.rows = << >>
      /\ w.locks = {p} /\ w.holds = {} /\ w.moved = {} /\ w.queue = << >> /\ w.todo = << >> /\ w.plan = p
  <2>1. "update_plan" \in Ops /\ "insert" \in Steps
    BY DEF Ops, Steps
  <2> QED
    BY <2>1, IdleFact DEF Tran
<1> HIDE DEF w
<1>4. EditGood(w, order) /\ RowsGood(w, order) /\ PlanGood(w, plan)
  <2>1. DOMAIN w.rows = {}
    BY <1>3
  <2> QED
    BY <1>1, <1>3, <2>1 DEF EditGood, RowsGood, PlanGood
<1>5. \A u \in Rest(s) : w.locks \intersect tx[u].locks = {}
  BY <1>1, <1>3
<1> QED
  BY <1>2, <1>3, <1>4, <1>5, StartStep

\* What a transaction is, and what is good about it.
LEMMA TxFact ==
  ASSUME IInv, NEW s \in Sessions
  PROVE  /\ tx[s] \in Tran /\ Good(tx[s], plan, order) /\ plan \in [Plans -> PlanRow] /\ order \in Seq(OrderRow)
         /\ tx[s].step # "insert" => Len(order) + Len(tx[s].rows) <= MaxOrders
         /\ \A u \in Rest(s) : u \in Sessions /\ Disjoint(tx[s], tx[u])
  BY DEF IInv, Types, AllGood, Room, Apart, Rest

\* The plans as a transaction sees them are plans.
LEMMA SeenFact ==
  ASSUME NEW t \in Tran, NEW pl \in [Plans -> PlanRow], PlanGood(t, pl), t.step = "ready"
  PROVE  /\ SeenBy(t, pl) \in [Plans -> PlanRow]
         /\ \A p \in Plans : SeenBy(t, pl)[p] # pl[p] => t.op \in {"create_plan", "update_plan"} /\ p = t.plan
  BY DEF SeenBy, PlanGood

\* A refreshed date is one, or none.
LEMMA RefreshedFact ==
  ASSUME NEW rows \in [Plans -> PlanRow], NEW was \in {0} \union Dates
  PROVE  RefreshedDate(rows, was) \in {0} \union Dates
  BY FirstDateFact DEF RefreshedDate

\* The inserts.
LEMMA InsertRowsStep == ASSUME IInv, NEW s \in Sessions, InsertRows(s) PROVE IInv'
<1> DEFINE t == tx[s]
           w == [t EXCEPT !.holds = Needs(t.op), !.step = "ready"]
<1>1. /\ t \in Tran /\ Good(t, plan, order) /\ t.step = "insert" /\ Goes(s, w) /\ Unpublished
      /\ Len(order) + Len(t.rows) <= MaxOrders /\ NumbersFree(s) /\ t.op \in {"edit", "create_order"}
  BY TxFact DEF InsertRows
<1>2. Needs(t.op) \in SUBSET Numbers /\ "ready" \in Steps
  BY DEF Needs, Numbers, Steps
<1>3. /\ w \in Tran /\ w.step = "ready" /\ w.holds = Needs(t.op) /\ w.op = t.op
      /\ w.plan = t.plan /\ w.order = t.order /\ w.locks = t.locks /\ w.rows = t.rows /\ w.row = t.row
      /\ w.moved = t.moved /\ w.queue = t.queue /\ w.todo = t.todo
  BY <1>1, <1>2 DEF Tran
<1>4. \A u \in Rest(s) : Disjoint(w, tx[u])
  <2>1. \A u \in Rest(s) : Needs(t.op) \intersect tx[u].holds = {}
    BY <1>1 DEF NumbersFree, NumberFree
  <2> HIDE DEF w
  <2> QED
    BY <1>3, <2>1, TxFact DEF Disjoint
<1>5. "event_number" \in Needs(t.op) /\ (t.op \in {"create_order", "generate"} => "order_number" \in Needs(t.op))
  BY DEF Needs
<1> HIDE DEF w
<1>6. KindGood(w) /\ EditGood(w, order) /\ RowsGood(w, order)
  BY <1>1, <1>3, <1>5 DEF Good, KindGood, EditGood, RowsGood
<1>7. MovedGood(w, plan) /\ TodoGood(w, plan) /\ QueueGood(w) /\ PlanGood(w, plan)
  BY <1>1, <1>3 DEF Good, MovedGood, TodoGood, QueueGood, PlanGood
<1> QED
  BY <1>1, <1>3, <1>4, <1>6, <1>7, QuietStep DEF Good

\* What a change of a plan has in hand once it has written: its row, and its look at the plans.
LEMMA WritesPlanStep ==
  ASSUME IInv, NEW s \in Sessions, NEW p \in Plans, NEW r \in PlanRow, WritesPlan(s, p, r),
         tx[s].op \in {"create_plan", "update_plan"}, tx[s].op = "update_plan" => p = tx[s].plan,
         tx[s].op = "create_plan" => plan[p].state = "absent"
  PROVE  IInv'
<1> DEFINE t == tx[s]
           rows == [plan EXCEPT ![p] = r]
           d == RefreshedDate(rows, Loaded(s))
           w == [t EXCEPT !.holds = Needs(t.op), !.step = "ready", !.plan = p, !.row = r,
                          !.seen = Loaded(s), !.date = d]
<1>1. /\ t \in Tran /\ Good(t, plan, order) /\ t.step = "insert" /\ Goes(s, w) /\ Unpublished
      /\ NumbersFree(s) /\ plan \in [Plans -> PlanRow] /\ next \in {0} \union Dates /\ Len(order) <= MaxOrders
      /\ order \in Seq(OrderRow)
  BY TxFact DEF WritesPlan, IInv, Types
<1>2. Needs(t.op) \in SUBSET Numbers /\ "ready" \in Steps /\ "event_number" \in Needs(t.op)
  BY DEF Needs, Numbers, Steps
<1>3. rows \in [Plans -> PlanRow] /\ Loaded(s) \in {0} \union Dates
  BY <1>1 DEF Loaded, Tran
<1>4. d \in {0} \union Dates
  <2> HIDE DEF rows
  <2> QED
    BY <1>3, RefreshedFact
<1>5. EnabledIn(rows) # {} => d = FirstDate(rows)
  BY DEF RefreshedDate
<1> HIDE DEF d, rows
<1>6. /\ w \in Tran /\ w.step = "ready" /\ w.holds = Needs(t.op) /\ w.date = d /\ w.op = t.op
      /\ w.plan = p /\ w.order = t.order /\ w.locks = t.locks /\ w.rows = t.rows /\ w.row = r
      /\ w.moved = t.moved /\ w.queue = t.queue /\ w.todo = t.todo
  BY <1>1, <1>2, <1>3, <1>4 DEF Tran
<1>7. \A u \in Rest(s) : Disjoint(w, tx[u])
  <2>1. \A u \in Rest(s) : Needs(t.op) \intersect tx[u].holds = {}
    BY <1>1 DEF NumbersFree, NumberFree
  <2> HIDE DEF w
  <2> QED
    BY <1>6, <2>1, TxFact DEF Disjoint
<1> HIDE DEF w
<1>8. SeenBy(w, plan) = rows
  BY <1>6 DEF SeenBy, rows
<1>9. t.rows = << >> /\ (t.op = "update_plan" => p \in t.locks /\ plan[p].state # "absent")
  BY <1>1 DEF Good, PlanGood
<1>10. PlanGood(w, plan)
  BY <1>2, <1>5, <1>6, <1>8, <1>9 DEF PlanGood
<1>11. KindGood(w) /\ EditGood(w, order) /\ RowsGood(w, order)
  <2>1. DOMAIN w.rows = {}
    BY <1>6, <1>9
  <2>2. w.order = 0
    BY <1>1, <1>6 DEF Good, EditGood
  <2> QED
    BY <1>1, <1>6, <1>9, <2>1, <2>2 DEF Good, KindGood, EditGood, RowsGood
<1>12. MovedGood(w, plan) /\ TodoGood(w, plan) /\ QueueGood(w)
  BY <1>1, <1>6 DEF Good, MovedGood, TodoGood, QueueGood
<1>13. Len(order) + Len(w.rows) <= MaxOrders
  BY <1>1, <1>6, <1>9
<1> QED
  BY <1>1, <1>6, <1>7, <1>10, <1>11, <1>12, <1>13, QuietStep DEF Good

\* A plan's creation, its update, or its disabling, writes so.
Written(s) == \E p \in Plans, r \in PlanRow :
  /\ WritesPlan(s, p, r)
  /\ tx[s].op \in {"create_plan", "update_plan"} /\ (tx[s].op = "update_plan" => p = tx[s].plan)
  /\ tx[s].op = "create_plan" => plan[p].state = "absent" /\ r.state = "enabled"
  /\ r.state # "absent"
LEMMA WrittenFact ==
  ASSUME IInv, NEW s \in Sessions, InsertPlan(s) \/ UpdatePlan(s) \/ DisablePlan(s) PROVE Written(s)
<1>1. tx[s] \in Tran /\ Good(tx[s], plan, order) /\ plan \in [Plans -> PlanRow]
  BY TxFact
<1>2. tx[s].op = "update_plan" => tx[s].plan \in Plans
  BY <1>1 DEF Good, PlanGood
<1>3. CASE InsertPlan(s)
  <2>1. PICK p \in Plans, d \in Dates :
          tx[s].op = "create_plan" /\ plan[p].state = "absent" /\ WritesPlan(s, p, [state |-> "enabled", due |-> d])
    BY <1>3 DEF InsertPlan
  <2> DEFINE r == [state |-> "enabled", due |-> d]
  <2>2. r \in PlanRow /\ r.state = "enabled" /\ WritesPlan(s, p, r)
    BY <2>1 DEF PlanRow
  <2> HIDE DEF r
  <2> QED
    BY <2>1, <2>2 DEF Written
<1>4. CASE UpdatePlan(s)
  <2>1. PICK x \in {"enabled", "disabled"}, d \in Dates :
          tx[s].op = "update_plan" /\ WritesPlan(s, tx[s].plan, [state |-> x, due |-> d])
    BY <1>4 DEF UpdatePlan
  <2> DEFINE r == [state |-> x, due |-> d]
  <2>2. r \in PlanRow /\ r.state = x /\ WritesPlan(s, tx[s].plan, r)
    BY <2>1 DEF PlanRow
  <2> HIDE DEF r
  <2> QED
    BY <1>2, <2>1, <2>2 DEF Written
<1>5. CASE DisablePlan(s)
  <2> DEFINE r == [plan[tx[s].plan] EXCEPT !.state = "disabled"]
  <2>1. tx[s].op = "update_plan" /\ WritesPlan(s, tx[s].plan, r)
    BY <1>5 DEF DisablePlan
  <2>2. plan[tx[s].plan] \in PlanRow
    BY <1>1, <1>2, <2>1
  <2>3. r \in PlanRow /\ r.state = "disabled"
    BY <2>2 DEF PlanRow
  <2> HIDE DEF r
  <2> QED
    BY <1>2, <2>1, <2>3 DEF Written
<1> QED
  BY <1>3, <1>4, <1>5

LEMMA WrittenStep ==
  ASSUME IInv, NEW s \in Sessions, InsertPlan(s) \/ UpdatePlan(s) \/ DisablePlan(s) PROVE IInv'
  BY WrittenFact, WritesPlanStep DEF Written

-----------------------------------------------------------------------------
(* A step that publishes. *)
\* What another has read stays so where its rows are not touched.
LEMMA GoodStays ==
  ASSUME NEW t \in Tran, NEW pl, NEW pl2, NEW od, NEW od2, Good(t, pl, od),
         t.order # 0 => t.order \in DOMAIN od2 /\ od2[t.order] = od[t.order],
         \A p \in t.locks : OpenIn(p, od2) => OpenIn(p, od),
         \A p \in t.locks : pl[p].state # "absent" => pl2[p] = pl[p],
         "event_number" \in t.holds => pl2 = pl
  PROVE  Good(t, pl2, od2)
<1>1. KindGood(t) /\ EditGood(t, od2) /\ QueueGood(t)
  BY DEF Good, EditGood
<1>2. RowsGood(t, od2)
  BY DEF Good, RowsGood
<1>3. MovedGood(t, pl2)
  BY DEF Good, MovedGood
<1>4. TodoGood(t, pl2)
  BY DEF Good, TodoGood
<1>5. PlanGood(t, pl2)
  <2>1. PlanGood(t, pl)
    BY DEF Good
  <2>2. CASE t.step = "ready" /\ t.op \in {"create_plan", "update_plan"}
    <3>1. pl2 = pl
      BY <2>1, <2>2 DEF PlanGood
    <3> QED
      BY <2>1, <3>1
  <2>3. CASE ~(t.step = "ready" /\ t.op \in {"create_plan", "update_plan"})
    BY <2>1, <2>3 DEF PlanGood
  <2> QED
    BY <2>2, <2>3
<1> QED
  BY <1>1, <1>2, <1>3, <1>4, <1>5 DEF Good

\* A transaction ends and what it wrote is there.
LEMMA PublishStep ==
  ASSUME IInv, NEW s \in Sessions, Goes(s, Idle),
         plan' \in [Plans -> PlanRow], order' \in Seq(OrderRow), Len(order') <= MaxOrders,
         next' \in {0} \union Dates, OneOpenOrder',
         \A u \in Rest(s) : Good(tx[u], plan', order'),
         \A u \in Rest(s) : tx[u].step # "insert" => Len(order') + Len(tx[u].rows) <= MaxOrders
  PROVE  IInv'
<1>1. tx' \in [Sessions -> Tran] /\ tx'[s] = Idle /\ (\A u \in Rest(s) : tx'[u] = tx[u])
  BY One, IdleFact DEF IInv
<1>2. Types'
  BY <1>1 DEF Types
<1>3. Room'
  <2>1. Len(order') + Len(Idle.rows) <= MaxOrders
    BY IdleFact, MaxOrdersAssumption
  <2> QED
    BY <1>1, <2>1 DEF Room, Rest
<1>4. Apart'
  BY ApartStays, IdleFact DEF IInv
<1>5. AllGood'
  BY <1>1, IdleFact DEF AllGood, Rest
<1> QED
  BY <1>2, <1>3, <1>4, <1>5 DEF IInv

\* The end of an operation on an order.
LEMMA EditsFact ==
  ASSUME IInv, NEW s \in Sessions, NEW from \in SUBSET Open, NEW to \in Open \union Terminal, Edits(s, from, to)
  PROVE  \E o \in DOMAIN order :
           /\ order[o].status \in Open /\ Goes(s, Idle) /\ plan' = plan /\ tx[s].order = o /\ tx[s].op = "edit"
           /\ order' = [order EXCEPT ![o].status = to]
           /\ order' \in Seq(OrderRow) /\ Len(order') = Len(order) /\ DOMAIN order' = DOMAIN order
           /\ \A i \in DOMAIN order : order'[i].plan = order[i].plan /\ (i # o => order'[i] = order[i])
<1> DEFINE o == tx[s].order
<1>1. /\ o # 0 /\ tx[s].row.status \in from /\ order' = [order EXCEPT ![o].status = to]
      /\ Goes(s, Idle) /\ plan' = plan /\ order \in Seq(OrderRow)
  BY TxFact DEF Edits
<1>2. o \in DOMAIN order /\ tx[s].row = order[o] /\ tx[s].op = "edit"
  BY <1>1, TxFact DEF Good, EditGood
<1> HIDE DEF o
<1>3. order[o] \in OrderRow
  BY <1>1, <1>2
<1> DEFINE z == [order[o] EXCEPT !.status = to]
<1>4. z \in OrderRow /\ z.plan = order[o].plan /\ order' = [order EXCEPT ![o] = z]
  BY <1>1, <1>3 DEF OrderRow
<1> HIDE DEF z
<1>5. order' \in Seq(OrderRow) /\ Len(order') = Len(order) /\ DOMAIN order' = DOMAIN order
  BY <1>1, <1>2, <1>4
<1>6. \A i \in DOMAIN order : order'[i] = IF i = o THEN z ELSE order[i]
  BY <1>2, <1>4
<1> QED
  BY <1>1, <1>2, <1>4, <1>5, <1>6 DEF o

\* The operation on an order commits.
LEMMA EditsStep ==
  ASSUME IInv, NEW s \in Sessions, NEW from \in SUBSET Open, NEW to \in Open \union Terminal, Edits(s, from, to),
         next' \in {next, RefreshedDate(plan, next)}
  PROVE  IInv'
<1>1. PICK o \in DOMAIN order :
           /\ order[o].status \in Open /\ Goes(s, Idle) /\ plan' = plan /\ tx[s].order = o
           /\ order' \in Seq(OrderRow) /\ Len(order') = Len(order) /\ DOMAIN order' = DOMAIN order
           /\ \A i \in DOMAIN order : order'[i].plan = order[i].plan /\ (i # o => order'[i] = order[i])
  BY EditsFact
<1>2. \A i \in DOMAIN order : order[i].status \in Open \union Terminal /\ order'[i].status \in Open \union Terminal
  <2>1. order \in Seq(OrderRow)
    BY DEF IInv, Types
  <2>2. \A i \in DOMAIN order : order[i] \in OrderRow /\ order'[i] \in OrderRow
    BY <1>1, <2>1
  <2> QED
    BY <2>2 DEF OrderRow
<1>3. Open \intersect Terminal = {}
  BY DEF Open, Terminal
<1>4. \A p : OpenIn(p, order') => OpenIn(p, order)
  BY <1>1 DEF OpenIn
<1>5. OneOpenOrder'
  <2> SUFFICES ASSUME NEW i \in DOMAIN order, NEW j \in DOMAIN order, i # j,
                      order'[i].plan = order'[j].plan, order'[i].plan # NoPlan
               PROVE  {order'[i].status, order'[j].status} \cap Terminal # {}
    BY <1>1 DEF OneOpenOrder
  <2>1. order[i].status \in Terminal \/ order[j].status \in Terminal
    BY <1>1 DEF IInv, OneOpenOrder
  <2>2. \A k \in DOMAIN order : order[k].status \in Terminal => k # o
    BY <1>1, <1>3
  <2> QED
    BY <1>1, <2>1, <2>2
<1>6. \A u \in Rest(s) : Good(tx[u], plan', order')
  <2> SUFFICES ASSUME NEW u \in Rest(s) PROVE Good(tx[u], plan, order')
    BY <1>1
  <2>1. u \in Sessions /\ Disjoint(tx[s], tx[u])
    BY TxFact
  <2>2. tx[u] \in Tran /\ Good(tx[u], plan, order)
    BY <2>1, TxFact
  <2>3. tx[u].order # 0 => tx[u].order \in DOMAIN order' /\ order'[tx[u].order] = order[tx[u].order]
    <3>1. tx[u].order # 0 => tx[u].order \in DOMAIN order
      BY <2>2 DEF Good, EditGood
    <3>2. tx[u].order # o
      <4>1. order \in Seq(OrderRow)
        BY DEF IInv, Types
      <4>2. o # 0
        BY <4>1
      <4> QED
        BY <1>1, <2>1, <4>2 DEF Disjoint
    <3> QED
      BY <1>1, <3>1, <3>2
  <2> QED
    BY <1>4, <2>2, <2>3, GoodStays
<1>7. next' \in {0} \union Dates
  BY RefreshedFact DEF IInv, Types
<1>8. \A u \in Rest(s) : tx[u].step # "insert" => Len(order') + Len(tx[u].rows) <= MaxOrders
  BY <1>1, TxFact
<1> QED
  BY <1>1, <1>5, <1>6, <1>7, <1>8, PublishStep DEF IInv, Types

\* Rows after others.
LEMMA JoinFact ==
  ASSUME NEW q \in Seq(OrderRow), NEW z \in Seq(OrderRow)
  PROVE  /\ q \o z \in Seq(OrderRow) /\ Len(q \o z) = Len(q) + Len(z) /\ DOMAIN q \subseteq DOMAIN (q \o z)
         /\ \A i \in DOMAIN q : (q \o z)[i] = q[i]
         /\ \A i \in DOMAIN (q \o z) \ DOMAIN q : i - Len(q) \in DOMAIN z /\ (q \o z)[i] = z[i - Len(q)]
         /\ \A k \in DOMAIN z : Len(q) + k \in DOMAIN (q \o z) \ DOMAIN q /\ (q \o z)[Len(q) + k] = z[k]
         /\ Len(q) \in Nat /\ Len(z) \in Nat /\ DOMAIN q \subseteq Nat /\ DOMAIN (q \o z) \subseteq Nat
<1>1. /\ q \o z \in Seq(OrderRow) /\ Len(q \o z) = Len(q) + Len(z) /\ Len(q) \in Nat /\ Len(z) \in Nat
      /\ DOMAIN q = 1..Len(q) /\ DOMAIN z = 1..Len(z)
      /\ \A i \in 1 .. Len(q) + Len(z) : (q \o z)[i] = IF i <= Len(q) THEN q[i] ELSE z[i - Len(q)]
  BY ConcatProperties
<1> DEFINE x == q \o z
<1> HIDE DEF x
<1>2. DOMAIN x = 1..(Len(q) + Len(z))
  BY <1>1 DEF x
<1>3. \A i \in DOMAIN q : i \in DOMAIN x /\ x[i] = q[i]
  BY <1>1, <1>2 DEF x
<1>4. \A i \in DOMAIN x \ DOMAIN q : i - Len(q) \in DOMAIN z /\ x[i] = z[i - Len(q)]
  BY <1>1, <1>2 DEF x
<1>5. \A k \in DOMAIN z : Len(q) + k \in DOMAIN x \ DOMAIN q /\ x[Len(q) + k] = z[k]
  <2> SUFFICES ASSUME NEW k \in DOMAIN z PROVE Len(q) + k \in DOMAIN x \ DOMAIN q /\ x[Len(q) + k] = z[k]
    OBVIOUS
  <2>1. k \in Nat /\ k >= 1 /\ k <= Len(z) /\ (Len(q) + k) - Len(q) = k
    BY <1>1
  <2>2. Len(q) + k \in DOMAIN x /\ Len(q) + k \notin DOMAIN q
    BY <1>1, <1>2, <2>1
  <2> QED
    BY <1>4, <2>1, <2>2
<1> QED
  BY <1>1, <1>2, <1>3, <1>4, <1>5 DEF x

\* What a commit makes of the plans.
LEMMA PlansAfter ==
  ASSUME IInv, NEW s \in Sessions, Commit(s)
  PROVE  /\ plan' \in [Plans -> PlanRow]
         /\ \A p \in Plans : plan'[p] # plan[p] =>
              /\ p \in tx[s].locks \/ plan[p].state = "absent"
              /\ "event_number" \in tx[s].holds
         /\ \A p \in Plans : plan'[p] # plan[p] =>
              \/ tx[s].op \in {"create_plan", "update_plan"}
              \/ /\ p \in tx[s].moved /\ plan'[p].due = plan[p].due + 1
                 /\ \E i \in DOMAIN tx[s].rows : tx[s].rows[i] = NewOrder(p)
<1> DEFINE t == tx[s]
           seen == SeenBy(t, plan)
<1>1. /\ t \in Tran /\ Good(t, plan, order) /\ t.step = "ready" /\ plan \in [Plans -> PlanRow]
  BY TxFact DEF Commit
<1>2. plan' = [p \in Plans |-> IF p \in t.moved THEN [plan[p] EXCEPT !.due = @ + 1] ELSE seen[p]]
  BY <1>1 DEF Commit, PlanWritten, SeenBy
<1>3. /\ seen \in [Plans -> PlanRow]
      /\ \A p \in Plans : seen[p] # plan[p] => t.op \in {"create_plan", "update_plan"} /\ p = t.plan
  BY <1>1, SeenFact DEF Good
<1> HIDE DEF seen, t
<1>4. \A p \in t.moved : /\ p \in Plans /\ p \in t.locks /\ t.rows # << >> /\ plan[p].due < MaxDate
                         /\ \E i \in DOMAIN t.rows : t.rows[i] = NewOrder(p)
  <2> SUFFICES ASSUME NEW p \in t.moved
               PROVE  /\ p \in Plans /\ p \in t.locks /\ t.rows # << >> /\ plan[p].due < MaxDate
                      /\ \E i \in DOMAIN t.rows : t.rows[i] = NewOrder(p)
    OBVIOUS
  <2>1. p \in Plans
    BY <1>1 DEF Tran
  <2>2. p \in t.locks /\ plan[p].due < MaxDate /\ \E i \in DOMAIN t.rows : t.rows[i] = NewOrder(p)
    BY <1>1 DEF Good, MovedGood
  <2> QED
    BY <2>1, <2>2
<1>5. ASSUME NEW p \in t.moved PROVE plan'[p] \in PlanRow /\ plan'[p].due = plan[p].due + 1
  <2>1. plan[p] \in PlanRow /\ p \in Plans /\ plan[p].due < MaxDate
    BY <1>1, <1>4
  <2>2. plan'[p] = [plan[p] EXCEPT !.due = @ + 1]
    BY <1>2, <2>1
  <2>3. plan[p].due \in Dates /\ plan[p].due + 1 \in Dates
    BY <2>1, MaxDateAssumption DEF PlanRow, Dates
  <2> QED
    BY <2>1, <2>2, <2>3 DEF PlanRow
<1>6. plan' \in [Plans -> PlanRow]
  <2>1. \A p \in Plans : plan'[p] \in PlanRow
    BY <1>2, <1>3, <1>5
  <2> QED
    BY <1>2, <2>1
<1>7. ASSUME NEW p \in Plans, plan'[p] # plan[p], p \notin t.moved
      PROVE  /\ t.op \in {"create_plan", "update_plan"} /\ p = t.plan
             /\ p \in t.locks \/ plan[p].state = "absent"
             /\ "event_number" \in t.holds
  <2>1. t.op \in {"create_plan", "update_plan"} /\ p = t.plan
    BY <1>2, <1>3, <1>7
  <2> QED
    BY <1>1, <2>1 DEF Good, PlanGood
<1>8. \A p \in t.moved : "event_number" \in t.holds
  BY <1>1, <1>4 DEF Good, RowsGood
<1> QED
  BY <1>4, <1>5, <1>6, <1>7, <1>8 DEF t

\* What a commit makes of the orders.
LEMMA OrdersAfter ==
  ASSUME IInv, NEW s \in Sessions, Commit(s)
  PROVE  /\ order' = order \o tx[s].rows /\ order' \in Seq(OrderRow) /\ Len(order') = Len(order) + Len(tx[s].rows)
         /\ Len(order') <= MaxOrders
         /\ DOMAIN order \subseteq DOMAIN order' /\ \A i \in DOMAIN order : order'[i] = order[i]
         /\ \A i \in DOMAIN order' \ DOMAIN order :
              order'[i].plan # NoPlan =>
                /\ order'[i].plan \in tx[s].locks /\ ~OpenIn(order'[i].plan, order)
                /\ \A j \in DOMAIN order' \ DOMAIN order : i # j => order'[i].plan # order'[j].plan
<1> DEFINE t == tx[s]
<1>1. /\ t \in Tran /\ Good(t, plan, order) /\ t.step = "ready" /\ order \in Seq(OrderRow)
      /\ order' = order \o t.rows /\ Len(order) + Len(t.rows) <= MaxOrders
  BY TxFact DEF Commit
<1>2. t.rows \in Seq(OrderRow) /\ RowsGood(t, order)
  BY <1>1 DEF Tran, Good
<1> HIDE DEF t
<1> DEFINE rows == t.rows
<1>3. /\ order' \in Seq(OrderRow) /\ Len(order') = Len(order) + Len(rows) /\ DOMAIN order \subseteq DOMAIN order'
      /\ \A i \in DOMAIN order : order'[i] = order[i]
      /\ \A i \in DOMAIN order' \ DOMAIN order : i - Len(order) \in DOMAIN rows /\ order'[i] = rows[i - Len(order)]
      /\ Len(order) \in Nat /\ DOMAIN order' \subseteq Nat
  BY <1>1, <1>2, JoinFact
<1>4. ASSUME NEW i \in DOMAIN order' \ DOMAIN order, NEW j \in DOMAIN order' \ DOMAIN order, i # j
      PROVE  order'[i].plan # order'[j].plan
  <2>1. i - Len(order) # j - Len(order)
    BY <1>3, <1>4
  <2> QED
    BY <1>2, <1>3, <2>1 DEF RowsGood
<1>5. \A i \in DOMAIN order' \ DOMAIN order :
        order'[i].plan # NoPlan => order'[i].plan \in t.locks /\ ~OpenIn(order'[i].plan, order)
  BY <1>2, <1>3 DEF RowsGood
<1> QED
  BY <1>1, <1>3, <1>4, <1>5 DEF t

\* After a commit there is still one open order of a plan at most.
LEMMA CommitOneOpen == ASSUME IInv, NEW s \in Sessions, Commit(s) PROVE OneOpenOrder'
<1> SUFFICES ASSUME NEW i \in DOMAIN order', NEW j \in DOMAIN order', i # j,
                    order'[i].plan = order'[j].plan, order'[i].plan # NoPlan
             PROVE  {order'[i].status, order'[j].status} \cap Terminal # {}
  BY DEF OneOpenOrder
<1>1. order \in Seq(OrderRow)
  BY DEF IInv, Types
<1>2. \A k \in DOMAIN order : order'[k] = order[k] /\ order[k].status \in Open \union Terminal
  <2>1. \A k \in DOMAIN order : order[k] \in OrderRow
    BY <1>1
  <2> QED
    BY <2>1, OrdersAfter DEF OrderRow
<1>3. ASSUME NEW k \in DOMAIN order, NEW l \in DOMAIN order' \ DOMAIN order,
             order'[k].plan = order'[l].plan, order'[k].plan # NoPlan
      PROVE  order'[k].status \in Terminal
  <2>1. ~OpenIn(order'[l].plan, order)
    BY <1>3, OrdersAfter
  <2> QED
    BY <1>2, <1>3, <2>1 DEF OpenIn
<1>4. CASE i \in DOMAIN order /\ j \in DOMAIN order
  BY <1>2, <1>4 DEF IInv, OneOpenOrder
<1>5. CASE i \in DOMAIN order /\ j \notin DOMAIN order
  BY <1>3, <1>5
<1>6. CASE i \notin DOMAIN order /\ j \in DOMAIN order
  BY <1>3, <1>6
<1>7. CASE i \notin DOMAIN order /\ j \notin DOMAIN order
  BY <1>7, OrdersAfter
<1> QED
  BY <1>4, <1>5, <1>6, <1>7

\* Any other operation commits.
LEMMA CommitStep == ASSUME IInv, NEW s \in Sessions, Commit(s) PROVE IInv'
<1>1. ASSUME NEW u \in Rest(s) PROVE Good(tx[u], plan', order')
  <2>1. u \in Sessions /\ Disjoint(tx[s], tx[u])
    BY TxFact
  <2>2. tx[u] \in Tran /\ Good(tx[u], plan, order) /\ plan \in [Plans -> PlanRow]
    BY <2>1, TxFact
  <2>3. tx[u].order # 0 => tx[u].order \in DOMAIN order' /\ order'[tx[u].order] = order[tx[u].order]
    BY <2>2, OrdersAfter DEF Good, EditGood
  <2>4. ASSUME NEW p \in tx[u].locks, OpenIn(p, order') PROVE OpenIn(p, order)
    <3>1. PICK i \in DOMAIN order' : order'[i].plan = p /\ order'[i].status \in Open
      BY <2>4 DEF OpenIn
    <3>2. p \in Plans /\ p \notin tx[s].locks
      BY <2>1, <2>2 DEF Disjoint, Tran
    <3>3. p # NoPlan
      BY <3>2, PlansAssumption DEF NoPlan
    <3>4. i \in DOMAIN order
      BY <3>1, <3>2, <3>3, OrdersAfter
    <3> QED
      BY <3>1, <3>4, OrdersAfter DEF OpenIn
  <2>5. ASSUME NEW p \in tx[u].locks, plan[p].state # "absent" PROVE plan'[p] = plan[p]
    <3>1. p \in Plans /\ p \notin tx[s].locks
      BY <2>1, <2>2 DEF Disjoint, Tran
    <3> QED
      BY <2>5, <3>1, PlansAfter
  <2>6. ASSUME "event_number" \in tx[u].holds PROVE plan' = plan
    <3>1. "event_number" \notin tx[s].holds
      BY <2>1, <2>6 DEF Disjoint
    <3>2. \A p \in Plans : plan'[p] = plan[p]
      BY <3>1, PlansAfter
    <3>3. plan' \in [Plans -> PlanRow]
      BY PlansAfter
    <3> QED
      BY <2>2, <3>2, <3>3
  <2> QED
    BY <2>2, <2>3, <2>4, <2>5, <2>6, GoodStays
<1>2. ASSUME NEW u \in Rest(s), tx[u].step # "insert" PROVE Len(order') + Len(tx[u].rows) <= MaxOrders
  <2>1. u \in Sessions /\ Disjoint(tx[s], tx[u]) /\ tx[s] \in Tran /\ Good(tx[s], plan, order) /\ order \in Seq(OrderRow)
    BY TxFact
  <2>2. tx[u] \in Tran /\ Good(tx[u], plan, order) /\ Len(order) + Len(tx[u].rows) <= MaxOrders
    BY <1>2, <2>1, TxFact
  <2>3. /\ Len(order') = Len(order) + Len(tx[s].rows) /\ Len(order') <= MaxOrders /\ Len(order) \in Nat
        /\ Len(tx[u].rows) \in Nat
    BY <2>1, <2>2, OrdersAfter DEF Tran
  <2>4. CASE tx[s].rows = << >>
    BY <2>2, <2>3, <2>4
  <2>5. CASE tx[s].rows # << >>
    <3>1. "order_number" \in tx[s].holds
      BY <2>1, <2>5 DEF Good, RowsGood, Commit
    <3>2. tx[u].rows = << >>
      BY <1>2, <2>1, <2>2, <3>1 DEF Good, RowsGood, Disjoint
    <3> QED
      BY <2>3, <3>2, MaxOrdersAssumption
  <2> QED
    BY <2>4, <2>5
<1>3. next' \in {0} \union Dates
  BY TxFact DEF IInv, Types, Commit, Tran
<1>4. Goes(s, Idle)
  BY DEF Commit
<1> QED
  BY <1>1, <1>2, <1>3, <1>4, CommitOneOpen, PlansAfter, OrdersAfter, PublishStep

-----------------------------------------------------------------------------
(* The generator. *)
\* A run of the generator reads what is due.
LEMMA GenerateDueStep == ASSUME IInv, NEW s \in Sessions, GenerateDue(s) PROVE IInv'
<1>1. PICK t \in Dates :
        /\ DueIn(plan, t) # {}
        /\ Goes(s, [Idle EXCEPT !.op = "generate", !.asOf = t, !.step = "locking", !.queue = InOrder(plan, DueIn(plan, t))])
  BY DEF GenerateDue
<1> DEFINE q == InOrder(plan, DueIn(plan, t))
           w == [Idle EXCEPT !.op = "generate", !.asOf = t, !.step = "locking", !.queue = q]
<1>2. q \in Seq(Plans) /\ q # << >> /\ Distinct(q)
  <2>1. DueIn(plan, t) \in SUBSET Plans /\ plan \in [Plans -> PlanRow]
    BY TxFact DEF DueIn, EnabledIn
  <2> QED
    BY <1>1, <2>1, InOrderFact
<1>3. Unpublished /\ Goes(s, w)
  BY <1>1 DEF GenerateDue
<1> HIDE DEF q
<1>4. /\ w \in Tran /\ w.op = "generate" /\ w.step = "locking" /\ w.order = 0 /\ w.rows = << >> /\ w.queue = q
      /\ w.locks = {} /\ w.holds = {} /\ w.moved = {} /\ w.todo = << >>
  <2>1. t \in Nat /\ "generate" \in Ops /\ "locking" \in Steps
    BY MaxDateAssumption DEF Dates, Ops, Steps
  <2> QED
    BY <1>2, <2>1, IdleFact DEF Tran
<1> HIDE DEF w
<1>5. DOMAIN w.rows = {} /\ DOMAIN w.todo = {}
  BY <1>4
<1>6. KindGood(w) /\ EditGood(w, order) /\ PlanGood(w, plan)
  BY <1>2, <1>4 DEF KindGood, EditGood, PlanGood
<1>7. RowsGood(w, order) /\ MovedGood(w, plan)
  BY <1>4, <1>5 DEF RowsGood, MovedGood
<1>8. TodoGood(w, plan) /\ QueueGood(w)
  BY <1>2, <1>4, <1>5 DEF TodoGood, QueueGood, Elems, Distinct
<1>9. \A u \in Rest(s) : Disjoint(w, tx[u])
  BY <1>4 DEF Disjoint
<1>10. Len(order) + Len(w.rows) <= MaxOrders
  BY <1>4, IdleFact, MaxOrdersAssumption DEF IInv, Types
<1> QED
  BY <1>3, <1>4, <1>6, <1>7, <1>8, <1>9, <1>10, QuietStep DEF Good

\* It locks the next plan and looks at it again.
LEMMA LockNextStep == ASSUME IInv, NEW s \in Sessions, LockNext(s) PROVE IInv'
<1> DEFINE t    == tx[s]
           p    == Head(t.queue)
           todo == IF p \in DueIn(plan, t.asOf) THEN Append(t.todo, p) ELSE t.todo
           left == Tail(t.queue)
           r    == [t EXCEPT !.queue = left, !.locks = @ \union {p}, !.todo = todo]
           w    == IF left = << >> THEN [r EXCEPT !.asOf = 0, !.step = LoopOver(todo)] ELSE r
<1>1. /\ t \in Tran /\ Good(t, plan, order) /\ t.step = "locking" /\ PlanFree(s, p) /\ Goes(s, w) /\ Unpublished
      /\ Len(order) + Len(t.rows) <= MaxOrders /\ plan \in [Plans -> PlanRow]
  BY TxFact DEF LockNext
<1>2. /\ t.queue # << >> /\ t.rows = << >> /\ t.moved = {} /\ t.op = "generate" /\ t.order = 0 /\ t.holds = {}
      /\ t.queue \in Seq(Plans) /\ t.todo \in Seq(Plans) /\ t.locks \in SUBSET Plans
      /\ Distinct(t.queue) /\ Distinct(t.todo) /\ Elems(t.queue) \intersect Elems(t.todo) = {}
  BY <1>1 DEF Good, KindGood, TodoGood, QueueGood, Tran
<1> HIDE DEF t
<1>3. /\ p \in Plans /\ p \in Elems(t.queue) /\ left \in Seq(Plans) /\ Distinct(left)
      /\ Elems(left) \subseteq Elems(t.queue) /\ p \notin Elems(left)
  BY <1>2, TailFact
<1> HIDE DEF p, left
<1>4. /\ todo \in Seq(Plans) /\ Distinct(todo) /\ Elems(todo) \intersect Elems(left) = {}
      /\ \A x \in Elems(todo) : x \in t.locks \union {p} /\ plan[x].state # "absent"
  <2>1. \A x \in Elems(t.todo) : x \in t.locks /\ plan[x].state # "absent"
    BY <1>1 DEF Good, TodoGood
  <2>2. CASE p \in DueIn(plan, t.asOf)
    <3>1. todo = Append(t.todo, p)
      BY <2>2
    <3>2. /\ todo \in Seq(Plans) /\ Elems(todo) = Elems(t.todo) \union {p}
          /\ DOMAIN todo = 1..(Len(t.todo) + 1) /\ \A i \in DOMAIN t.todo : todo[i] = t.todo[i]
          /\ todo[Len(t.todo) + 1] = p /\ Len(t.todo) \in Nat /\ DOMAIN t.todo = 1..Len(t.todo)
      BY <1>2, <1>3, <3>1, AppendFact
    <3>3. plan[p].state = "enabled"
      BY <2>2 DEF DueIn, EnabledIn
    <3>4. p \notin Elems(t.todo)
      BY <1>2, <1>3
    <3>5. Distinct(todo)
      <4> HIDE DEF todo
      <4>1. \A i \in DOMAIN todo : i \in DOMAIN t.todo \/ i = Len(t.todo) + 1
        BY <3>2
      <4>2. \A i \in DOMAIN t.todo : t.todo[i] # p
        BY <3>4 DEF Elems
      <4> QED
        BY <1>2, <3>2, <4>1, <4>2 DEF Distinct
    <3> HIDE DEF todo
    <3> QED
      BY <1>2, <1>3, <2>1, <3>2, <3>3, <3>5
  <2>3. CASE p \notin DueIn(plan, t.asOf)
    <3>1. todo = t.todo
      BY <2>3
    <3> HIDE DEF todo
    <3> QED
      BY <1>2, <1>3, <2>1, <3>1
  <2> QED
    BY <2>2, <2>3
<1> HIDE DEF todo
<1>5. /\ w \in Tran /\ w.op = "generate" /\ w.order = 0 /\ w.rows = << >> /\ w.moved = {} /\ w.queue = left /\ w.todo = todo
      /\ w.locks = t.locks \union {p} /\ w.holds = t.holds
      /\ w.step = (IF left = << >> THEN LoopOver(todo) ELSE "locking")
  <2>1. /\ r \in Tran /\ r.op = "generate" /\ r.order = 0 /\ r.rows = << >> /\ r.moved = {} /\ r.queue = left /\ r.todo = todo
        /\ r.locks = t.locks \union {p} /\ r.holds = t.holds /\ r.step = "locking"
    BY <1>1, <1>2, <1>3, <1>4 DEF Tran
  <2>2. LoopOver(todo) \in Steps
    BY DEF LoopOver, Steps
  <2> HIDE DEF r
  <2>3. CASE left = << >>
    <3>1. w = [r EXCEPT !.asOf = 0, !.step = LoopOver(todo)]
      BY <2>3
    <3> HIDE DEF w
    <3> QED
      BY <2>1, <2>2, <2>3, <3>1 DEF Tran
  <2>4. CASE left # << >>
    <3>1. w = r
      BY <2>4
    <3> HIDE DEF w
    <3> QED
      BY <2>1, <2>4, <3>1
  <2> QED
    BY <2>3, <2>4
<1> HIDE DEF w, r
<1>6. KindGood(w)
  <2>1. w.step \in {"locking", "plan", "ready"} /\ (w.step = "plan" => todo # << >>) /\ (w.step = "locking" => left # << >>)
    BY <1>5 DEF LoopOver
  <2> QED
    BY <1>2, <1>5, <2>1 DEF KindGood
<1>7. DOMAIN w.rows = {}
  BY <1>5
<1>8. EditGood(w, order) /\ PlanGood(w, plan) /\ RowsGood(w, order) /\ MovedGood(w, plan)
  BY <1>5, <1>7 DEF EditGood, PlanGood, RowsGood, MovedGood
<1>9. TodoGood(w, plan) /\ QueueGood(w)
  BY <1>3, <1>4, <1>5, <1>7 DEF TodoGood, QueueGood
<1>10. \A u \in Rest(s) : Disjoint(w, tx[u])
  <2>1. \A u \in Rest(s) : Disjoint(t, tx[u]) /\ p \notin tx[u].locks
    BY <1>1, TxFact DEF PlanFree, t
  <2> QED
    BY <1>5, <2>1 DEF Disjoint
<1>11. Len(order) + Len(w.rows) <= MaxOrders
  BY <1>1, <1>2, <1>5
<1> QED
  BY <1>1, <1>5, <1>6, <1>8, <1>9, <1>10, <1>11, QuietStep DEF Good

\* The plan at hand is done.
LEMMA PlanDoneStep ==
  ASSUME IInv, NEW s \in Sessions, Looping(s), NEW r \in Tran, PlanDone(s, r), r.op = "generate", r.order = 0,
         r.step = "plan", r.todo = tx[s].todo, r.locks = tx[s].locks, RowsGood(r, order), MovedGood(r, plan),
         r.queue = tx[s].queue, \A p \in Elems(Tail(r.todo)) : \A i \in DOMAIN r.rows : r.rows[i].plan # p,
         \A u \in Rest(s) : r.holds \intersect tx[u].holds = {}, Len(order) + Len(r.rows) <= MaxOrders,
         r.holds \in {{}, Needs("generate")}
  PROVE  IInv'
<1> DEFINE t    == tx[s]
           left == Tail(r.todo)
           w    == [r EXCEPT !.todo = left, !.step = LoopOver(left)]
<1>1. /\ t \in Tran /\ Good(t, plan, order) /\ t.step = "plan" /\ Goes(s, w) /\ Unpublished
  BY TxFact DEF PlanDone, Looping
<1>2. /\ t.todo # << >> /\ t.todo \in Seq(Plans) /\ Distinct(t.todo) /\ QueueGood(t) /\ TodoGood(t, plan)
  BY <1>1 DEF Good, KindGood, TodoGood, Tran
<1>3. left \in Seq(Plans) /\ Distinct(left) /\ Elems(left) \subseteq Elems(t.todo)
  BY <1>2, TailFact
<1> HIDE DEF t, left
<1>4. /\ w \in Tran /\ w.op = "generate" /\ w.order = 0 /\ w.rows = r.rows /\ w.moved = r.moved /\ w.queue = r.queue
      /\ w.todo = left /\ w.locks = r.locks /\ w.holds = r.holds /\ w.step = LoopOver(left)
      /\ w.step \in {"ready", "plan"} /\ (w.step = "plan" => left # << >>)
  <2>1. LoopOver(left) \in Steps /\ LoopOver(left) \in {"ready", "plan"} /\ (LoopOver(left) = "plan" => left # << >>)
    BY DEF LoopOver, Steps
  <2> QED
    BY <1>3, <2>1 DEF Tran
<1> HIDE DEF w
<1>5. KindGood(w) /\ EditGood(w, order) /\ PlanGood(w, plan)
  BY <1>4 DEF KindGood, EditGood, PlanGood
<1>6. RowsGood(w, order) /\ MovedGood(w, plan)
  BY <1>4 DEF RowsGood, MovedGood
<1>7. TodoGood(w, plan)
  <2>1. \A p \in Elems(left) : p \in w.locks /\ plan[p].state # "absent"
    BY <1>2, <1>3, <1>4 DEF TodoGood, t
  <2>2. \A p \in Elems(left) : \A i \in DOMAIN w.rows : w.rows[i].plan # p
    BY <1>4 DEF left
  <2> QED
    BY <1>3, <1>4, <2>1, <2>2 DEF TodoGood
<1>8. QueueGood(w)
  BY <1>2, <1>3, <1>4 DEF QueueGood, t
<1>9. \A u \in Rest(s) : Disjoint(w, tx[u])
  BY <1>4, TxFact DEF Disjoint
<1>10. Len(order) + Len(w.rows) <= MaxOrders
  BY <1>4
<1> QED
  BY <1>1, <1>4, <1>5, <1>6, <1>7, <1>8, <1>9, <1>10, QuietStep DEF Good

\* What a run has when it looks at a plan.
LEMMA LoopFact ==
  ASSUME IInv, NEW s \in Sessions, Looping(s)
  PROVE  LET t == tx[s] IN
         /\ t \in Tran /\ Good(t, plan, order) /\ t.step = "plan" /\ t.op = "generate" /\ t.order = 0
         /\ Current(s) \in Plans /\ Current(s) \in t.locks /\ plan[Current(s)].state # "absent"
         /\ Current(s) \notin Elems(Tail(t.todo))
         /\ \A i \in DOMAIN t.rows : t.rows[i].plan # Current(s)
         /\ \A p \in Elems(Tail(t.todo)) : \A i \in DOMAIN t.rows : t.rows[i].plan # p
<1> DEFINE t == tx[s]
<1>1. t \in Tran /\ Good(t, plan, order) /\ t.step = "plan"
  BY TxFact DEF Looping
<1>2. t.op = "generate" /\ t.order = 0 /\ t.todo # << >> /\ t.todo \in Seq(Plans) /\ TodoGood(t, plan)
  BY <1>1 DEF Good, KindGood, Tran
<1> HIDE DEF t
<1>3. /\ Head(t.todo) \in Plans /\ Head(t.todo) \in Elems(t.todo) /\ Elems(Tail(t.todo)) \subseteq Elems(t.todo)
      /\ Head(t.todo) \notin Elems(Tail(t.todo))
  BY <1>2, TailFact DEF TodoGood
<1>4. Current(s) = Head(t.todo)
  BY DEF Current, t
<1> QED
  BY <1>1, <1>2, <1>3, <1>4 DEF TodoGood, t

\* A plan that has an open order, or whose insert fails.
LEMMA SkipStep == ASSUME IInv, NEW s \in Sessions, SkipPlan(s) \/ PlanFails(s) PROVE IInv'
<1>1. Looping(s) /\ PlanDone(s, tx[s])
  BY DEF SkipPlan, PlanFails
<1>2. /\ tx[s] \in Tran /\ RowsGood(tx[s], order) /\ MovedGood(tx[s], plan) /\ Len(order) + Len(tx[s].rows) <= MaxOrders
      /\ \A u \in Rest(s) : tx[s].holds \intersect tx[u].holds = {}
      /\ tx[s].holds \in {{}, Needs("generate")}
  BY <1>1, TxFact DEF Looping, Good, Disjoint, KindGood
<1> QED
  BY <1>1, <1>2, LoopFact, PlanDoneStep

\* The order of a plan's cycle.
LEMMA GenerateOrderStep == ASSUME IInv, NEW s \in Sessions, GenerateOrder(s) PROVE IInv'
<1> DEFINE t == tx[s]
           p == Current(s)
           r == [t EXCEPT !.holds = Needs("generate"), !.moved = @ \union {p}, !.rows = Append(@, NewOrder(p))]
<1>1. /\ Looping(s) /\ ~HasOpenOrder(p) /\ NumbersFree(s) /\ Len(order) + Len(t.rows) < MaxOrders
      /\ plan[p].due < MaxDate /\ PlanDone(s, r)
  BY DEF GenerateOrder
<1>2. /\ t \in Tran /\ Good(t, plan, order) /\ t.step = "plan" /\ t.op = "generate" /\ t.order = 0
      /\ p \in Plans /\ p \in t.locks /\ plan[p].state # "absent" /\ p \notin Elems(Tail(t.todo))
      /\ \A i \in DOMAIN t.rows : t.rows[i].plan # p
      /\ \A x \in Elems(Tail(t.todo)) : \A i \in DOMAIN t.rows : t.rows[i].plan # x
  BY <1>1, LoopFact
<1>3. NewOrder(p) \in OrderRow /\ NewOrder(p).plan = p /\ t.rows \in Seq(OrderRow)
  BY <1>2 DEF NewOrder, OrderRow, Open, Tran
<1>4. Needs("generate") \in SUBSET Numbers /\ {"order_number", "event_number"} \subseteq Needs("generate")
  BY DEF Needs, Numbers
<1>5. \A u \in Rest(s) : Needs("generate") \intersect tx[u].holds = {}
  BY <1>1, <1>2 DEF NumbersFree, NumberFree
<1> HIDE DEF t, p
<1> DEFINE rows == Append(t.rows, NewOrder(p))
<1>6. /\ rows \in Seq(OrderRow) /\ Len(rows) = Len(t.rows) + 1 /\ DOMAIN rows = 1..(Len(t.rows) + 1)
      /\ (\A i \in DOMAIN t.rows : rows[i] = t.rows[i]) /\ rows[Len(t.rows) + 1] = NewOrder(p)
      /\ Len(t.rows) \in Nat /\ DOMAIN t.rows = 1..Len(t.rows)
  BY <1>3, AppendFact
<1> HIDE DEF rows
<1>7. /\ r \in Tran /\ r.op = "generate" /\ r.order = 0 /\ r.step = "plan" /\ r.todo = t.todo /\ r.locks = t.locks
      /\ r.queue = t.queue /\ r.rows = rows /\ r.moved = t.moved \union {p} /\ r.holds = Needs("generate")
  BY <1>2, <1>4, <1>6 DEF Tran, rows
<1>8. PlanDone(s, r)
  BY <1>1 DEF t, p
<1> HIDE DEF r
<1>9. \A i \in DOMAIN rows : i \in DOMAIN t.rows \/ (i = Len(t.rows) + 1 /\ rows[i] = NewOrder(p))
  BY <1>6
<1>10. RowsGood(r, order)
  <2>1. RowsGood(t, order) /\ ~OpenIn(p, order)
    BY <1>1, <1>2 DEF Good, HasOpenOrder, OpenIn, p
  <2>2. \A i \in DOMAIN rows :
          /\ rows[i] = NewOrder(rows[i].plan)
          /\ rows[i].plan # NoPlan => rows[i].plan \in t.locks /\ ~OpenIn(rows[i].plan, order)
    BY <1>2, <1>3, <1>6, <1>9, <2>1 DEF RowsGood
  <2>3. \A i, j \in DOMAIN rows : i # j => rows[i].plan # rows[j].plan
    BY <1>2, <1>3, <1>6, <1>9, <2>1 DEF RowsGood
  <2> QED
    BY <1>4, <1>7, <2>2, <2>3 DEF RowsGood
<1>11. MovedGood(r, plan)
  <2>1. MovedGood(t, plan)
    BY <1>2 DEF Good
  <2>2. Len(t.rows) + 1 \in DOMAIN rows /\ DOMAIN t.rows \subseteq DOMAIN rows
    BY <1>6
  <2>3. plan[p].due < MaxDate
    BY <1>1 DEF p
  <2> QED
    BY <1>2, <1>6, <1>7, <2>1, <2>2, <2>3 DEF MovedGood
<1>12. \A x \in Elems(Tail(r.todo)) : \A i \in DOMAIN r.rows : r.rows[i].plan # x
  BY <1>2, <1>3, <1>6, <1>7, <1>9
<1>13. Len(order) + Len(r.rows) <= MaxOrders
  <2>1. order \in Seq(OrderRow) /\ Len(order) + Len(t.rows) < MaxOrders
    BY <1>1, TxFact DEF t
  <2> QED
    BY <1>6, <1>7, <2>1, MaxOrdersAssumption
<1> QED
  BY <1>1, <1>5, <1>7, <1>8, <1>10, <1>11, <1>12, <1>13, PlanDoneStep DEF t

-----------------------------------------------------------------------------
(* The invariant, and the theorems. *)
\* It holds at the start.
LEMMA InitIInv == Init => IInv
<1> SUFFICES ASSUME Init PROVE IInv
  OBVIOUS
<1>1. /\ plan \in [Plans -> PlanRow] /\ order = << >> /\ tx = [s \in Sessions |-> Idle]
      /\ next = IF EnabledIn(plan) = {} THEN 0 ELSE FirstDate(plan)
  BY DEF Init
<1>2. order \in Seq(OrderRow) /\ Len(order) = 0 /\ DOMAIN order = {}
  BY <1>1
<1>3. next \in {0} \union Dates
  BY <1>1, FirstDateFact
<1>4. Types
  BY <1>1, <1>2, <1>3, IdleFact, MaxOrdersAssumption DEF Types
<1>5. Room
  BY <1>1, <1>2, IdleFact, MaxOrdersAssumption DEF Room
<1>6. Apart /\ AllGood
  BY <1>1, IdleFact DEF Apart, AllGood
<1>7. OneOpenOrder
  BY <1>2 DEF OneOpenOrder
<1> QED
  BY <1>4, <1>5, <1>6, <1>7 DEF IInv

\* An end of an operation on an order, whichever it is.
Ends(s) == \E from \in SUBSET Open, to \in Open \union Terminal :
             Edits(s, from, to) /\ next' \in {next, RefreshedDate(plan, next)}
\* Each of the operations on an order ends so.
LEMMA EndsFact ==
  ASSUME NEW s \in Sessions, Assign(s) \/ Reschedule(s) \/ Start(s) \/ AddNote(s) \/ Complete(s) \/ Cancel(s)
  PROVE  Ends(s)
<1>1. {"waiting"} \in SUBSET Open /\ {"in_progress"} \in SUBSET Open /\ Open \in SUBSET Open
      /\ {"waiting", "in_progress", "completed", "cancelled"} \subseteq Open \union Terminal
      /\ \A x \in Open : {x} \in SUBSET Open /\ x \in Open \union Terminal
  BY DEF Open, Terminal
<1>2. CASE Assign(s)
  BY <1>1, <1>2 DEF Assign, Ends
<1>3. CASE Reschedule(s)
  BY <1>1, <1>3 DEF Reschedule, Ends
<1>4. CASE Start(s)
  BY <1>1, <1>4 DEF Start, Ends
<1>5. CASE AddNote(s)
  BY <1>1, <1>5 DEF AddNote, Ends
<1>6. CASE Complete(s)
  BY <1>1, <1>6 DEF Complete, Ends
<1>7. CASE Cancel(s)
  BY <1>1, <1>7 DEF Cancel, Ends
<1> QED
  BY <1>2, <1>3, <1>4, <1>5, <1>6, <1>7

\* A step publishes nothing, ends an operation on an order, or commits.
LEMMA Kinds ==
  ASSUME NEW s \in Sessions, Request(s) \/ Generator(s) PROVE Unpublished \/ Ends(s) \/ Commit(s)
<1>1. ASSUME NEW r, Starts(s, r) PROVE Unpublished
  BY <1>1 DEF Starts
<1>2. LockOrder(s) \/ CreateOrder(s) \/ CreatePlan(s) \/ LockPlan(s) => Unpublished
  BY <1>1 DEF LockOrder, CreateOrder, Creates, CreatePlan, LockPlan
<1>3. Fail(s) \/ InsertRows(s) \/ InsertPlan(s) \/ UpdatePlan(s) \/ DisablePlan(s) \/ Generator(s) => Unpublished
  BY DEF Fail, InsertRows, InsertPlan, UpdatePlan, DisablePlan, WritesPlan, Generator, GenerateDue, LockNext, SkipPlan, GenerateOrder, PlanFails, PlanDone
<1> QED
  BY <1>2, <1>3, EndsFact DEF Request

\* Every step preserves it.
LEMMA NextIInv == IInv /\ [Next]_vars => IInv'
<1> SUFFICES ASSUME IInv, [Next]_vars PROVE IInv'
  OBVIOUS
<1>1. CASE UNCHANGED vars
  <2>1. Types' /\ Room' /\ OneOpenOrder'
    BY <1>1 DEF vars, IInv, Types, Room, OneOpenOrder
  <2>2. Apart' /\ AllGood'
    BY <1>1 DEF vars, IInv, Apart, AllGood
  <2> QED
    BY <2>1, <2>2 DEF IInv
<1>2. ASSUME NEW s \in Sessions, Generator(s) PROVE IInv'
  BY <1>2, GenerateDueStep, LockNextStep, SkipStep, GenerateOrderStep DEF Generator
<1>3. ASSUME NEW s \in Sessions, Ends(s) PROVE IInv'
  BY <1>3, EditsStep DEF Ends
<1>4. ASSUME NEW s \in Sessions, Request(s) PROVE IInv'
  BY <1>3, <1>4, EndsFact, FailStep, LockOrderStep, CreateOrderStep, CreatePlanStep, LockPlanStep, InsertRowsStep,
     WrittenStep, CommitStep DEF Request
<1> QED
  BY <1>1, <1>2, <1>4 DEF Next

\* The invariant always holds.
LEMMA Always == Spec => []IInv
  BY InitIInv, NextIInv, PTL DEF Spec

\* Plans, orders, the asset's date and what the transactions have in hand stay of their
\* types and within the bound on orders (maintenance.py, every operation).
THEOREM TypeCorrect == Spec => []TypeOK
<1>1. IInv => TypeOK
  <2> SUFFICES ASSUME IInv PROVE TypeOK
    OBVIOUS
  <2>1. ASSUME NEW s \in Sessions
        PROVE  /\ tx[s].locks \union tx[s].moved \subseteq Plans /\ tx[s].holds \subseteq Numbers
               /\ tx[s].order \in 0..Len(order) /\ tx[s].rows \in Seq(OrderRow)
               /\ {tx[s].seen, tx[s].date} \subseteq {0} \union Dates
               /\ tx[s].step # "insert" => Len(order) + Len(tx[s].rows) <= MaxOrders
    <3>1. tx[s] \in Tran /\ Good(tx[s], plan, order) /\ order \in Seq(OrderRow)
      BY TxFact
    <3>2. tx[s].order = 0 \/ tx[s].order \in DOMAIN order
      BY <3>1 DEF Good, EditGood
    <3>3. tx[s].order \in 0..Len(order)
      BY <3>1, <3>2
    <3> QED
      BY <3>1, <3>3, TxFact DEF Tran
  <2> QED
    BY <2>1 DEF IInv, Types, TypeOK
<1> QED
  BY <1>1, Always, PTL

\* No interleaving of requests and generators opens a second order of a plan
\* (maintenance.py, create_work_order, generate_due_work_orders).
THEOREM OneOpen == Spec => []OneOpenOrder
<1>1. IInv => OneOpenOrder
  BY DEF IInv
<1> QED
  BY <1>1, Always, PTL

\* In every ring of requests that wait for each other, of any length, there are two
\* generators that are locking their plans, or the edit of an order and a request that has
\* locked a plan and wants a number (maintenance.py): of who wants a number the holder goes
\* on, unless it is such an edit, and an edit waits only for who has locked a plan.
THEOREM WaitsKnown == Spec => []DeadlocksKnown
<1>1. IInv => DeadlocksKnown
  <2> DEFINE Locking(g) == tx[g].op = "generate" /\ tx[g].step = "locking"
             Edit(e)    == tx[e].op = "edit" /\ tx[e].step = "ready"
             Wants(p)   == tx[p].op \in {"create_order", "update_plan", "generate"} /\ tx[p].step \in {"insert", "plan"}
             ForNumber(v, z) == tx[v].step \in {"insert", "plan"} /\ Needs(tx[v].op) \cap tx[z].holds # {}
             ForPin(v, z)    == tx[v].step = "ready" /\ tx[v].order # 0 /\ tx[v].plan \in tx[z].locks
             ForPlan(v, z)   == tx[v].step = "locking" /\ Head(tx[v].queue) \in tx[z].locks
  <2> SUFFICES ASSUME IInv, NEW ring \in SUBSET Sessions, ring # {}, \A s \in ring : \E u \in ring : Waits(s, u)
               PROVE  (\E s, u \in ring : s # u /\ \A g \in {s, u} : Locking(g)) \/ \E e, p \in ring : Edit(e) /\ Wants(p)
    BY DEF DeadlocksKnown
  <2>1. \A s \in ring : \E u \in ring : s # u /\ (ForNumber(s, u) \/ ForPin(s, u) \/ ForPlan(s, u))
    BY DEF Waits
  <2>2. \A v \in ring : v \in Sessions /\ tx[v] \in Tran /\ KindGood(tx[v]) /\ EditGood(tx[v], order)
    BY TxFact DEF Good
  <2>3. ASSUME NEW v \in ring, NEW z \in ring, ForPin(v, z) PROVE Edit(v) /\ tx[v].locks = {} /\ tx[z].locks # {}
    BY <2>2, <2>3 DEF KindGood, EditGood
  <2>4. ASSUME NEW v \in ring, NEW z \in ring, ForPlan(v, z) PROVE Locking(v) /\ tx[v].holds = {} /\ tx[z].locks # {}
    BY <2>2, <2>4 DEF KindGood
  <2>5. ASSUME NEW v \in ring, NEW z \in ring, ForNumber(v, z), tx[v].locks # {} PROVE Wants(v)
    <3>1. tx[v].op \in Ops
      BY <2>2 DEF Tran
    <3> QED
      BY <2>2, <2>5, <3>1 DEF KindGood, Ops
  <2>6. ASSUME NEW v \in ring, NEW z \in ring, ForNumber(v, z), v # z, tx[v].holds # {} PROVE FALSE
    <3>1. tx[v].holds = Needs(tx[v].op)
      BY <2>2, <2>6 DEF KindGood
    <3>2. Disjoint(tx[v], tx[z])
      BY <2>2, <2>6 DEF IInv, Apart
    <3> QED
      BY <2>6, <3>1, <3>2 DEF Disjoint
  <2>7. ASSUME NEW v \in ring, NEW z \in ring, ForNumber(v, z) PROVE tx[z].holds # {}
    BY <2>7
  <2> HIDE DEF ForNumber, ForPin, ForPlan, Locking, Edit, Wants
  <2>8. CASE \E s, u \in ring : ForPin(s, u)
    <3>1. PICK e \in ring, u \in ring : Edit(e) /\ tx[u].locks # {}
      BY <2>3, <2>8
    <3>2. Wants(u) \/ Locking(u)
      BY <2>1, <2>3, <2>4, <2>5, <3>1
    <3>3. CASE Locking(u) /\ ~Wants(u)
      <4>1. PICK v \in ring : u # v /\ ForPlan(u, v)
        BY <2>1, <2>3, <2>5, <3>1, <3>3
      <4>2. tx[v].locks # {}
        BY <2>4, <4>1
      <4>3. Wants(v) \/ Locking(v)
        BY <2>1, <2>3, <2>4, <2>5, <4>2
      <4> QED
        BY <3>1, <3>3, <4>1, <4>3
    <3> QED
      BY <3>1, <3>2, <3>3
  <2>9. CASE ~ \E s, u \in ring : ForPin(s, u)
    <3>1. ASSUME NEW s \in ring, NEW u \in ring, ForNumber(s, u) PROVE FALSE
      <4>1. tx[u].holds # {}
        BY <2>7, <3>1
      <4> QED
        BY <2>1, <2>4, <2>6, <2>9, <4>1
    <3>2. \A s \in ring : Locking(s) /\ \E u \in ring : s # u
      BY <2>1, <2>4, <2>9, <3>1
    <3> QED
      BY <3>2
  <2> QED
    BY <2>8, <2>9
<1> QED
  BY <1>1, Always, PTL

\* No cycle is lost or generated twice, and no order that has ended is touched again, for
\* any number of requests and generators (maintenance.py, generate_due_work_orders).
THEOREM HistoryStays == Spec => HistoryKept
<1> DEFINE Step ==
      /\ \A p \in Plans : plan'[p].due # plan[p].due =>
           \/ \E s \in Sessions : tx[s].op \in {"update_plan", "create_plan"} /\ Publishes(s)
           \/ /\ plan'[p].due = plan[p].due + 1
              /\ \E o \in DOMAIN order' \ DOMAIN order : order'[o] = NewOrder(p)
      /\ \A o \in DOMAIN order : order[o].status \in Terminal => order'[o] = order[o]
<1>1. ASSUME IInv, [Next]_vars PROVE [Step]_vars
  <2>1. CASE UNCHANGED vars
    BY <2>1
  <2>2. CASE Unpublished
    <3>1. plan' = plan /\ order' = order
      BY <2>2 DEF Unpublished
    <3> QED
      BY <3>1
  <2>3. ASSUME NEW s \in Sessions, Ends(s) PROVE Step
    <3>1. PICK o \in DOMAIN order : /\ order[o].status \in Open /\ plan' = plan
                                    /\ \A i \in DOMAIN order : i # o => order'[i] = order[i]
      BY <1>1, <2>3, EditsFact DEF Ends
    <3>2. Open \intersect Terminal = {}
      BY DEF Open, Terminal
    <3> QED
      BY <3>1, <3>2
  <2>4. ASSUME NEW s \in Sessions, Commit(s) PROVE Step
    <3>1. ASSUME NEW p \in Plans, plan'[p].due # plan[p].due
          PROVE  \/ tx[s].op \in {"create_plan", "update_plan"} /\ Publishes(s)
                 \/ /\ plan'[p].due = plan[p].due + 1
                    /\ \E o \in DOMAIN order' \ DOMAIN order : order'[o] = NewOrder(p)
      <4>1. plan'[p] # plan[p] /\ plan' # plan
        BY <3>1
      <4>2. CASE tx[s].op \in {"create_plan", "update_plan"}
        <5>1. tx'[s] = Idle
          BY <1>1, <2>4, One, IdleFact DEF Commit, IInv
        <5> QED
          BY <4>1, <4>2, <5>1, IdleFact DEF Publishes
      <4>3. CASE tx[s].op \notin {"create_plan", "update_plan"}
        <5>1. plan'[p].due = plan[p].due + 1
          BY <1>1, <2>4, <4>1, <4>3, PlansAfter
        <5>2. PICK i \in DOMAIN tx[s].rows : tx[s].rows[i] = NewOrder(p)
          BY <1>1, <2>4, <4>1, <4>3, PlansAfter
        <5>3. order \in Seq(OrderRow) /\ tx[s].rows \in Seq(OrderRow) /\ order' = order \o tx[s].rows
          BY <1>1, <2>4, TxFact, OrdersAfter DEF Tran
        <5>4. Len(order) + i \in DOMAIN order' \ DOMAIN order /\ order'[Len(order) + i] = NewOrder(p)
          BY <5>2, <5>3, JoinFact
        <5> QED
          BY <5>1, <5>4
      <4> QED
        BY <4>2, <4>3
    <3>2. \A o \in DOMAIN order : order'[o] = order[o]
      BY <1>1, <2>4, OrdersAfter
    <3> QED
      BY <3>1, <3>2
  <2> HIDE DEF Step
  <2> QED
    BY <1>1, <2>1, <2>2, <2>3, <2>4, Kinds DEF Next
<1>2. Spec => [][Step]_vars
  <2> HIDE DEF Step
  <2> QED
    BY <1>1, Always, PTL DEF Spec
<1> QED
  BY <1>2 DEF HistoryKept

-----------------------------------------------------------------------------
(***************************************************************************)
(* The refinement of MaintenanceBook.  Beside IInv it needs what a         *)
(* transaction still has in hand at its commit: the plans it opens orders  *)
(* of are enabled, it has one order for each plan it moves on, and what it *)
(* computed for the asset's date is of the date and plans that are there.  *)
(***************************************************************************)
PlanOps == {"create_plan", "update_plan"}
Ready(t, pl, nx) ==
  /\ \A i \in DOMAIN t.rows : t.rows[i].plan # NoPlan => pl[t.rows[i].plan].state = "enabled"
  /\ \A p \in Elems(t.todo) : pl[p].state = "enabled"
  /\ t.op = "create_order" => Len(t.rows) = 1
  /\ t.op = "generate" => \A i \in DOMAIN t.rows : t.rows[i].plan \in t.moved
  /\ t.op = "edit" /\ t.step = "ready" => "event_number" \in t.holds
  /\ t.op \in PlanOps /\ t.step = "ready" =>
       /\ t.row.state # "absent" /\ (t.op = "create_plan" => t.row.state = "enabled")
       /\ t.op = "update_plan" => t.seen = nx
       /\ EnabledIn(SeenBy(t, pl)) = {} => t.date = t.seen
AllReady == \A s \in Sessions : Ready(tx[s], plan, next)

\* A transaction with nothing to insert and nothing to look at.
LEMMA BeginReady ==
  ASSUME NEW t, NEW pl, NEW nx, t.rows = << >>, t.todo = << >>,
         t.op # "create_order", t.step # "ready"
  PROVE  Ready(t, pl, nx)
<1>1. DOMAIN t.rows = {} /\ DOMAIN t.todo = {}
  OBVIOUS
<1> QED
  BY <1>1 DEF Ready, Elems, PlanOps

\* A transaction goes on, the others do not notice.
LEMMA ReadyGoes ==
  ASSUME IInv, AllReady, NEW s \in Sessions, NEW w, Goes(s, w), Unpublished, Ready(w, plan, next)
  PROVE  AllReady'
<1>1. tx'[s] = w /\ \A u \in Sessions : u # s => tx'[u] = tx[u]
  BY DEF IInv, Types, Goes
<1>2. plan' = plan /\ next' = next
  BY DEF Unpublished
<1> QED
  BY <1>1, <1>2 DEF AllReady

\* An order's operation, the creation of an order, and a change of a plan begin.
LEMMA BeginsReady ==
  ASSUME IInv, AllReady, NEW s \in Sessions,
         Fail(s) \/ LockOrder(s) \/ CreateOrder(s) \/ CreatePlan(s) \/ LockPlan(s) \/ GenerateDue(s)
  PROVE  AllReady'
<1>1. CASE Fail(s)
  BY <1>1, IdleFact, BeginReady, ReadyGoes DEF Fail
<1>2. CASE LockOrder(s)
  <2>1. PICK o \in DOMAIN order :
          Starts(s, [Idle EXCEPT !.op = "edit", !.step = "insert", !.order = o, !.plan = order[o].plan, !.row = order[o]])
    BY <1>2 DEF LockOrder
  <2> DEFINE w == [Idle EXCEPT !.op = "edit", !.step = "insert", !.order = o, !.plan = order[o].plan, !.row = order[o]]
  <2>2. w.op = "edit" /\ w.step = "insert" /\ w.rows = << >> /\ w.todo = << >>
    BY DEF Idle
  <2>3. Starts(s, w)
    BY <2>1
  <2> HIDE DEF w
  <2> QED
    BY <2>2, <2>3, BeginReady, ReadyGoes DEF Starts
<1>3. CASE CreateOrder(s)
  <2>1. PICK p \in Plans \union {NoPlan}, held \in SUBSET Plans : Creates(s, p, held) /\ (p # NoPlan => plan[p].state = "enabled")
    <3>1. CASE Creates(s, NoPlan, {})
      BY <3>1
    <3>2. CASE \E p \in EnabledIn(plan) : Creates(s, p, {p})
      <4>1. \A p \in EnabledIn(plan) : p \in Plans /\ plan[p].state = "enabled"
        BY DEF IInv, Types, EnabledIn
      <4> QED
        BY <3>2, <4>1
    <3> QED
      BY <1>3, <3>1, <3>2 DEF CreateOrder
  <2> DEFINE w == [Idle EXCEPT !.op = "create_order", !.step = "insert", !.plan = p, !.locks = held,
                               !.rows = <<NewOrder(p)>>]
  <2>2. w.op = "create_order" /\ w.step = "insert" /\ w.rows = <<NewOrder(p)>> /\ w.todo = << >>
    BY DEF Idle
  <2>3. Starts(s, w)
    BY <2>1 DEF Creates
  <2> HIDE DEF w
  <2>4. DOMAIN w.rows = {1} /\ w.rows[1].plan = p /\ Len(w.rows) = 1 /\ DOMAIN w.todo = {}
    BY <2>2 DEF NewOrder
  <2>5. Ready(w, plan, next)
    BY <2>1, <2>2, <2>4 DEF Ready, Elems, PlanOps
  <2> QED
    BY <2>3, <2>5, ReadyGoes DEF Starts
<1>4. CASE CreatePlan(s)
  <2> DEFINE w == [Idle EXCEPT !.op = "create_plan", !.step = "insert", !.seen = next]
  <2>1. w.op = "create_plan" /\ w.step = "insert" /\ w.rows = << >> /\ w.todo = << >>
    BY DEF Idle
  <2>2. Starts(s, w)
    BY <1>4 DEF CreatePlan
  <2> HIDE DEF w
  <2>3. Ready(w, plan, next)
    BY <2>1, BeginReady
  <2> QED
    BY <2>2, <2>3, ReadyGoes DEF Starts
<1>6. CASE LockPlan(s)
  <2>1. PICK p \in Plans : Starts(s, [Idle EXCEPT !.op = "update_plan", !.step = "insert", !.plan = p, !.locks = {p}])
    BY <1>6 DEF LockPlan
  <2> DEFINE w == [Idle EXCEPT !.op = "update_plan", !.step = "insert", !.plan = p, !.locks = {p}]
  <2>2. w.op = "update_plan" /\ w.step = "insert" /\ w.rows = << >> /\ w.todo = << >>
    BY DEF Idle
  <2>3. Starts(s, w)
    BY <2>1
  <2> HIDE DEF w
  <2>4. Ready(w, plan, next)
    BY <2>2, BeginReady
  <2> QED
    BY <2>3, <2>4, ReadyGoes DEF Starts
<1>7. CASE GenerateDue(s)
  <2>1. PICK t : Goes(s, [Idle EXCEPT !.op = "generate", !.asOf = t, !.step = "locking", !.queue = InOrder(plan, DueIn(plan, t))])
    BY <1>7 DEF GenerateDue
  <2> DEFINE w == [Idle EXCEPT !.op = "generate", !.asOf = t, !.step = "locking", !.queue = InOrder(plan, DueIn(plan, t))]
  <2>2. w.op = "generate" /\ w.step = "locking" /\ w.rows = << >> /\ w.todo = << >>
    BY DEF Idle
  <2>3. Goes(s, w) /\ Unpublished
    BY <1>7, <2>1 DEF GenerateDue
  <2> HIDE DEF w
  <2> QED
    BY <2>2, <2>3, BeginReady, ReadyGoes
<1> QED
  BY <1>1, <1>2, <1>3, <1>4, <1>6, <1>7

\* The inserts.
LEMMA InsertReady == ASSUME IInv, AllReady, NEW s \in Sessions, InsertRows(s) PROVE AllReady'
<1> DEFINE t == tx[s]
           w == [t EXCEPT !.holds = Needs(t.op), !.step = "ready"]
<1>1. t \in Tran /\ Ready(t, plan, next) /\ Goes(s, w) /\ Unpublished /\ t.op \in {"edit", "create_order"}
  BY TxFact DEF InsertRows, AllReady
<1>2. /\ w.step = "ready" /\ w.holds = Needs(t.op) /\ w.op = t.op
      /\ w.rows = t.rows /\ w.moved = t.moved /\ w.todo = t.todo
  BY <1>1 DEF Tran
<1>3. "event_number" \in w.holds
  BY <1>2 DEF Needs
<1> HIDE DEF w
<1>4. Ready(w, plan, next)
  BY <1>1, <1>2, <1>3 DEF Ready, PlanOps
<1> QED
  BY <1>1, <1>4, ReadyGoes

\* A plan's row is written, and the asset's plans are looked at.
LEMMA WrittenReady == ASSUME IInv, AllReady, NEW s \in Sessions, Written(s) PROVE AllReady'
<1>1. PICK p \in Plans, r \in PlanRow :
        /\ WritesPlan(s, p, r) /\ tx[s].op \in PlanOps /\ r.state # "absent"
        /\ tx[s].op = "create_plan" => r.state = "enabled"
  BY DEF Written, PlanOps
<1> DEFINE t == tx[s]
           rows == [plan EXCEPT ![p] = r]
           d == RefreshedDate(rows, Loaded(s))
           w == [t EXCEPT !.holds = Needs(t.op), !.step = "ready", !.plan = p, !.row = r,
                          !.seen = Loaded(s), !.date = d]
<1>2. t \in Tran /\ Ready(t, plan, next) /\ Goes(s, w) /\ Unpublished /\ Good(t, plan, order)
  BY <1>1, TxFact DEF WritesPlan, AllReady
<1>3. EnabledIn(rows) = {} => d = Loaded(s)
  BY DEF RefreshedDate
<1> HIDE DEF d, rows
<1>4. /\ w.op = t.op /\ w.rows = t.rows /\ w.moved = t.moved /\ w.todo = t.todo /\ w.plan = p /\ w.row = r
      /\ w.seen = Loaded(s) /\ w.date = d
  BY <1>2 DEF Tran
<1> HIDE DEF w
<1>5. SeenBy(w, plan) = rows
  BY <1>1, <1>4 DEF SeenBy, rows, PlanOps
<1>6. t.op = "update_plan" => Loaded(s) = next
  BY DEF Loaded
<1>7. t.op \notin {"create_order", "generate", "edit"}
  BY <1>1 DEF PlanOps
<1>8. Ready(w, plan, next)
  BY <1>1, <1>2, <1>3, <1>4, <1>5, <1>6, <1>7 DEF Ready
<1> QED
  BY <1>2, <1>8, ReadyGoes

\* A run locks its plans and looks at them.
LEMMA GeneratorReady ==
  ASSUME IInv, AllReady, NEW s \in Sessions, LockNext(s) \/ SkipPlan(s) \/ GenerateOrder(s) \/ PlanFails(s)
  PROVE  AllReady'
<1> DEFINE t == tx[s]
<1>1. /\ t \in Tran /\ Ready(t, plan, next) /\ t.rows \in Seq(OrderRow) /\ t.todo \in Seq(Plans) /\ t.queue \in Seq(Plans)
      /\ Good(t, plan, order)
  BY TxFact DEF AllReady, Tran
<1>2. CASE LockNext(s)
  <2> DEFINE p    == Head(t.queue)
             todo == IF p \in DueIn(plan, t.asOf) THEN Append(t.todo, p) ELSE t.todo
             left == Tail(t.queue)
             r    == [t EXCEPT !.queue = left, !.locks = @ \union {p}, !.todo = todo]
             w    == IF left = << >> THEN [r EXCEPT !.asOf = 0, !.step = LoopOver(todo)] ELSE r
  <2>1. Goes(s, w) /\ Unpublished /\ t.op = "generate" /\ t.queue # << >> /\ Distinct(t.queue)
    BY <1>1, <1>2 DEF LockNext, Good, KindGood, QueueGood
  <2>2. p \in Plans
    BY <1>1, <2>1, TailFact
  <2>3. \A x \in Elems(todo) : plan[x].state = "enabled"
    <3>1. CASE p \in DueIn(plan, t.asOf)
      <4>1. Elems(Append(t.todo, p)) = Elems(t.todo) \union {p}
        <5> HIDE DEF t, p
        <5> QED
          BY <1>1, <2>2, AppendFact
      <4>2. plan[p].state = "enabled"
        BY <3>1 DEF DueIn, EnabledIn
      <4> QED
        BY <1>1, <3>1, <4>1, <4>2 DEF Ready
    <3>2. CASE p \notin DueIn(plan, t.asOf)
      BY <1>1, <3>2 DEF Ready
    <3> QED
      BY <3>1, <3>2
  <2> HIDE DEF todo, left, p
  <2>4. w.op = t.op /\ w.rows = t.rows /\ w.moved = t.moved /\ w.todo = todo
    <3>1. r.op = t.op /\ r.rows = t.rows /\ r.moved = t.moved /\ r.todo = todo /\ DOMAIN r = DOMAIN t
      BY <1>1 DEF Tran
    <3> HIDE DEF r
    <3> QED
      BY <1>1, <3>1 DEF Tran
  <2> HIDE DEF w, t
  <2>5. Ready(w, plan, next)
    BY <1>1, <2>1, <2>3, <2>4 DEF Ready, PlanOps
  <2> QED
    BY <2>1, <2>5, ReadyGoes
<1>3. ASSUME NEW r, Looping(s), PlanDone(s, r), DOMAIN r = DOMAIN t, r.op = t.op, r.todo = t.todo,
             \A i \in DOMAIN r.rows : r.rows[i].plan \in r.moved /\ plan[r.rows[i].plan].state = "enabled"
      PROVE  AllReady'
  <2> DEFINE w == [r EXCEPT !.todo = Tail(@), !.step = LoopOver(Tail(t.todo))]
  <2>1. t.op = "generate" /\ t.todo # << >> /\ Distinct(t.todo) /\ Goes(s, w) /\ Unpublished
    BY <1>1, <1>3, LoopFact DEF PlanDone, Looping, Good, KindGood, TodoGood
  <2>2. Elems(Tail(t.todo)) \subseteq Elems(t.todo)
    BY <1>1, <2>1, TailFact
  <2>3. w.op = t.op /\ w.rows = r.rows /\ w.moved = r.moved /\ w.todo = Tail(t.todo)
    BY <1>1, <1>3 DEF Tran
  <2> HIDE DEF w, t
  <2>4. Ready(w, plan, next)
    BY <1>1, <1>3, <2>1, <2>2, <2>3 DEF Ready, PlanOps
  <2> QED
    BY <2>1, <2>4, ReadyGoes
<1>4. Looping(s) => \A i \in DOMAIN t.rows : t.rows[i].plan \in t.moved /\ plan[t.rows[i].plan].state = "enabled"
  <2> SUFFICES ASSUME Looping(s), NEW i \in DOMAIN t.rows
               PROVE  t.rows[i].plan \in t.moved /\ plan[t.rows[i].plan].state = "enabled"
    OBVIOUS
  <2>1. t.op = "generate"
    BY LoopFact
  <2>2. t.rows[i].plan \in t.moved /\ t.moved \in SUBSET Plans
    BY <1>1, <2>1 DEF Ready, Tran
  <2>3. t.rows[i].plan # NoPlan
    BY <2>2, PlansAssumption DEF NoPlan
  <2> QED
    BY <1>1, <2>2, <2>3 DEF Ready
<1>5. CASE SkipPlan(s) \/ PlanFails(s)
  <2>1. Looping(s) /\ PlanDone(s, t)
    BY <1>5 DEF SkipPlan, PlanFails
  <2> HIDE DEF t
  <2> QED
    BY <1>3, <1>4, <2>1
<1>6. CASE GenerateOrder(s)
  <2> DEFINE p == Current(s)
             rows == Append(t.rows, NewOrder(p))
             r == [t EXCEPT !.holds = Needs("generate"), !.moved = @ \union {p}, !.rows = Append(@, NewOrder(p))]
  <2>1. Looping(s) /\ PlanDone(s, r)
    BY <1>6 DEF GenerateOrder
  <2>2. t.todo # << >> /\ Distinct(t.todo) /\ p \in Plans
    BY <1>1, <2>1, LoopFact DEF Looping, Good, KindGood, TodoGood
  <2>3. plan[p].state = "enabled"
    <3>1. Head(t.todo) \in Elems(t.todo)
      BY <1>1, <2>2, TailFact
    <3> QED
      BY <1>1, <3>1 DEF Ready, Current
  <2>4. DOMAIN r = DOMAIN t /\ r.op = t.op /\ r.todo = t.todo /\ r.rows = rows /\ r.moved = t.moved \union {p}
    BY <1>1 DEF Tran
  <2>5. NewOrder(p) \in OrderRow /\ NewOrder(p).plan = p
    BY <2>2 DEF NewOrder, OrderRow, Open
  <2> HIDE DEF p, r, t
  <2>6. /\ DOMAIN rows = 1..(Len(t.rows) + 1) /\ \A i \in DOMAIN t.rows : rows[i] = t.rows[i]
        /\ rows[Len(t.rows) + 1] = NewOrder(p) /\ Len(t.rows) \in Nat /\ DOMAIN t.rows = 1..Len(t.rows)
    BY <1>1, <2>5, AppendFact
  <2> HIDE DEF rows
  <2>7. \A i \in DOMAIN rows : i \in DOMAIN t.rows \/ i = Len(t.rows) + 1
    BY <2>6
  <2>8. \A i \in DOMAIN rows : rows[i].plan \in t.moved \union {p} /\ plan[rows[i].plan].state = "enabled"
    BY <1>4, <2>1, <2>3, <2>5, <2>6, <2>7
  <2> QED
    BY <1>3, <2>1, <2>4, <2>8
<1> QED
  BY <1>2, <1>5, <1>6

\* What another transaction has in hand stays so where its plans and numbers are not touched.
LEMMA ReadyStays ==
  ASSUME NEW t \in Tran, NEW pl, NEW pl2, NEW nx, NEW nx2, NEW od, Good(t, pl, od), Ready(t, pl, nx),
         \A p \in t.locks : pl[p].state # "absent" => pl2[p] = pl[p],
         "event_number" \in t.holds => pl2 = pl /\ nx2 = nx
  PROVE  Ready(t, pl2, nx2)
<1>1. \A i \in DOMAIN t.rows : t.rows[i].plan # NoPlan => pl2[t.rows[i].plan].state = "enabled"
  BY DEF Good, RowsGood, Ready
<1>2. \A p \in Elems(t.todo) : pl2[p].state = "enabled"
  BY DEF Good, TodoGood, Ready
<1>3. t.op \in PlanOps /\ t.step = "ready" =>
        /\ t.row.state # "absent" /\ (t.op = "create_plan" => t.row.state = "enabled")
        /\ t.op = "update_plan" => t.seen = nx2
        /\ EnabledIn(SeenBy(t, pl2)) = {} => t.date = t.seen
  BY DEF Good, PlanGood, Ready, PlanOps
<1> QED
  BY <1>1, <1>2, <1>3 DEF Ready

\* A transaction ends and what it wrote is there.
LEMMA ReadyPublishes ==
  ASSUME IInv, AllReady, NEW s \in Sessions, Goes(s, Idle),
         \A p \in Plans : plan[p].state # "absent" /\ p \notin tx[s].locks => plan'[p] = plan[p],
         "event_number" \in tx[s].holds \/ (plan' = plan /\ next' = next)
  PROVE  AllReady'
<1>1. tx'[s] = Idle /\ \A u \in Rest(s) : tx'[u] = tx[u]
  BY One, IdleFact DEF IInv
<1>2. Ready(Idle, plan', next')
  BY IdleFact, BeginReady
<1>3. ASSUME NEW u \in Rest(s) PROVE Ready(tx[u], plan', next')
  <2>1. u \in Sessions /\ Disjoint(tx[s], tx[u])
    BY TxFact
  <2>2. tx[u] \in Tran /\ Good(tx[u], plan, order) /\ Ready(tx[u], plan, next)
    BY <2>1, TxFact DEF AllReady
  <2>3. \A p \in tx[u].locks : plan[p].state # "absent" => plan'[p] = plan[p]
    BY <2>1, <2>2 DEF Disjoint, Tran
  <2>4. "event_number" \in tx[u].holds => plan' = plan /\ next' = next
    BY <2>1 DEF Disjoint
  <2> QED
    BY <2>2, <2>3, <2>4, ReadyStays
<1> QED
  BY <1>1, <1>2, <1>3 DEF AllReady, Rest

LEMMA EndsReady == ASSUME IInv, AllReady, NEW s \in Sessions, Ends(s) PROVE AllReady'
<1>1. tx[s].op = "edit" /\ Goes(s, Idle) /\ plan' = plan
  BY EditsFact DEF Ends
<1>2. tx[s].step = "ready"
  BY DEF Ends, Edits
<1>3. "event_number" \in tx[s].holds
  BY <1>1, <1>2 DEF AllReady, Ready
<1> QED
  BY <1>1, <1>3, ReadyPublishes

LEMMA CommitReady == ASSUME IInv, AllReady, NEW s \in Sessions, Commit(s) PROVE AllReady'
<1>1. Goes(s, Idle) /\ tx[s].step = "ready" /\ Good(tx[s], plan, order) /\ plan \in [Plans -> PlanRow]
  BY TxFact DEF Commit
<1>2. \A p \in Plans : plan[p].state # "absent" /\ p \notin tx[s].locks => plan'[p] = plan[p]
  BY PlansAfter
<1>3. "event_number" \in tx[s].holds \/ (plan' = plan /\ next' = next)
  <2> SUFFICES ASSUME "event_number" \notin tx[s].holds PROVE plan' = plan /\ next' = next
    OBVIOUS
  <2>1. \A p \in Plans : plan'[p] = plan[p]
    BY PlansAfter
  <2>2. plan' \in [Plans -> PlanRow]
    BY PlansAfter
  <2>3. plan' = plan
    BY <1>1, <2>1, <2>2
  <2>4. tx[s].op \notin {"create_plan", "update_plan"}
    BY <1>1 DEF Good, PlanGood
  <2> QED
    BY <2>3, <2>4 DEF Commit, PlanWritten
<1> QED
  BY <1>1, <1>2, <1>3, ReadyPublishes

LEMMA NextReady == ASSUME IInv, AllReady, [Next]_vars PROVE AllReady'
<1>1. CASE UNCHANGED vars
  BY <1>1 DEF vars, AllReady
<1>2. ASSUME NEW s \in Sessions, Generator(s) PROVE AllReady'
  BY <1>2, BeginsReady, GeneratorReady DEF Generator
<1>3. ASSUME NEW s \in Sessions, Request(s) PROVE AllReady'
  BY <1>3, BeginsReady, InsertReady, WrittenFact, WrittenReady, EndsFact, EndsReady, CommitReady DEF Request
<1> QED
  BY <1>1, <1>2, <1>3 DEF Next

LEMMA InitReady == Init => AllReady
<1> SUFFICES ASSUME Init PROVE AllReady
  OBVIOUS
<1>1. \A s \in Sessions : tx[s] = Idle
  BY DEF Init
<1> QED
  BY <1>1, IdleFact, BeginReady DEF AllReady

LEMMA ReadyAlways == Spec => [](IInv /\ AllReady)
<1>1. IInv /\ AllReady /\ [Next]_vars => IInv' /\ AllReady'
  BY NextIInv, NextReady
<1> QED
  BY <1>1, InitIInv, InitReady, PTL DEF Spec

-----------------------------------------------------------------------------
(* The steps of the book. *)
\* The enabled plans and their first date are the book's.
LEMMA BookSees ==
  /\ Book!Enabled = EnabledIn(plan) /\ Book!Enabled' = EnabledIn(plan')
  /\ Book!Earliest = FirstDate(plan) /\ Book!Earliest' = FirstDate(plan')
  BY DEF Book!Enabled, Book!Earliest, EnabledIn, FirstDate

\* A plan of which a transaction opens an order is enabled and has no open one.
LEMMA RowsVacant ==
  ASSUME IInv, AllReady, NEW s \in Sessions, NEW i \in DOMAIN tx[s].rows, tx[s].rows[i].plan # NoPlan
  PROVE  Book!Vacant(tx[s].rows[i].plan)
<1> DEFINE t == tx[s]
           p == tx[s].rows[i].plan
<1>1. t \in Tran /\ RowsGood(t, order) /\ Ready(t, plan, next) /\ plan \in [Plans -> PlanRow]
  BY TxFact DEF Good, AllReady
<1>2. p \in Plans
  BY <1>1 DEF RowsGood, Tran
<1>3. p \in EnabledIn(plan)
  BY <1>1, <1>2 DEF Ready, EnabledIn
<1>4. ~OpenIn(p, order)
  BY <1>1 DEF RowsGood
<1>5. \A o \in DOMAIN order : order[o].plan = p => order[o].status \notin Book!Pending
  BY <1>4 DEF OpenIn, Open, Book!Pending
<1> HIDE DEF p
<1>6. Book!Vacant(p)
  BY <1>3, <1>5, BookSees DEF Book!Vacant
<1> QED
  BY <1>6 DEF p

\* What becomes of a plan and of the asset's date.
LEMMA PlanCommits ==
  ASSUME IInv, AllReady, NEW s \in Sessions, Commit(s), tx[s].op \in PlanOps
  PROVE  /\ tx[s].plan \in Plans /\ tx[s].row \in PlanRow /\ tx[s].row.state # "absent"
         /\ plan' = [plan EXCEPT ![tx[s].plan] = tx[s].row] /\ order' = order
         /\ tx[s].op = "create_plan" =>
              /\ plan[tx[s].plan].state = "absent" /\ tx[s].row.state = "enabled" /\ EnabledIn(plan') # {}
              /\ next' = FirstDate(plan') \/ (FirstDate(plan') = tx[s].seen /\ next' = next)
         /\ tx[s].op = "update_plan" =>
              /\ plan[tx[s].plan].state # "absent"
              /\ next' = IF EnabledIn(plan') = {} THEN next ELSE FirstDate(plan')
<1> DEFINE t == tx[s]
<1>1. /\ t \in Tran /\ Good(t, plan, order) /\ Ready(t, plan, next) /\ t.step = "ready" /\ plan \in [Plans -> PlanRow]
      /\ order \in Seq(OrderRow) /\ t.op \in PlanOps
  BY TxFact DEF Commit, AllReady
<1>2. /\ t.plan \in Plans /\ t.row \in PlanRow /\ t.rows = << >> /\ t.moved = {}
      /\ EnabledIn(SeenBy(t, plan)) # {} => t.date = FirstDate(SeenBy(t, plan))
      /\ t.op = "create_plan" => plan[t.plan].state = "absent"
      /\ t.op = "update_plan" => plan[t.plan].state # "absent"
  BY <1>1 DEF Good, PlanGood, KindGood, PlanOps
<1>3. SeenBy(t, plan) \in [Plans -> PlanRow] /\ SeenBy(t, plan) = [plan EXCEPT ![t.plan] = t.row]
  BY <1>1, SeenFact DEF Good, SeenBy, PlanOps
<1>4. plan' = [p \in Plans |-> SeenBy(t, plan)[p]]
  BY <1>1, <1>2 DEF Commit, PlanWritten, SeenBy, PlanOps
<1>5. plan' = SeenBy(t, plan)
  BY <1>3, <1>4
<1>6. order' = order /\ next' = IF t.date # t.seen THEN t.date ELSE next
  BY <1>1, <1>2 DEF Commit, PlanWritten, PlanOps
<1>7. /\ t.row.state # "absent" /\ (t.op = "create_plan" => t.row.state = "enabled")
      /\ t.op = "update_plan" => t.seen = next
      /\ EnabledIn(plan') = {} => t.date = t.seen
      /\ EnabledIn(plan') # {} => t.date = FirstDate(plan')
  BY <1>1, <1>2, <1>5 DEF Ready
<1>8. t.op = "create_plan" => EnabledIn(plan') # {}
  <2>1. plan'[t.plan] = t.row /\ DOMAIN plan' = Plans
    BY <1>1, <1>2, <1>3, <1>5
  <2> QED
    BY <1>2, <1>7, <2>1 DEF EnabledIn
<1> HIDE DEF t
<1>9. t.op = "create_plan" => next' = FirstDate(plan') \/ (FirstDate(plan') = t.seen /\ next' = next)
  BY <1>6, <1>7, <1>8
<1>10. t.op = "update_plan" => next' = IF EnabledIn(plan') = {} THEN next ELSE FirstDate(plan')
  BY <1>6, <1>7
<1> QED
  BY <1>2, <1>3, <1>5, <1>6, <1>7, <1>8, <1>9, <1>10 DEF t

\* A plan's change is one.
LEMMA BookSetsPlan ==
  ASSUME IInv, AllReady, NEW s \in Sessions, Commit(s), tx[s].op \in PlanOps
  PROVE  \E p \in Plans : Book!ChangePlan(p) \/ Book!CreatePlan(p)
<1> DEFINE p == tx[s].plan
           r == tx[s].row
<1>1. /\ p \in Plans /\ plan' = [plan EXCEPT ![p] = r] /\ order' = order
      /\ r \in PlanRow /\ r.state # "absent"
  BY PlanCommits
<1> HIDE DEF r, p
<1>2. r.state \in {"enabled", "disabled"} /\ r.due \in Dates /\ r = [state |-> r.state, due |-> r.due]
  BY <1>1 DEF PlanRow
<1>3. CASE tx[s].op = "create_plan"
  <2>1. plan[p].state = "absent" /\ r = [state |-> "enabled", due |-> r.due] /\ next' \in {next, FirstDate(plan')}
    BY <1>2, <1>3, PlanCommits DEF p, r
  <2>2. Book!CreatePlan(p)
    BY <1>1, <1>2, <2>1, BookSees DEF Book!CreatePlan
  <2> QED
    BY <1>1, <2>2
<1>4. CASE tx[s].op = "update_plan"
  <2>1. plan[p].state # "absent" /\ next' = IF EnabledIn(plan') = {} THEN next ELSE FirstDate(plan')
    BY <1>4, PlanCommits DEF p
  <2>2. Book!ChangePlan(p)
    BY <1>1, <1>2, <2>1, BookSees DEF Book!ChangePlan
  <2> QED
    BY <1>1, <2>2
<1> QED
  BY <1>3, <1>4 DEF PlanOps

\* The creation of an order is one.
LEMMA BookOpensOrder ==
  ASSUME IInv, AllReady, NEW s \in Sessions, Commit(s), tx[s].op = "create_order"
  PROVE  \E p \in Plans \union {NoPlan} : Book!OpenOrder(p)
<1> DEFINE t == tx[s]
<1>1. /\ t \in Tran /\ Good(t, plan, order) /\ Ready(t, plan, next) /\ t.rows \in Seq(OrderRow)
      /\ order \in Seq(OrderRow) /\ plan \in [Plans -> PlanRow] /\ t.op = "create_order"
  BY TxFact DEF AllReady, Tran
<1>2. Len(t.rows) = 1 /\ t.moved = {}
  BY <1>1 DEF Ready, Good, KindGood
<1> DEFINE p == t.rows[1].plan
<1>3. 1 \in DOMAIN t.rows /\ t.rows[1] = NewOrder(p) /\ t.rows[1] \in OrderRow
  BY <1>1, <1>2 DEF Good, RowsGood
<1>4. p \in Plans \union {NoPlan} /\ (p # NoPlan => Book!Vacant(p))
  BY <1>3, RowsVacant DEF OrderRow
<1>5. order' = order \o t.rows /\ next' = next /\ plan' = [x \in Plans |-> plan[x]]
  BY <1>1, <1>2 DEF Commit, PlanWritten
<1> HIDE DEF t
<1>6. t.rows = <<t.rows[1]>>
  BY <1>1, <1>2
<1>7. order' = Append(order, NewOrder(p))
  BY <1>1, <1>3, <1>5, <1>6, AppendIsConcat
<1>8. plan' = plan
  BY <1>1, <1>5
<1> HIDE DEF p
<1>9. Book!OpenOrder(p)
  BY <1>4, <1>5, <1>7, <1>8 DEF Book!OpenOrder, Book!NewFor, NewOrder
<1> QED
  BY <1>4, <1>9

\* A run of the generator is one.
LEMMA BookGenerates ==
  ASSUME IInv, AllReady, NEW s \in Sessions, Commit(s), tx[s].op = "generate"
  PROVE  \E S \in SUBSET Plans : Book!Generate(S)
<1> DEFINE t == tx[s]
           S == tx[s].moved
           added == DOMAIN order' \ DOMAIN order
<1>1. /\ t \in Tran /\ Good(t, plan, order) /\ Ready(t, plan, next) /\ t.rows \in Seq(OrderRow) /\ S \in SUBSET Plans
      /\ order \in Seq(OrderRow) /\ plan \in [Plans -> PlanRow] /\ t.op = "generate"
  BY TxFact DEF AllReady, Tran
<1>2. order' = order \o t.rows /\ next' = next
  BY <1>1 DEF Commit, PlanWritten
<1>3. plan' = [p \in Plans |-> IF p \in S THEN [plan[p] EXCEPT !.due = @ + 1] ELSE plan[p]]
  BY <1>1 DEF Commit, PlanWritten
<1>4. \A i \in DOMAIN t.rows : t.rows[i] = NewOrder(t.rows[i].plan) /\ t.rows[i].plan \in S
  BY <1>1 DEF Ready, Good, RowsGood
<1>5. \A p \in S : \E i \in DOMAIN t.rows : t.rows[i] = NewOrder(p) /\ t.rows[i].plan = p
  BY <1>1 DEF Good, MovedGood, NewOrder
<1>6. \A i, j \in DOMAIN t.rows : i # j => t.rows[i] # t.rows[j]
  BY <1>1 DEF Good, RowsGood
<1>7. \A p \in S : Book!Vacant(p)
  <2> SUFFICES ASSUME NEW p \in S PROVE Book!Vacant(p)
    OBVIOUS
  <2>1. PICK i \in DOMAIN t.rows : t.rows[i].plan = p
    BY <1>5
  <2>2. p # NoPlan
    BY <1>1, PlansAssumption DEF NoPlan
  <2> QED
    BY <2>1, <2>2, RowsVacant
<1> HIDE DEF t, S
<1>8. /\ order' \in Seq(OrderRow) /\ Len(order') = Len(order) + Len(t.rows) /\ Len(order) \in Nat /\ Len(t.rows) \in Nat
      /\ \A i \in DOMAIN order : order'[i] = order[i]
      /\ \A o \in added : o - Len(order) \in DOMAIN t.rows /\ order'[o] = t.rows[o - Len(order)]
      /\ \A k \in DOMAIN t.rows : Len(order) + k \in added /\ order'[Len(order) + k] = t.rows[k]
      /\ DOMAIN order' \subseteq Nat
  BY <1>1, <1>2, JoinFact
<1>9. DOMAIN order' = 1..Len(order') /\ Len(order') >= Len(order)
  BY <1>8
<1>10. {order'[o] : o \in added} = {Book!NewFor(p) : p \in S}
  <2>1. ASSUME NEW o \in added PROVE \E p \in S : order'[o] = Book!NewFor(p)
    <3> DEFINE i == o - Len(order)
    <3>1. i \in DOMAIN t.rows /\ order'[o] = t.rows[i]
      BY <1>8
    <3> HIDE DEF i
    <3>2. t.rows[i] = NewOrder(t.rows[i].plan) /\ t.rows[i].plan \in S
      BY <1>4, <3>1
    <3>3. order'[o] = Book!NewFor(t.rows[i].plan)
      BY <3>1, <3>2 DEF NewOrder, Book!NewFor
    <3> QED
      BY <3>2, <3>3
  <2>2. ASSUME NEW p \in S PROVE \E o \in added : order'[o] = Book!NewFor(p)
    <3>1. PICK k \in DOMAIN t.rows : t.rows[k] = NewOrder(p)
      BY <1>5
    <3>2. Len(order) + k \in added /\ order'[Len(order) + k] = Book!NewFor(p)
      BY <1>8, <3>1 DEF NewOrder, Book!NewFor
    <3> HIDE DEF added
    <3> QED
      BY <3>2
  <2> HIDE DEF added
  <2> QED
    BY <2>1, <2>2
<1>11. \A o, x \in added : o # x => order'[o] # order'[x]
  <2> SUFFICES ASSUME NEW o \in added, NEW x \in added, o # x PROVE order'[o] # order'[x]
    OBVIOUS
  <2>1. o - Len(order) # x - Len(order)
    BY <1>8
  <2> QED
    BY <1>6, <1>8, <2>1
<1>12. Book!Generate(S)
  BY <1>2, <1>3, <1>7, <1>8, <1>9, <1>10, <1>11 DEF Book!Generate
<1> QED
  BY <1>1, <1>12

\* An operation on an order is one, or changes nothing the book keeps.
LEMMA BookEdits ==
  ASSUME IInv, NEW s \in Sessions, Assign(s) \/ Reschedule(s) \/ Start(s) \/ AddNote(s) \/ Complete(s) \/ Cancel(s)
  PROVE  [Book!BookNext]_Book!book
<1> DEFINE o == tx[s].order
<1>1. ASSUME NEW from, NEW to, Edits(s, from, to)
      PROVE  /\ o \in DOMAIN order /\ order[o] \in OrderRow /\ order[o].status \in from /\ tx[s].op = "edit"
             /\ order' = [order EXCEPT ![o].status = to] /\ plan' = plan /\ order \in Seq(OrderRow)
  <2>1. /\ o # 0 /\ tx[s].row.status \in from /\ order' = [order EXCEPT ![o].status = to] /\ plan' = plan
        /\ Good(tx[s], plan, order) /\ order \in Seq(OrderRow)
    BY <1>1, TxFact DEF Edits
  <2>2. o \in DOMAIN order /\ tx[s].row = order[o] /\ tx[s].op = "edit"
    BY <2>1 DEF Good, EditGood
  <2> HIDE DEF o
  <2> QED
    BY <2>1, <2>2
<1>2. ASSUME NEW x, Edits(s, {x}, x), next' = next PROVE UNCHANGED Book!book
  <2>1. /\ o \in DOMAIN order /\ order[o] \in OrderRow /\ order[o].status = x
        /\ order' = [order EXCEPT ![o].status = x] /\ plan' = plan /\ order \in Seq(OrderRow)
    BY <1>1, <1>2
  <2> HIDE DEF o
  <2>2. [order[o] EXCEPT !.status = x] = order[o]
    BY <2>1 DEF OrderRow
  <2>3. order' = order
    BY <2>1, <2>2
  <2> QED
    BY <1>2, <2>1, <2>3 DEF Book!book
<1>3. CASE Assign(s) \/ Reschedule(s) \/ AddNote(s)
  BY <1>2, <1>3 DEF Assign, Reschedule, AddNote
<1>4. CASE Start(s)
  <2>1. o \in DOMAIN order /\ Book!Start(o)
    BY <1>1, <1>4 DEF Start, Book!Start, Book!Move
  <2> HIDE DEF o
  <2> QED
    BY <2>1 DEF Book!BookNext
<1>5. CASE Cancel(s)
  <2>1. o \in DOMAIN order /\ Book!Cancel(o)
    BY <1>1, <1>5 DEF Cancel, Book!Cancel, Book!Move, Open, Book!Pending
  <2> HIDE DEF o
  <2> QED
    BY <2>1 DEF Book!BookNext
<1>6. CASE Complete(s)
  <2>1. Edits(s, {"in_progress"}, "completed") /\ next' \in {next, RefreshedDate(plan, next)}
    BY <1>6 DEF Complete
  <2>2. /\ o \in DOMAIN order /\ order[o].status = "in_progress" /\ order' = [order EXCEPT ![o].status = "completed"]
        /\ plan' = plan /\ tx[s].op = "edit"
    BY <1>1, <2>1
  <2>3. RefreshedDate(plan, next) = IF EnabledIn(plan) = {} THEN next ELSE FirstDate(plan)
    BY DEF RefreshedDate
  <2> HIDE DEF o
  <2>4. Book!Complete(o)
    BY <2>1, <2>2, <2>3, BookSees DEF Book!Complete, Book!Move
  <2> QED
    BY <2>2, <2>4 DEF Book!BookNext
<1> QED
  BY <1>3, <1>4, <1>5, <1>6

\* A step publishes nothing, is an operation on an order, or commits.
LEMMA BookStep == ASSUME IInv, AllReady, [Next]_vars PROVE [Book!BookNext]_Book!book
<1>1. CASE UNCHANGED vars \/ Unpublished
  BY <1>1 DEF vars, Unpublished, Book!book
<1>2. ASSUME NEW s \in Sessions, Commit(s) PROVE [Book!BookNext]_Book!book
  <2>1. tx[s] \in Tran /\ Good(tx[s], plan, order) /\ tx[s].step = "ready" /\ tx[s].order = 0
    BY <1>2, TxFact DEF Commit
  <2>2. tx[s].op \in {"edit", "create_order", "generate"} \union PlanOps
    BY <2>1 DEF Tran, Ops, Good, KindGood, PlanOps
  <2>3. CASE tx[s].op = "edit"
    <3>1. tx[s].rows = << >> /\ tx[s].moved = {} /\ order \in Seq(OrderRow) /\ plan \in [Plans -> PlanRow]
      BY <2>1, <2>3, TxFact DEF Good, KindGood
    <3>2. plan' = [p \in Plans |-> plan[p]] /\ order' = order \o << >> /\ next' = next
      BY <1>2, <2>3, <3>1 DEF Commit, PlanWritten
    <3>3. plan' = plan /\ order' = order
      BY <3>1, <3>2
    <3> QED
      BY <3>2, <3>3 DEF Book!book
  <2>4. CASE tx[s].op \in PlanOps
    BY <1>2, <2>4, BookSetsPlan DEF Book!BookNext
  <2>5. CASE tx[s].op = "create_order"
    BY <1>2, <2>5, BookOpensOrder DEF Book!BookNext
  <2>6. CASE tx[s].op = "generate"
    BY <1>2, <2>6, BookGenerates DEF Book!BookNext
  <2> QED
    BY <2>2, <2>3, <2>4, <2>5, <2>6
<1>3. ASSUME NEW s \in Sessions, Request(s) \/ Generator(s) PROVE [Book!BookNext]_Book!book
  <2>1. ASSUME NEW r, Starts(s, r) PROVE Unpublished
    BY <2>1 DEF Starts
  <2>2. LockOrder(s) \/ CreateOrder(s) \/ CreatePlan(s) \/ LockPlan(s) => Unpublished
    BY <2>1 DEF LockOrder, CreateOrder, Creates, CreatePlan, LockPlan
  <2>3. Fail(s) \/ InsertRows(s) \/ InsertPlan(s) \/ UpdatePlan(s) \/ DisablePlan(s) \/ Generator(s) => Unpublished
    BY DEF Fail, InsertRows, InsertPlan, UpdatePlan, DisablePlan, WritesPlan, Generator, GenerateDue, LockNext, SkipPlan, GenerateOrder, PlanFails, PlanDone
  <2> QED
    BY <1>1, <1>2, <1>3, <2>2, <2>3, BookEdits DEF Request
<1> QED
  BY <1>1, <1>3 DEF Next

LEMMA BookStarts == Init => Book!BookInit
<1> SUFFICES ASSUME Init PROVE Book!BookInit
  OBVIOUS
<1>1. order = << >> /\ next = IF EnabledIn(plan) = {} THEN 0 ELSE FirstDate(plan)
  BY DEF Init
<1>2. \A p \in Plans : plan[p].state \in {"enabled", "absent"}
  BY DEF Init
<1> QED
  BY <1>1, <1>2, BookSees DEF Book!BookInit

\* A request that changes a plan leaves the asset's next maintenance at its first enabled
\* plan's, whatever commits between its look at the plans and its own commit; one that
\* creates a plan does, unless others have moved the date since it loaded the asset, away
\* from just the one that is right again (maintenance.py, create_plan, update_plan,
\* disable_plan and _refresh_asset_next_maintenance).
THEOREM DateRefreshed == Spec => AssetDateRefreshed
<1> DEFINE Step ==
      \A s \in Sessions :
        tx[s].op \in {"create_plan", "update_plan"} /\ Publishes(s) /\ EnabledIn(plan') # {} =>
          \/ next' = FirstDate(plan')
          \/ tx[s].op = "create_plan" /\ FirstDate(plan') = tx[s].seen /\ tx[s].seen # next
<1>1. ASSUME IInv, AllReady, [Next]_vars PROVE [Step]_vars
  <2>1. CASE UNCHANGED vars
    BY <2>1
  <2>2. CASE Unpublished
    BY <2>2 DEF Unpublished, Publishes
  <2>3. ASSUME NEW u \in Sessions, Goes(u, Idle), NEW s \in Sessions, s # u,
               tx[s].op \in {"create_plan", "update_plan"}
        PROVE  ~Publishes(s)
    <3>1. tx'[s] = tx[s]
      BY <1>1, <2>3, One, IdleFact DEF IInv, Rest
    <3>2. tx[s].step # "idle"
      BY <1>1, <2>3, TxFact, IdleFact DEF Good, KindGood
    <3> QED
      BY <3>1, <3>2 DEF Publishes
  <2>4. ASSUME NEW u \in Sessions, Ends(u) PROVE Step
    <3>1. Goes(u, Idle) /\ tx[u].op = "edit"
      BY <1>1, <2>4, EditsFact DEF Ends
    <3> QED
      BY <2>3, <3>1
  <2>5. ASSUME NEW u \in Sessions, Commit(u) PROVE Step
    <3>1. Goes(u, Idle)
      BY <2>5 DEF Commit
    <3>2. ASSUME tx[u].op \in {"create_plan", "update_plan"}, EnabledIn(plan') # {}
          PROVE  \/ next' = FirstDate(plan')
                 \/ tx[u].op = "create_plan" /\ FirstDate(plan') = tx[u].seen /\ tx[u].seen # next
      <4>1. tx[u].op \in PlanOps
        BY <3>2 DEF PlanOps
      <4> QED
        BY <1>1, <2>5, <3>2, <4>1, PlanCommits
    <3> QED
      BY <2>3, <3>1, <3>2
  <2> HIDE DEF Step
  <2> QED
    BY <1>1, <2>1, <2>2, <2>4, <2>5, Kinds DEF Next
<1>2. Spec => [][Step]_vars
  <2> HIDE DEF Step
  <2> QED
    BY <1>1, ReadyAlways, PTL DEF Spec
<1> QED
  BY <1>2 DEF AssetDateRefreshed

\* Requests and generators change plans, orders and the asset's date as if each were one
\* step that decides on what it then finds, for any number of them (maintenance.py, every
\* operation): whatever they have read stays true to their commits, but for the asset's
\* date that the creator of a plan has in hand.
THEOREM MaintenanceImplementsBook == Spec => OneAfterAnother
<1>1. IInv /\ AllReady /\ [Next]_vars => [Book!BookNext]_Book!book
  BY BookStep
<1>2. Spec => Book!BookSpec
  BY <1>1, ReadyAlways, BookStarts, PTL DEF Spec, Book!BookSpec
<1> QED
  BY <1>2, DateRefreshed DEF OneAfterAnother

-----------------------------------------------------------------------------
(***************************************************************************)
(* The demonstration's seed and the clean-up.                              *)
(***************************************************************************)
\* The catalogues' ids are keys.
LEMMA CatalogueKey == ASSUME NEW n \in CATALOGUE, NEW m \in CATALOGUE, n[1] = m[1] PROVE n = m
  BY DEF CATALOGUE, SENSORS, VALVES, GATEWAYS

LEMMA IncidentKey == ASSUME NEW n \in INCIDENTS, NEW m \in INCIDENTS, n[1] = m[1] PROVE n = m
  BY DEF INCIDENTS

LEMMA AssetRow == ASSUME NEW s \in CATALOGUE PROVE TheRow(CATALOGUE, s[1]) = s /\ s[1] \in Ids(CATALOGUE)
  BY CatalogueKey DEF TheRow, Ids

LEMMA SensorRow == ASSUME NEW s \in SENSORS PROVE TheRow(SENSORS, s[1]) = s /\ s[1] \in Ids(SENSORS)
<1>1. s \in CATALOGUE /\ SENSORS \subseteq CATALOGUE
  BY DEF CATALOGUE
<1> QED
  BY <1>1, CatalogueKey DEF TheRow, Ids

LEMMA IncidentRow == ASSUME NEW n \in INCIDENTS PROVE TheRow(INCIDENTS, n[1]) = n /\ n[1] \in Ids(INCIDENTS)
  BY IncidentKey DEF TheRow, Ids

\* Each asset of the catalogue lies in the zone of its segment.
LEMMA CatalogueFits == /\ \A s \in SEGMENTS : s \in {n[3] : n \in INCIDENTS}
                       /\ \A s \in CATALOGUE : s[3] \in SEGMENTS /\ SegmentZone(s[3]) = s[2]
<1>1. ASSUME NEW n \in INCIDENTS, NEW m \in INCIDENTS, n[3] = m[3] PROVE n[2] = m[2]
  BY <1>1 DEF INCIDENTS
<1>2. ASSUME NEW s \in CATALOGUE PROVE \E n \in INCIDENTS : n[3] = s[3] /\ n[2] = s[2]
  BY DEF INCIDENTS, CATALOGUE, SENSORS, VALVES, GATEWAYS
<1>3. ASSUME NEW s \in CATALOGUE PROVE s[3] \in SEGMENTS
  BY DEF CATALOGUE, SENSORS, VALVES, GATEWAYS, SEGMENTS
<1>4. \A s \in SEGMENTS : s \in {n[3] : n \in INCIDENTS}
  BY DEF SEGMENTS, INCIDENTS
<1> QED
  BY <1>1, <1>2, <1>3, <1>4 DEF SegmentZone

\* A database of all the tables, and one that differs in some of them.
Whole(d) == d = [t \in Tables |-> d[t]]
Keeps(d, e, changed) == Whole(e) /\ \A t \in Tables \ changed : e[t] = d[t]

LEMMA SameTables == ASSUME NEW d, NEW e, Whole(d), Whole(e), \A t \in Tables : d[t] = e[t] PROVE d = e
  BY DEF Whole

SeededAsset(assets, id) == SeedAsset(assets, TheRow(CATALOGUE, id))
LEMMA SeedAssetsIs ==
  ASSUME NEW d, Whole(d) PROVE /\ Keeps(d, SeedAssets(d), {"assets"})
                               /\ SeedAssets(d).assets = Put(d.assets, [id \in Ids(CATALOGUE) |-> SeededAsset(d.assets, id)])
  BY CatalogueFits DEF SeedAssets, Keeps, Whole, Tables, SeededAsset

LEMMA SeedIncidentsIs ==
  ASSUME NEW d, Whole(d), Ids(CATALOGUE) \subseteq DOMAIN d.assets
  PROVE  /\ Keeps(d, SeedIncidents(d), {"incidents", "events"})
         /\ SeedIncidents(d).incidents = Put(d.incidents, [id \in Ids(INCIDENTS) |-> SeedIncident(TheRow(INCIDENTS, id))])
         /\ SeedIncidents(d).events = {e \in d.events : e.incident \notin Ids(INCIDENTS)} \union TIMELINES
<1>1. ASSUME NEW n \in INCIDENTS PROVE n[4] \in Ids(SENSORS) /\ n[5] \in Ids(VALVES)
  BY DEF INCIDENTS, Ids, SENSORS, VALVES
<1>2. Ids(SENSORS) \subseteq Ids(CATALOGUE) /\ Ids(VALVES) \subseteq Ids(CATALOGUE)
  BY DEF Ids, CATALOGUE
<1> QED
  BY <1>1, <1>2 DEF SeedIncidents, Keeps, Whole, Tables

Dated(assets, all) ==
  [a \in DOMAIN assets |-> IF \E r \in all : r.sensor = a
                           THEN [assets[a] EXCEPT !.seen = Max({r.at : r \in {x \in all : x.sensor = a}})] ELSE assets[a]]

LEMMA SeedReadingsIs ==
  ASSUME NEW d, Whole(d)
  PROVE  /\ Keeps(d, SeedReadings(d), {"readings", "assets"})
         /\ SeedReadings(d).readings = d.readings \union ReadingsToInsert(d)
         /\ SeedReadings(d).assets = Dated(d.assets, d.readings \union ReadingsToInsert(d))
  BY DEF SeedReadings, Keeps, Whole, Tables, Dated

LEMMA SeedReviewIs ==
  ASSUME NEW d, Whole(d)
  PROVE  /\ Keeps(d, SeedReview(d), {"review"})
         /\ SeedReview(d).review = IF d.review = "new" THEN "under_review" ELSE d.review
  BY DEF SeedReview, Keeps, Whole, Tables

LEMMA SeedAgentsIs ==
  ASSUME NEW d, Whole(d)
  PROVE  /\ Keeps(d, SeedAgents(d), {"agents"})
         /\ SeedAgents(d).agents = Put(d.agents, [c \in {"investigation_agent", "response_agent", "network_agent"} |->
              [enabled |-> FALSE, health |-> IF c # "network_agent" /\ c \in DOMAIN d.agents THEN d.agents[c].health ELSE "disabled"]])
  BY DEF SeedAgents, Keeps, Whole, Tables

DemoPlanRows == [p \in 1..9 |-> PlanValues(p)]
DemoOrderRows == [o \in 1..6 |-> SeedOrder(o)]
Kept(d) == {e \in d.history : \E h \in DemoHistory : h.id = e.id}
LEMMA SeedMaintenanceIs ==
  ASSUME NEW d, Whole(d), Ids(CATALOGUE) \subseteq DOMAIN d.assets
  PROVE  /\ Keeps(d, SeedMaintenance(d), {"plans", "orders", "history"})
         /\ SeedMaintenance(d).plans = DemoPlanRows /\ SeedMaintenance(d).orders = DemoOrderRows
         /\ SeedMaintenance(d).history = Kept(d) \union {h \in DemoHistory : \A e \in Kept(d) : e.id # h.id}
<1>1. ASSUME NEW p \in 1..9 PROVE DemoPlans[p] \in Ids(CATALOGUE)
  <2>1. {"SNS-HBR-007", "SNS-CRN-014", "SNS-JED-112", "SNS-DOH-044"} \subseteq Ids(SENSORS)
    BY DEF Ids, SENSORS
  <2>2. {"VLV-CRN-014", "VLV-HBR-007"} \subseteq Ids(VALVES)
    BY DEF Ids, VALVES
  <2>3. {"HBR-GW-02", "CRN-GW-01", "AIN-GW-01"} \subseteq Ids(GATEWAYS)
    BY DEF Ids, GATEWAYS
  <2>4. p \in {1, 2, 3, 4, 5, 6, 7, 8, 9}
    OBVIOUS
  <2>5. DemoPlans[p] \in {"SNS-HBR-007", "SNS-CRN-014", "SNS-JED-112", "SNS-DOH-044", "VLV-CRN-014", "VLV-HBR-007",
                         "HBR-GW-02", "CRN-GW-01", "AIN-GW-01"}
    BY <2>4 DEF DemoPlans
  <2> QED
    BY <2>1, <2>2, <2>3, <2>5 DEF Ids, CATALOGUE
<1>2. ~ \E p \in 1..9 : DemoPlans[p] \notin DOMAIN d.assets
  BY <1>1
<1> QED
  BY <1>2 DEF SeedMaintenance, Keeps, Whole, Tables, DemoPlanRows, DemoOrderRows, Kept

LEMMA SeedDeviceNetworkIs ==
  ASSUME NEW d, Whole(d), Ids(CATALOGUE) \subseteq DOMAIN d.assets
  PROVE  Keeps(d, SeedDeviceNetwork(d), {"snapshots"}) /\ SeedDeviceNetwork(d).snapshots = d.snapshots \union SNAPSHOTS
<1>1. SNAPSHOTS \subseteq Ids(CATALOGUE)
  <2>1. {"SNS-HBR-007", "SNS-AIN-221"} \subseteq Ids(SENSORS)
    BY DEF Ids, SENSORS
  <2>2. {"VLV-CRN-014"} \subseteq Ids(VALVES)
    BY DEF Ids, VALVES
  <2>3. {"HBR-GW-02", "CRN-GW-01", "AIN-GW-01", "MCT-GW-01"} \subseteq Ids(GATEWAYS)
    BY DEF Ids, GATEWAYS
  <2> QED
    BY <2>1, <2>2, <2>3 DEF Ids, CATALOGUE, SNAPSHOTS
<1> QED
  BY <1>1 DEF SeedDeviceNetwork, Keeps, Whole, Tables
ResultKinds == {"runs", "findings", "advice", "log", "mappings"}
ResultTables(r) == r = [runs |-> r.runs, findings |-> r.findings, advice |-> r.advice, log |-> r.log, mappings |-> r.mappings]
Left(r) == [k \in DOMAIN r |-> r[k] \ Dummy(r)[k]]
LEMMA LeftIs == ASSUME NEW r, ResultTables(r)
                PROVE  /\ ResultTables(Left(r)) /\ DOMAIN r = ResultKinds
                       /\ Left(r).runs = r.runs \ Dummy(r).runs /\ Left(r).findings = r.findings \ Dummy(r).findings
                       /\ Left(r).advice = r.advice \ Dummy(r).advice /\ Left(r).log = r.log \ Dummy(r).log
                       /\ Left(r).mappings = r.mappings \ Dummy(r).mappings
<1>1. DOMAIN r = ResultKinds
  BY DEF ResultTables, ResultKinds
<1> DEFINE l == Left(r)
<1>2. l = [k \in ResultKinds |-> r[k] \ Dummy(r)[k]]
  BY <1>1 DEF Left
<1>3. /\ l.runs = r.runs \ Dummy(r).runs /\ l.findings = r.findings \ Dummy(r).findings
      /\ l.advice = r.advice \ Dummy(r).advice /\ l.log = r.log \ Dummy(r).log
      /\ l.mappings = r.mappings \ Dummy(r).mappings
  BY <1>2 DEF ResultKinds
<1>4. ResultTables(l)
  BY <1>2 DEF ResultTables, ResultKinds
<1> QED
  BY <1>1, <1>3, <1>4

LEMMA DummyIs == ASSUME NEW r
                 PROVE  /\ Dummy(r).runs = DummyRuns(r)
                        /\ Dummy(r).findings = {f \in r.findings : f.demo \/ f.run \in {x.id : x \in DummyRuns(r)}}
                        /\ Dummy(r).advice = {f \in r.advice : f.demo \/ f.run \in {x.id : x \in DummyRuns(r)}}
                        /\ Dummy(r).log = {e \in r.log : e.mock \/ e.numbered \/ e.network \/ e.demo
                                                        \/ e.run \in {x.id : x \in DummyRuns(r)}}
                        /\ Dummy(r).mappings = {x \in r.mappings : x.demo}
  BY DEF Dummy

\* What a clean-up leaves holds nothing to delete.
LEMMA DeletesAll == ASSUME NEW r, ResultTables(r)
                    PROVE  DeleteDummy(r) = [error |-> "none", left |-> Left(r), deleted |-> Counts(Dummy(r))]
<1>1. ~ \E f \in Left(r).findings \union Left(r).advice : f.run \in {x.id : x \in Dummy(r).runs}
  BY LeftIs, DummyIs
<1> QED
  BY <1>1 DEF DeleteDummy, Left

LEMMA NothingLeft == ASSUME NEW r, ResultTables(r)
                     PROVE  /\ Dummy(Left(r)).runs = {} /\ Dummy(Left(r)).findings = {} /\ Dummy(Left(r)).advice = {}
                            /\ Dummy(Left(r)).log = {} /\ Dummy(Left(r)).mappings = {}
<1> DEFINE l == Left(r)
<1>1. \A f \in l.findings \union l.advice : ~f.demo
  BY LeftIs, DummyIs
<1>2. l.runs \subseteq r.runs /\ \A x \in l.runs : x \notin DummyRuns(r)
  BY LeftIs, DummyIs
<1>3. \A x \in l.runs : ~x.mock /\ ~x.network /\ ~x.historical
  BY <1>2 DEF DummyRuns
<1>4. DummyRuns(l) = {}
  BY <1>1, <1>3 DEF DummyRuns
<1>5. {x.id : x \in DummyRuns(l)} = {}
  BY <1>4
<1>6. \A e \in l.log : ~(e.mock \/ e.numbered \/ e.network \/ e.demo)
  BY LeftIs, DummyIs
<1>7. \A x \in l.mappings : ~x.demo
  BY LeftIs, DummyIs
<1> HIDE DEF l
<1>8. Dummy(l).runs = {} /\ Dummy(l).findings = {} /\ Dummy(l).advice = {} /\ Dummy(l).log = {} /\ Dummy(l).mappings = {}
  BY <1>1, <1>4, <1>5, <1>6, <1>7, DummyIs
<1> QED
  BY <1>8 DEF l

LEMMA LeftAgain == ASSUME NEW r, ResultTables(r) PROVE Left(Left(r)) = Left(r)
<1> DEFINE l == Left(r)
<1>1. ResultTables(l)
  BY LeftIs
<1>2. /\ Dummy(l).runs = {} /\ Dummy(l).findings = {} /\ Dummy(l).advice = {}
      /\ Dummy(l).log = {} /\ Dummy(l).mappings = {}
  BY NothingLeft
<1> HIDE DEF l
<1>3. /\ ResultTables(Left(l))
      /\ Left(l).runs = l.runs \ Dummy(l).runs /\ Left(l).findings = l.findings \ Dummy(l).findings
      /\ Left(l).advice = l.advice \ Dummy(l).advice /\ Left(l).log = l.log \ Dummy(l).log
      /\ Left(l).mappings = l.mappings \ Dummy(l).mappings
  BY <1>1, LeftIs
<1>4. Left(l).runs = l.runs /\ Left(l).findings = l.findings /\ Left(l).advice = l.advice /\ Left(l).log = l.log
      /\ Left(l).mappings = l.mappings
  <2>1. \A S : S \ {} = S
    OBVIOUS
  <2> QED
    BY <1>2, <1>3, <2>1
<1>5. Left(l) = l
  BY <1>1, <1>3, <1>4 DEF ResultTables
<1> QED
  BY <1>5 DEF l

LEMMA SeedNetworkAuditIs ==
  ASSUME NEW d, Whole(d), ResultTables(d.results)
  PROVE  Keeps(d, SeedNetworkAudit(d), {"results"}) /\ SeedNetworkAudit(d).results = Left(d.results)
<1>1. DeleteDummy(d.results).error = "none" /\ DeleteDummy(d.results).left = Left(d.results)
  BY DeletesAll
<1> QED
  BY <1>1 DEF SeedNetworkAudit, Keeps, Whole, Tables

(* The clean-up deletes what its dry run counts, at once and whole runs.       *)
LEMMA CleansExactly == ASSUME NEW i, ResultsStored(i.results), i.production \in BOOLEAN, i.confirm \in BOOLEAN
                       PROVE  CleanupExact(i)
<1> DEFINE r == i.results
           result == Cleanup(r, i.production, i.confirm)
<1>1. ResultTables(r)
  BY DEF ResultsStored, ResultTables
<1>2. DeleteDummy(r).error = "none" /\ DeleteDummy(r).left = Left(r)
  BY <1>1, DeletesAll
<1>3. result.left = (IF i.production \/ ~i.confirm THEN r ELSE Left(r)) /\ result.error = (IF i.production THEN "refused" ELSE "none")
  BY <1>2 DEF Cleanup
<1>4. ASSUME ~i.production, i.confirm
      PROVE  /\ result.selected = [k \in DOMAIN r |-> Cardinality(r[k]) - Cardinality(result.left[k])]
             /\ Cleanup(result.left, FALSE, TRUE).left = result.left
             /\ \A f \in (r.findings \ result.left.findings) \union (r.advice \ result.left.advice) :
                    f.run \notin {x.id : x \in result.left.runs}
             /\ \A f \in result.left.findings \union result.left.advice :
                    ~f.demo /\ \E x \in result.left.runs : x.id = f.run /\ ~x.mock
  <2>1. result.left = Left(r) /\ result.selected = Counts(Dummy(r))
    BY <1>3, <1>4 DEF Cleanup
  <2>2. ASSUME NEW T, NEW D, IsFiniteSet(T), D \subseteq T
        PROVE  Cardinality(D) = Cardinality(T) - Cardinality(T \ D)
    <3>1. IsFiniteSet(D) /\ Cardinality(T \ D) = Cardinality(T) - Cardinality(D) /\ Cardinality(T) \in Nat /\ Cardinality(D) \in Nat
      <4>1. IsFiniteSet(D)
        BY <2>2, FS_Subset
      <4>2. T \intersect D = D
        BY <2>2
      <4> QED
        BY <2>2, <4>1, <4>2, FS_Difference, FS_CardinalityType
    <3> QED
      BY <3>1
  <2>3. Counts(Dummy(r)) = [k \in DOMAIN r |-> Cardinality(r[k]) - Cardinality(Left(r)[k])]
    <3>1. \A k \in ResultKinds : IsFiniteSet(r[k])
      BY <1>1, LeftIs DEF ResultsStored
    <3>2. /\ Dummy(r).runs \subseteq r.runs /\ Dummy(r).findings \subseteq r.findings /\ Dummy(r).advice \subseteq r.advice
          /\ Dummy(r).log \subseteq r.log /\ Dummy(r).mappings \subseteq r.mappings
      BY DummyIs DEF DummyRuns
    <3>3. /\ IsFiniteSet(r.runs) /\ IsFiniteSet(r.findings) /\ IsFiniteSet(r.advice)
          /\ IsFiniteSet(r.log) /\ IsFiniteSet(r.mappings)
      BY <3>1 DEF ResultKinds
    <3>4. /\ Cardinality(Dummy(r).runs) = Cardinality(r.runs) - Cardinality(Left(r).runs)
          /\ Cardinality(Dummy(r).findings) = Cardinality(r.findings) - Cardinality(Left(r).findings)
          /\ Cardinality(Dummy(r).advice) = Cardinality(r.advice) - Cardinality(Left(r).advice)
          /\ Cardinality(Dummy(r).log) = Cardinality(r.log) - Cardinality(Left(r).log)
          /\ Cardinality(Dummy(r).mappings) = Cardinality(r.mappings) - Cardinality(Left(r).mappings)
      BY <1>1, <2>2, <3>2, <3>3, LeftIs
    <3>5. DOMAIN r = ResultKinds
      BY <1>1, LeftIs
    <3> QED
      BY <3>4, <3>5 DEF Counts, ResultKinds
  <2>4. Cleanup(Left(r), FALSE, TRUE).left = Left(r)
    <3>1. ResultTables(Left(r))
      BY <1>1, LeftIs
    <3>2. DeleteDummy(Left(r)).left = Left(r)
      BY <1>1, <3>1, DeletesAll, LeftAgain
    <3> QED
      BY <3>2 DEF Cleanup
  <2>5. \A f \in (r.findings \ Left(r).findings) \union (r.advice \ Left(r).advice) : f.run \notin {x.id : x \in Left(r).runs}
    <3> SUFFICES ASSUME NEW f \in r.findings \union r.advice, f.demo \/ f.run \in {x.id : x \in DummyRuns(r)},
                        NEW x \in Left(r).runs, x.id = f.run PROVE FALSE
      BY <1>1, LeftIs, DummyIs
    <3>1. x \in r.runs /\ x \notin DummyRuns(r)
      BY <1>1, LeftIs, DummyIs
    <3>2. ~f.demo
      BY <3>1 DEF DummyRuns
    <3>3. PICK y \in DummyRuns(r) : y.id = x.id
      BY <3>2
    <3>4. y \in r.runs
      BY <3>3 DEF DummyRuns
    <3> QED
      BY <3>1, <3>3, <3>4 DEF ResultsStored
  <2>6. \A f \in Left(r).findings \union Left(r).advice : ~f.demo /\ \E x \in Left(r).runs : x.id = f.run /\ ~x.mock
    <3> SUFFICES ASSUME NEW f \in r.findings \union r.advice, ~f.demo, f.run \notin {x.id : x \in DummyRuns(r)}
                 PROVE  \E x \in Left(r).runs : x.id = f.run /\ ~x.mock
      BY <1>1, LeftIs, DummyIs
    <3>1. PICK x \in r.runs : x.id = f.run
      BY DEF ResultsStored
    <3>2. x \notin DummyRuns(r)
      BY <3>1
    <3>3. ~x.mock
      BY <3>2 DEF DummyRuns
    <3> QED
      BY <1>1, <3>1, <3>2, <3>3, LeftIs, DummyIs
  <2> QED
    BY <2>1, <2>3, <2>4, <2>5, <2>6
<1> QED
  BY <1>3, <1>4 DEF CleanupExact
Untasked(d) == {IF e.task \in DOMAIN d.tasks \ DEMO_TASKS THEN [e EXCEPT !.task = Null] ELSE e : e \in d.events}
LEMMA ForgetTasksIs ==
  ASSUME NEW d, Whole(d)
  PROVE  /\ Keeps(d, ForgetTasks(d), {"tasks", "events"})
         /\ ForgetTasks(d).tasks = Restrict(d.tasks, DOMAIN d.tasks \intersect DEMO_TASKS)
         /\ ForgetTasks(d).events = Untasked(d)
  BY DEF ForgetTasks, Keeps, Whole, Tables, Untasked
\* The catalogue's incidents as the seed puts them back, and as the demonstration's work leaves them.
PutBack == [id \in Ids(INCIDENTS) |-> SeedIncident(TheRow(INCIDENTS, id))]
IncidentAt(status, acked, started, resolved, code) ==
  [status |-> status, acked |-> acked, started |-> started, resolved |-> resolved, code |-> code]
Acknowledged1836 == IncidentAt("investigating", 0, Null, FALSE, Null)
Resolved1834     == IncidentAt("resolved", Null, Null, TRUE, "monitoring_completed")
Resolved1837     == IncidentAt("resolved", Null, Null, TRUE, "false_alarm")
Responding1842   == IncidentAt("investigating", Null, -2, FALSE, Null)
WorkedOn == [id \in Ids(INCIDENTS) |->
  CASE id = "INC-1836" -> Acknowledged1836 [] id = "INC-1834" -> Resolved1834
    [] id = "INC-1837" -> Resolved1837 [] id = "INC-1842" -> Responding1842 [] OTHER -> PutBack[id]]
OpsEvent(incident, id, task) == [incident |-> incident, id |-> id, task |-> task]
OPS_EVENTS == {OpsEvent("INC-1836", "ops-ack", Null), OpsEvent("INC-1834", "ops-resolved", Null),
               OpsEvent("INC-1837", "ops-false", Null), OpsEvent("INC-1842", "ops-response", Null),
               OpsEvent("INC-1842", "ops-task-1", "TASK-000001"), OpsEvent("INC-1842", "ops-task-2", "TASK-000002")}

LEMMA PutBackIs ==
  /\ {"INC-1836", "INC-1834", "INC-1837", "INC-1842"} \subseteq Ids(INCIDENTS)
  /\ PutBack["INC-1836"] = IncidentAt("investigating", Null, Null, FALSE, Null)
  /\ PutBack["INC-1834"] = IncidentAt("resolved", Null, Null, TRUE, "other")
  /\ PutBack["INC-1837"] = IncidentAt("resolved", Null, Null, TRUE, "false_alarm")
  /\ PutBack["INC-1842"] = IncidentAt("investigating", Null, Null, FALSE, Null)
<1> DEFINE a == <<"INC-1842", "CRN", "CRN-TRUNK-4.2", "SNS-CRN-014", "VLV-CRN-014", "investigating">>
           b == <<"INC-1836", "CAS", "CAS-RING-B", "SNS-CAS-031", "VLV-CAS-031", "investigating">>
           c == <<"INC-1837", "RUH", "RUH-IND-2", "SNS-RUH-078", "VLV-RUH-078", "resolved">>
           d == <<"INC-1834", "AMM", "AMM-ABDALI", "SNS-AMM-015", "VLV-AMM-015", "resolved">>
<1>1. a \in INCIDENTS /\ b \in INCIDENTS /\ c \in INCIDENTS /\ d \in INCIDENTS
  BY DEF INCIDENTS
<1>2. /\ TheRow(INCIDENTS, "INC-1842") = a /\ TheRow(INCIDENTS, "INC-1836") = b
      /\ TheRow(INCIDENTS, "INC-1837") = c /\ TheRow(INCIDENTS, "INC-1834") = d
  BY <1>1, IncidentRow, a[1] = "INC-1842", b[1] = "INC-1836", c[1] = "INC-1837", d[1] = "INC-1834"
<1>3. {"INC-1836", "INC-1834", "INC-1837", "INC-1842"} \subseteq Ids(INCIDENTS)
  BY <1>1 DEF Ids
<1>4. \A n \in {"INC-1836", "INC-1834", "INC-1837", "INC-1842"} : PutBack[n] = SeedIncident(TheRow(INCIDENTS, n))
  BY <1>3 DEF PutBack
<1>5. SeedIncident(b) = IncidentAt("investigating", Null, Null, FALSE, Null)
  BY DEF SeedIncident, IncidentAt
<1>6. SeedIncident(d) = IncidentAt("resolved", Null, Null, TRUE, "other")
  BY DEF SeedIncident, IncidentAt
<1>7. SeedIncident(c) = IncidentAt("resolved", Null, Null, TRUE, "false_alarm")
  BY DEF SeedIncident, IncidentAt
<1>8. SeedIncident(a) = IncidentAt("investigating", Null, Null, FALSE, Null)
  BY DEF SeedIncident, IncidentAt
<1> QED
  BY <1>2, <1>3, <1>4, <1>5, <1>6, <1>7, <1>8

\* One incident's row changes.
Becomes(incidents, n, row) == [m \in DOMAIN incidents |-> IF m = n THEN row ELSE incidents[m]]
IncidentSet(status, acked, started, resolved, code) ==
  [status : {status}, acked : {acked}, started : {started}, resolved : {resolved}, code : {code}]

LEMMA RowAt == ASSUME NEW status, NEW acked, NEW started, NEW resolved, NEW code
               PROVE  /\ IncidentAt(status, acked, started, resolved, code) \in IncidentSet(status, acked, started, resolved, code)
                      /\ \A row \in IncidentSet(status, acked, started, resolved, code) :
                            row = IncidentAt(status, acked, started, resolved, code)
<1>1. IncidentAt(status, acked, started, resolved, code) \in IncidentSet(status, acked, started, resolved, code)
  BY DEF IncidentSet, IncidentAt
<1>2. ASSUME NEW row \in IncidentSet(status, acked, started, resolved, code)
      PROVE  row = IncidentAt(status, acked, started, resolved, code)
  BY DEF IncidentSet, IncidentAt
<1> QED
  BY <1>1, <1>2

LEMMA AcknowledgedRow ==
  ASSUME NEW status, NEW acked, NEW resolved, NEW code
  PROVE  Acknowledged(IncidentAt(status, acked, Null, resolved, code)) = IncidentAt("investigating", 0, Null, resolved, code)
<1> DEFINE row == IncidentAt(status, acked, Null, resolved, code)
<1>1. row \in IncidentSet(status, acked, Null, resolved, code)
  BY RowAt
<1> HIDE DEF row
<1>2. Acknowledged(row) \in IncidentSet("investigating", 0, Null, resolved, code)
  BY <1>1 DEF Acknowledged, IncidentSet
<1>3. Acknowledged(row) = IncidentAt("investigating", 0, Null, resolved, code)
  BY <1>2, RowAt
<1> QED
  BY <1>3 DEF row
ResolvedAs(row, resolved, code) == [row EXCEPT !.resolved = resolved, !.code = code]
LEMMA ResolvedRow ==
  ASSUME NEW status, NEW acked, NEW resolved, NEW code, NEW c, NEW yes
  PROVE  ResolvedAs(IncidentAt(status, acked, Null, resolved, code), yes, c) = IncidentAt(status, acked, Null, yes, c)
<1> DEFINE row == IncidentAt(status, acked, Null, resolved, code)
<1>1. row \in IncidentSet(status, acked, Null, resolved, code)
  BY RowAt
<1> HIDE DEF row
<1>2. ResolvedAs(row, yes, c) \in IncidentSet(status, acked, Null, yes, c)
  BY <1>1 DEF ResolvedAs, IncidentSet
<1>3. ResolvedAs(row, yes, c) = IncidentAt(status, acked, Null, yes, c)
  BY <1>2, RowAt
<1> QED
  BY <1>3 DEF row

LEMMA RespondingRow ==
  ASSUME NEW status, NEW acked, NEW resolved, NEW code
  PROVE  Responding(IncidentAt(status, acked, Null, resolved, code)) = IncidentAt("investigating", acked, -2, resolved, code)
<1> DEFINE row == IncidentAt(status, acked, Null, resolved, code)
<1>1. row \in IncidentSet(status, acked, Null, resolved, code)
  BY RowAt
<1> HIDE DEF row
<1>2. Responding(row) \in IncidentSet("investigating", acked, -2, resolved, code)
  BY <1>1 DEF Responding, IncidentSet
<1>3. Responding(row) = IncidentAt("investigating", acked, -2, resolved, code)
  BY <1>2, RowAt
<1> QED
  BY <1>3 DEF row

LEMMA FourRows ==
  /\ Acknowledged(IncidentAt("investigating", Null, Null, FALSE, Null)) = Acknowledged1836
  /\ Resolved(IncidentAt("resolved", Null, Null, TRUE, "other"), "monitoring_completed") = Resolved1834
  /\ Resolved(IncidentAt("resolved", Null, Null, TRUE, "false_alarm"), "false_alarm") = Resolved1837
  /\ Responding(IncidentAt("investigating", Null, Null, FALSE, Null)) = Responding1842
<1> DEFINE no == FALSE
           yes == TRUE
<1> HIDE DEF no, yes
<1>1. Acknowledged(IncidentAt("investigating", Null, Null, no, Null)) = IncidentAt("investigating", 0, Null, no, Null)
  BY AcknowledgedRow
<1>2. ResolvedAs(IncidentAt("resolved", Null, Null, yes, "other"), yes, "monitoring_completed")
      = IncidentAt("resolved", Null, Null, yes, "monitoring_completed")
  BY ResolvedRow
<1>3. ResolvedAs(IncidentAt("resolved", Null, Null, yes, "false_alarm"), yes, "false_alarm")
      = IncidentAt("resolved", Null, Null, yes, "false_alarm")
  BY ResolvedRow
<1>4. Responding(IncidentAt("investigating", Null, Null, no, Null)) = IncidentAt("investigating", Null, -2, no, Null)
  BY RespondingRow
<1> QED
  BY <1>1, <1>2, <1>3, <1>4, Zenon DEF no, yes, Resolved, ResolvedAs, Acknowledged1836, Resolved1834, Resolved1837, Responding1842

LEMMA AcknowledgeIs ==
  ASSUME NEW d, Whole(d), "INC-1836" \in DOMAIN d.incidents, d.incidents["INC-1836"].acked = Null
  PROVE  /\ Keeps(d, Acknowledge1836(d), {"incidents", "events"})
         /\ Acknowledge1836(d).incidents = Becomes(d.incidents, "INC-1836", Acknowledged(d.incidents["INC-1836"]))
         /\ Acknowledge1836(d).events = AddEvent(d.events, "INC-1836", "ops-ack", Null)
<1>1. Keeps(d, Acknowledge1836(d), {"incidents", "events"})
  BY DEF Acknowledge1836, Keeps, Whole, Tables, Becomes
<1>2. Acknowledge1836(d).incidents = Becomes(d.incidents, "INC-1836", Acknowledged(d.incidents["INC-1836"]))
  BY DEF Acknowledge1836, Keeps, Whole, Tables, Becomes
<1>3. Acknowledge1836(d).events = AddEvent(d.events, "INC-1836", "ops-ack", Null)
  BY DEF Acknowledge1836, Keeps, Whole, Tables, Becomes
<1> QED
  BY <1>1, <1>2, <1>3

LEMMA ResolveIs ==
  ASSUME NEW d, Whole(d), NEW n \in DOMAIN d.incidents, NEW code, NEW event, d.incidents[n].status = "resolved"
  PROVE  /\ Keeps(d, Resolve(d, n, code, event), {"incidents", "events"})
         /\ Resolve(d, n, code, event).incidents = Becomes(d.incidents, n, Resolved(d.incidents[n], code))
         /\ Resolve(d, n, code, event).events = AddEvent(d.events, n, event, Null)
<1>1. Keeps(d, Resolve(d, n, code, event), {"incidents", "events"})
  BY DEF Resolve, Keeps, Whole, Tables, Becomes
<1>2. Resolve(d, n, code, event).incidents = Becomes(d.incidents, n, Resolved(d.incidents[n], code))
  BY DEF Resolve, Keeps, Whole, Tables, Becomes
<1>3. Resolve(d, n, code, event).events = AddEvent(d.events, n, event, Null)
  BY DEF Resolve, Keeps, Whole, Tables, Becomes
<1> QED
  BY <1>1, <1>2, <1>3

LEMMA RespondIs ==
  ASSUME NEW d, Whole(d), "INC-1842" \in DOMAIN d.incidents
  PROVE  /\ Keeps(d, Respond1842(d), {"incidents", "events", "tasks"})
         /\ Respond1842(d).incidents = Becomes(d.incidents, "INC-1842", Responding(d.incidents["INC-1842"]))
         /\ Respond1842(d).tasks = Put(d.tasks, [t \in DEMO_TASKS |-> DemoTask(t)])
         /\ Respond1842(d).events = AddEvent(AddEvent(AddEvent(d.events, "INC-1842", "ops-response", Null),
                                     "INC-1842", "ops-task-1", "TASK-000001"), "INC-1842", "ops-task-2", "TASK-000002")
<1>1. Keeps(d, Respond1842(d), {"incidents", "events", "tasks"})
  BY DEF Respond1842, Keeps, Whole, Tables, Becomes
<1>2. Respond1842(d).incidents = Becomes(d.incidents, "INC-1842", Responding(d.incidents["INC-1842"]))
  BY DEF Respond1842, Keeps, Whole, Tables, Becomes
<1>3. Respond1842(d).tasks = Put(d.tasks, [t \in DEMO_TASKS |-> DemoTask(t)])
  BY DEF Respond1842, Keeps, Whole, Tables, Becomes
<1>4. Respond1842(d).events = AddEvent(AddEvent(AddEvent(d.events, "INC-1842", "ops-response", Null),
        "INC-1842", "ops-task-1", "TASK-000001"), "INC-1842", "ops-task-2", "TASK-000002")
  BY DEF Respond1842, Keeps, Whole, Tables, Becomes
<1> QED
  BY <1>1, <1>2, <1>3, <1>4

\* An event that is not there yet is added.
LEMMA EventAdded == ASSUME NEW events, NEW n, NEW id, NEW task, \A e \in events : e.incident = n => e.id # id
                    PROVE  AddEvent(events, n, id, task) = events \union {OpsEvent(n, id, task)}
  BY DEF AddEvent, OpsEvent

LEMMA SeedOperationsIs ==
  ASSUME NEW d, Whole(d), NEW x, d.incidents = Put(x, PutBack), \A e \in d.events : e = OpsEvent(e.incident, e.id, e.task),
         \A e \in d.events : e.incident \in Ids(INCIDENTS) => e.id = "timeline"
  PROVE  /\ Keeps(d, SeedOperations(d), {"incidents", "tasks", "events"})
         /\ SeedOperations(d).incidents = Put(x, WorkedOn)
         /\ SeedOperations(d).tasks = [t \in DEMO_TASKS |-> DemoTask(t)]
         /\ SeedOperations(d).events = Untasked(d) \union OPS_EVENTS
<1> DEFINE d1 == ForgetTasks(d)
           d2 == Acknowledge1836(d1)
           d3 == Resolve(d2, "INC-1834", "monitoring_completed", "ops-resolved")
           d4 == Resolve(d3, "INC-1837", "false_alarm", "ops-false")
           d5 == Respond1842(d4)
           N == {"INC-1836", "INC-1834", "INC-1837", "INC-1842"}
           f == Put(x, PutBack)
           E0 == Untasked(d)
           E2 == E0 \union {OpsEvent("INC-1836", "ops-ack", Null)}
           E3 == E2 \union {OpsEvent("INC-1834", "ops-resolved", Null)}
           E4 == E3 \union {OpsEvent("INC-1837", "ops-false", Null)}
           E5 == E4 \union {OpsEvent("INC-1842", "ops-response", Null)}
           E6 == E5 \union {OpsEvent("INC-1842", "ops-task-1", "TASK-000001")}
           E7 == E6 \union {OpsEvent("INC-1842", "ops-task-2", "TASK-000002")}
<1>1. /\ Whole(d1) /\ d1.incidents = f /\ d1.events = E0 /\ \A t \in Tables \ {"tasks", "events"} : d1[t] = d[t]
      /\ d1.tasks = Restrict(d.tasks, DOMAIN d.tasks \intersect DEMO_TASKS)
  BY ForgetTasksIs DEF Keeps, Tables
<1>2. /\ AddEvent(E0, "INC-1836", "ops-ack", Null) = E2 /\ AddEvent(E2, "INC-1834", "ops-resolved", Null) = E3
      /\ AddEvent(E3, "INC-1837", "ops-false", Null) = E4 /\ AddEvent(E4, "INC-1842", "ops-response", Null) = E5
      /\ AddEvent(E5, "INC-1842", "ops-task-1", "TASK-000001") = E6
      /\ AddEvent(E6, "INC-1842", "ops-task-2", "TASK-000002") = E7
  <2>1. \A e \in E0 : e.incident \in N => e.id = "timeline"
    <3>1. \A e \in E0 : e.incident \in Ids(INCIDENTS) => e.id = "timeline"
      BY DEF Untasked, OpsEvent
    <3> QED
      BY <3>1, PutBackIs
  <2> HIDE DEF E0
  <2>2. AddEvent(E0, "INC-1836", "ops-ack", Null) = E2
    BY <2>1, EventAdded
  <2>3. AddEvent(E2, "INC-1834", "ops-resolved", Null) = E3
    BY <2>1, EventAdded DEF OpsEvent
  <2>4. AddEvent(E3, "INC-1837", "ops-false", Null) = E4
    BY <2>1, EventAdded DEF OpsEvent
  <2>5. AddEvent(E4, "INC-1842", "ops-response", Null) = E5
    BY <2>1, EventAdded DEF OpsEvent
  <2>6. AddEvent(E5, "INC-1842", "ops-task-1", "TASK-000001") = E6
    BY <2>1, EventAdded DEF OpsEvent
  <2>7. AddEvent(E6, "INC-1842", "ops-task-2", "TASK-000002") = E7
    BY <2>1, EventAdded DEF OpsEvent
  <2> QED
    BY <2>2, <2>3, <2>4, <2>5, <2>6, <2>7
<1>3. N \subseteq DOMAIN f /\ \A n \in N : f[n] = PutBack[n]
  <2>1. DOMAIN PutBack = Ids(INCIDENTS)
    BY DEF PutBack
  <2> QED
    BY <2>1, PutBackIs DEF Put
<1> HIDE DEF d1, d2, d3, d4, f, E0, E2, E3, E4, E5, E6, E7
<1> DEFINE g2 == Becomes(f, "INC-1836", Acknowledged1836)
           g3 == Becomes(g2, "INC-1834", Resolved1834)
           g4 == Becomes(g3, "INC-1837", Resolved1837)
           g5 == Becomes(g4, "INC-1842", Responding1842)
<1>4. /\ N \subseteq DOMAIN g2 /\ N \subseteq DOMAIN g3 /\ N \subseteq DOMAIN g4
      /\ g2["INC-1834"] = f["INC-1834"] /\ g3["INC-1837"] = f["INC-1837"] /\ g4["INC-1842"] = f["INC-1842"]
  BY <1>3 DEF Becomes
<1>5. g5 = [m \in DOMAIN f |-> CASE m = "INC-1836" -> Acknowledged1836 [] m = "INC-1834" -> Resolved1834
              [] m = "INC-1837" -> Resolved1837 [] m = "INC-1842" -> Responding1842 [] OTHER -> f[m]]
  BY DEF Becomes
<1> HIDE DEF g2, g3, g4, g5
<1>6. /\ Keeps(d1, d2, {"incidents", "events"}) /\ d2.incidents = g2 /\ d2.events = E2
  <2>1. "INC-1836" \in DOMAIN d1.incidents /\ d1.incidents["INC-1836"] = IncidentAt("investigating", Null, Null, FALSE, Null)
    BY <1>1, <1>3, PutBackIs
  <2>2. d1.incidents["INC-1836"].acked = Null
    BY <2>1 DEF IncidentAt
  <2>3. Acknowledged(d1.incidents["INC-1836"]) = Acknowledged1836
    BY <2>1, FourRows
  <2> QED
    BY <1>1, <1>2, <2>1, <2>2, <2>3, AcknowledgeIs DEF d2, g2
<1>7. /\ Keeps(d2, d3, {"incidents", "events"}) /\ d3.incidents = g3 /\ d3.events = E3
  <2>1. /\ "INC-1834" \in DOMAIN d2.incidents
        /\ d2.incidents["INC-1834"] = IncidentAt("resolved", Null, Null, TRUE, "other")
    BY <1>3, <1>4, <1>6, PutBackIs
  <2>2. "INC-1834" \in DOMAIN d2.incidents /\ d2.incidents["INC-1834"].status = "resolved" /\ Whole(d2)
    BY <1>6, <2>1 DEF IncidentAt, Keeps
  <2>3. Resolved(d2.incidents["INC-1834"], "monitoring_completed") = Resolved1834
    BY <2>1, FourRows
  <2>4. Keeps(d2, d3, {"incidents", "events"})
    BY <2>2, ResolveIs DEF d3
  <2>5. d3.incidents = Becomes(d2.incidents, "INC-1834", Resolved(d2.incidents["INC-1834"], "monitoring_completed"))
    BY <2>2, ResolveIs DEF d3
  <2>6. d3.events = AddEvent(d2.events, "INC-1834", "ops-resolved", Null)
    BY <2>2, ResolveIs DEF d3
  <2> QED
    BY <1>2, <1>6, <2>3, <2>4, <2>5, <2>6 DEF g3
<1>8. /\ Keeps(d3, d4, {"incidents", "events"}) /\ d4.incidents = g4 /\ d4.events = E4
  <2>1. /\ "INC-1837" \in DOMAIN d3.incidents
        /\ d3.incidents["INC-1837"] = IncidentAt("resolved", Null, Null, TRUE, "false_alarm")
    BY <1>3, <1>4, <1>7, PutBackIs
  <2>2. "INC-1837" \in DOMAIN d3.incidents /\ d3.incidents["INC-1837"].status = "resolved" /\ Whole(d3)
    BY <1>7, <2>1 DEF IncidentAt, Keeps
  <2>3. Resolved(d3.incidents["INC-1837"], "false_alarm") = Resolved1837
    BY <2>1, FourRows
  <2>4. Keeps(d3, d4, {"incidents", "events"})
    BY <2>2, ResolveIs DEF d4
  <2>5. d4.incidents = Becomes(d3.incidents, "INC-1837", Resolved(d3.incidents["INC-1837"], "false_alarm"))
    BY <2>2, ResolveIs DEF d4
  <2>6. d4.events = AddEvent(d3.events, "INC-1837", "ops-false", Null)
    BY <2>2, ResolveIs DEF d4
  <2> QED
    BY <1>2, <1>7, <2>3, <2>4, <2>5, <2>6 DEF g4
<1>9. /\ Keeps(d4, d5, {"incidents", "events", "tasks"}) /\ d5.incidents = g5 /\ d5.events = E7
      /\ d5.tasks = Put(d4.tasks, [t \in DEMO_TASKS |-> DemoTask(t)])
  <2>1. /\ Whole(d4) /\ "INC-1842" \in DOMAIN d4.incidents
        /\ d4.incidents["INC-1842"] = IncidentAt("investigating", Null, Null, FALSE, Null)
    BY <1>3, <1>4, <1>8, PutBackIs DEF Keeps
  <2>2. Responding(d4.incidents["INC-1842"]) = Responding1842
    BY <2>1, FourRows
  <2> QED
    BY <1>2, <1>8, <2>1, <2>2, RespondIs DEF d5, g5
<1>10. d5.incidents = Put(x, WorkedOn)
  <2>1. DOMAIN PutBack = Ids(INCIDENTS) /\ DOMAIN WorkedOn = Ids(INCIDENTS)
    BY DEF PutBack, WorkedOn
  <2>2. DOMAIN f = DOMAIN x \union Ids(INCIDENTS)
        /\ \A m \in DOMAIN f : f[m] = IF m \in Ids(INCIDENTS) THEN PutBack[m] ELSE x[m]
    BY <2>1 DEF f, Put
  <2>3. N \subseteq Ids(INCIDENTS)
    BY PutBackIs
  <2>4. Put(x, WorkedOn) = [m \in DOMAIN f |-> IF m \in Ids(INCIDENTS) THEN WorkedOn[m] ELSE x[m]]
    BY <2>1, <2>2 DEF Put
  <2>5. ASSUME NEW m \in DOMAIN f PROVE g5[m] = IF m \in Ids(INCIDENTS) THEN WorkedOn[m] ELSE x[m]
    BY <1>5, <2>2, <2>3 DEF WorkedOn
  <2> QED
    BY <1>5, <1>9, <2>4, <2>5
<1>11. d5.tasks = [t \in DEMO_TASKS |-> DemoTask(t)]
  <2>1. d4.tasks = Restrict(d.tasks, DOMAIN d.tasks \intersect DEMO_TASKS)
    BY <1>1, <1>6, <1>7, <1>8 DEF Tables, Keeps
  <2>2. DOMAIN d4.tasks \subseteq DEMO_TASKS
    BY <2>1 DEF Restrict
  <2> QED
    BY <1>9, <2>2 DEF Put
<1>12. \A t \in Tables \ {"incidents", "tasks", "events"} : d5[t] = d[t]
  BY <1>1, <1>6, <1>7, <1>8, <1>9 DEF Keeps
<1>13. E7 = E0 \union OPS_EVENTS
  BY DEF E2, E3, E4, E5, E6, E7, OPS_EVENTS
<1>14. SeedOperations(d) = d5
  BY DEF SeedOperations, d1, d2, d3, d4
<1> QED
  BY <1>9, <1>10, <1>11, <1>12, <1>13, <1>14 DEF Keeps, E0
\* A database as the platform stores it, and the tables a seed leaves.
Stored(d) == /\ Whole(d) /\ d.error = "none" /\ ResultTables(d.results)
             /\ \A e \in d.events : e = OpsEvent(e.incident, e.id, e.task)
StatusOf == [a \in Ids(SENSORS) |-> [status |-> TheRow(SENSORS, a)[4]]]
Expected == ExpectedReadings(StatusOf)
Rows(d) == Put(d.assets, [id \in Ids(CATALOGUE) |-> SeededAsset(d.assets, id)])
Inserted(readings) == IF Cardinality({r \in readings : r.seed}) = Cardinality(Expected) THEN {} ELSE Expected
AllReadings(d) == d.readings \union Inserted(d.readings)
NewEvents(d) == {e \in d.events : e.incident \notin Ids(INCIDENTS)} \union TIMELINES
SeededEvents(d) ==
  {IF e.task \in DOMAIN d.tasks \ DEMO_TASKS THEN [e EXCEPT !.task = Null] ELSE e : e \in NewEvents(d)} \union OPS_EVENTS
SeededAgents(agents) ==
  Put(agents, [c \in {"investigation_agent", "response_agent", "network_agent"} |->
    [enabled |-> FALSE, health |-> IF c # "network_agent" /\ c \in DOMAIN agents THEN agents[c].health ELSE "disabled"]])
SeededHistory(d) == Kept(d) \union {h \in DemoHistory : \A e \in Kept(d) : e.id # h.id}
DemoTaskRows == [t \in DEMO_TASKS |-> DemoTask(t)]
Seeded(d, after) ==
  /\ Whole(after) /\ after.error = "none"
  /\ after.assets = Dated(Rows(d), AllReadings(d)) /\ after.readings = AllReadings(d)
  /\ after.incidents = Put(d.incidents, WorkedOn) /\ after.events = SeededEvents(d) /\ after.tasks = DemoTaskRows
  /\ after.review = (IF d.review = "new" THEN "under_review" ELSE d.review)
  /\ after.plans = DemoPlanRows /\ after.orders = DemoOrderRows /\ after.history = SeededHistory(d)
  /\ after.agents = SeededAgents(d.agents) /\ after.results = Left(d.results)
  /\ after.snapshots = d.snapshots \union SNAPSHOTS

LEMMA ExpectedOf == ASSUME NEW assets, \A a \in Ids(SENSORS) : assets[a].status = TheRow(SENSORS, a)[4]
                    PROVE  ExpectedReadings(assets) = Expected
<1>1. \A a \in Ids(SENSORS) : StatusOf[a].status = TheRow(SENSORS, a)[4]
  BY DEF StatusOf
<1> QED
  BY <1>1 DEF ExpectedReadings, Expected

LEMMA SeededStatus == ASSUME NEW d, NEW a \in Ids(SENSORS)
                      PROVE  Rows(d)[a].status = TheRow(SENSORS, a)[4] /\ a \in DOMAIN Rows(d) /\ Ids(CATALOGUE) \subseteq DOMAIN Rows(d)
<1>1. PICK s \in SENSORS : s[1] = a
  BY DEF Ids
<1>2. s \in CATALOGUE
  BY DEF CATALOGUE
<1>3. TheRow(SENSORS, a) = s /\ TheRow(CATALOGUE, a) = s /\ a \in Ids(CATALOGUE)
  BY <1>1, <1>2, SensorRow, AssetRow
<1>4. Rows(d)[a] = SeedAsset(d.assets, s) /\ a \in DOMAIN Rows(d) /\ Ids(CATALOGUE) \subseteq DOMAIN Rows(d)
  BY <1>3 DEF Rows, Put, SeededAsset
<1> QED
  BY <1>3, <1>4 DEF SeedAsset

LEMMA TimelineEvents == \A e \in TIMELINES : e = OpsEvent(e.incident, e.id, e.task) /\ e.id = "timeline"
  BY DEF TIMELINES, OpsEvent

LEMMA SeedDatabaseIs == ASSUME NEW d, Stored(d) PROVE Seeded(d, SeedDatabase(d))
<1> DEFINE d1 == SeedAssets(d)
           d2 == SeedIncidents(d1)
           d3 == SeedReadings(d2)
           d4 == SeedReview(d3)
           d5 == SeedOperations(d4)
           d6 == SeedAgents(d5)
           d7 == SeedMaintenance(d6)
           d8 == SeedNetworkAudit(d7)
           d9 == SeedDeviceNetwork(d8)
<1>1. Keeps(d, d1, {"assets"}) /\ d1.assets = Rows(d) /\ Ids(CATALOGUE) \subseteq DOMAIN d1.assets
  <2>1. Keeps(d, d1, {"assets"}) /\ d1.assets = Rows(d)
    BY SeedAssetsIs DEF Stored, Rows
  <2> QED
    BY <2>1 DEF Rows, Put
<1> HIDE DEF d1
<1>2. Keeps(d1, d2, {"incidents", "events"}) /\ d2.incidents = Put(d.incidents, PutBack) /\ d2.events = NewEvents(d)
  <2>1. Keeps(d1, d2, {"incidents", "events"}) /\ d2.incidents = Put(d1.incidents, PutBack)
        /\ d2.events = {e \in d1.events : e.incident \notin Ids(INCIDENTS)} \union TIMELINES
    BY <1>1, SeedIncidentsIs DEF Keeps, PutBack
  <2>2. d1.incidents = d.incidents /\ d1.events = d.events
    BY <1>1 DEF Keeps, Tables
  <2> QED
    BY <2>1, <2>2 DEF NewEvents
<1> HIDE DEF d2
<1>3. Keeps(d2, d3, {"readings", "assets"}) /\ d3.readings = AllReadings(d) /\ d3.assets = Dated(Rows(d), AllReadings(d))
  <2>1. d2.assets = Rows(d) /\ d2.readings = d.readings
    BY <1>1, <1>2 DEF Keeps, Tables
  <2>2. ExpectedReadings(d2.assets) = Expected
    BY <2>1, ExpectedOf, SeededStatus
  <2>3. ReadingsToInsert(d2) = Inserted(d.readings)
    BY <2>1, <2>2 DEF ReadingsToInsert, Inserted
  <2> QED
    BY <1>2, <2>1, <2>3, SeedReadingsIs DEF Keeps, AllReadings
<1> HIDE DEF d3
<1>4. Keeps(d3, d4, {"review"}) /\ d4.review = (IF d.review = "new" THEN "under_review" ELSE d.review)
  <2>1. d3.review = d.review
    BY <1>1, <1>2, <1>3 DEF Keeps, Tables
  <2> QED
    BY <1>3, <2>1, SeedReviewIs DEF Keeps
<1> HIDE DEF d4
<1>5. Keeps(d4, d5, {"incidents", "tasks", "events"}) /\ d5.incidents = Put(d.incidents, WorkedOn)
      /\ d5.tasks = DemoTaskRows /\ d5.events = SeededEvents(d)
  <2>1. d4.incidents = Put(d.incidents, PutBack) /\ d4.events = NewEvents(d) /\ d4.tasks = d.tasks /\ Whole(d4)
    BY <1>1, <1>2, <1>3, <1>4 DEF Keeps, Tables
  <2>2. /\ \A e \in NewEvents(d) : e = OpsEvent(e.incident, e.id, e.task)
        /\ \A e \in NewEvents(d) : e.incident \in Ids(INCIDENTS) => e.id = "timeline"
    BY TimelineEvents DEF NewEvents, Stored
  <2>3. Keeps(d4, d5, {"incidents", "tasks", "events"}) /\ d5.incidents = Put(d.incidents, WorkedOn)
        /\ d5.tasks = [t \in DEMO_TASKS |-> DemoTask(t)] /\ d5.events = Untasked(d4) \union OPS_EVENTS
    BY <2>1, <2>2, SeedOperationsIs
  <2> QED
    BY <2>1, <2>3 DEF DemoTaskRows, Untasked, SeededEvents
<1> HIDE DEF d5
<1>6. Keeps(d5, d6, {"agents"}) /\ d6.agents = SeededAgents(d.agents)
  <2>1. d5.agents = d.agents
    BY <1>1, <1>2, <1>3, <1>4, <1>5 DEF Keeps, Tables
  <2> QED
    BY <1>5, <2>1, SeedAgentsIs DEF Keeps, SeededAgents
<1> HIDE DEF d6
<1>7. Keeps(d6, d7, {"plans", "orders", "history"}) /\ d7.plans = DemoPlanRows /\ d7.orders = DemoOrderRows
      /\ d7.history = SeededHistory(d)
  <2>1. d6.history = d.history /\ d6.assets = Dated(Rows(d), AllReadings(d)) /\ Whole(d6)
    BY <1>1, <1>2, <1>3, <1>4, <1>5, <1>6 DEF Keeps, Tables
  <2>2. Ids(CATALOGUE) \subseteq DOMAIN d6.assets
    BY <1>1, <2>1 DEF Dated
  <2>3. Keeps(d6, d7, {"plans", "orders", "history"}) /\ d7.plans = DemoPlanRows /\ d7.orders = DemoOrderRows
        /\ d7.history = Kept(d6) \union {h \in DemoHistory : \A e \in Kept(d6) : e.id # h.id}
    BY <2>1, <2>2, SeedMaintenanceIs
  <2>4. Kept(d6) = Kept(d)
    BY <2>1 DEF Kept
  <2> QED
    BY <2>3, <2>4 DEF SeededHistory
<1> HIDE DEF d7
<1>8. Keeps(d7, d8, {"results"}) /\ d8.results = Left(d.results)
  <2>1. d7.results = d.results /\ Whole(d7)
    BY <1>1, <1>2, <1>3, <1>4, <1>5, <1>6, <1>7 DEF Keeps, Tables
  <2> QED
    BY <2>1, SeedNetworkAuditIs DEF Stored
<1> HIDE DEF d8
<1>9. Keeps(d8, d9, {"snapshots"}) /\ d9.snapshots = d.snapshots \union SNAPSHOTS
  <2>1. d8.snapshots = d.snapshots /\ d8.assets = Dated(Rows(d), AllReadings(d)) /\ Whole(d8)
    BY <1>1, <1>2, <1>3, <1>4, <1>5, <1>6, <1>7, <1>8 DEF Keeps, Tables
  <2>2. Ids(CATALOGUE) \subseteq DOMAIN d8.assets
    BY <1>1, <2>1 DEF Dated
  <2> QED
    BY <2>1, <2>2, SeedDeviceNetworkIs
<1> HIDE DEF d9
<1>10. d1.error = "none" /\ d2.error = "none" /\ d5.error = "none" /\ d7.error = "none" /\ d8.error = "none" /\ d9.error = "none"
  BY <1>1, <1>2, <1>3, <1>4, <1>5, <1>6, <1>7, <1>8, <1>9 DEF Keeps, Tables, Stored
<1>11. SeedDatabase(d) = d9
  <2>1. ThenIncidents(d1) = d2
    BY <1>10 DEF ThenIncidents, Unless, Failed, d2
  <2>2. ThenOperations(d2) = d5
    BY <1>10 DEF ThenOperations, Unless, Failed, d3, d4, d5
  <2>3. ThenMaintenance(d5) = d7
    BY <1>10 DEF ThenMaintenance, Unless, Failed, d6, d7
  <2>4. ThenAudit(d7) = d8
    BY <1>10 DEF ThenAudit, Unless, Failed, d8
  <2>5. ThenNetwork(d8) = d9
    BY <1>10 DEF ThenNetwork, Unless, Failed, d9
  <2>6. ~Failed(d9)
    BY <1>10 DEF Failed
  <2> QED
    BY <2>1, <2>2, <2>3, <2>4, <2>5, <2>6 DEF SeedDatabase, d1
<1>12. /\ Whole(d9) /\ d9.assets = Dated(Rows(d), AllReadings(d)) /\ d9.readings = AllReadings(d)
       /\ d9.incidents = Put(d.incidents, WorkedOn) /\ d9.events = SeededEvents(d) /\ d9.tasks = DemoTaskRows
  BY <1>3, <1>4, <1>5, <1>6, <1>7, <1>8, <1>9 DEF Keeps, Tables
<1>13. d9.review = IF d.review = "new" THEN "under_review" ELSE d.review
  BY <1>4, <1>5, <1>6, <1>7, <1>8, <1>9 DEF Keeps, Tables
<1>14. /\ d9.plans = DemoPlanRows /\ d9.orders = DemoOrderRows /\ d9.history = SeededHistory(d)
       /\ d9.agents = SeededAgents(d.agents) /\ d9.results = Left(d.results)
  BY <1>6, <1>7, <1>8, <1>9 DEF Keeps, Tables
<1> QED
  BY <1>9, <1>10, <1>11, <1>12, <1>13, <1>14 DEF Seeded

\* A seeded asset's row is the one a second seed writes.
LEMMA SeededTwice ==
  ASSUME NEW assets, NEW again, NEW s \in CATALOGUE, s[1] \in DOMAIN again,
         again[s[1]].number = SeedAsset(assets, s).number, again[s[1]].demo = SeedAsset(assets, s).demo
  PROVE  SeedAsset(again, s) = SeedAsset(assets, s)
<1> DEFINE n == SeedAsset(assets, s).number
           o == SeedAsset(assets, s).demo
<1>1. n = (IF KeepNumber(assets, s[1]) THEN assets[s[1]].number ELSE IF Numbered(s) THEN "catalogue" ELSE Null)
      /\ (o <=> ~KeepNumber(assets, s[1]) /\ Numbered(s))
  BY DEF SeedAsset
<1>2. KeepNumber(again, s[1]) <=> n # Null /\ ~o
  BY DEF KeepNumber
<1>3. KeepNumber(assets, s[1]) => assets[s[1]].number # Null
  BY DEF KeepNumber
<1>4. (IF KeepNumber(again, s[1]) THEN again[s[1]].number ELSE IF Numbered(s) THEN "catalogue" ELSE Null) = n
  BY <1>1, <1>2, <1>3
<1>5. (~KeepNumber(again, s[1]) /\ Numbered(s)) <=> (~KeepNumber(assets, s[1]) /\ Numbered(s))
  BY <1>1, <1>2, <1>3
<1>6. (~KeepNumber(again, s[1]) /\ Numbered(s)) = (~KeepNumber(assets, s[1]) /\ Numbered(s))
  BY <1>5
<1> QED
  BY <1>1, <1>4, <1>6 DEF SeedAsset

\* Dating an asset changes nothing else of it.
LEMMA DatedRow == ASSUME NEW assets, NEW all, NEW a \in DOMAIN assets, NEW f \in DOMAIN assets[a], f # "seen"
                  PROVE  Dated(assets, all)[a][f] = assets[a][f]
<1>1. ASSUME NEW row, NEW m, f \in DOMAIN row PROVE [row EXCEPT !.seen = m][f] = row[f]
  BY <1>1
<1>2. \/ Dated(assets, all)[a] = assets[a]
      \/ Dated(assets, all)[a] = [assets[a] EXCEPT !.seen = Max({r.at : r \in {x \in all : x.sensor = a}})]
  BY DEF Dated
<1> QED
  BY <1>1, <1>2

LEMMA SeededRow ==
  ASSUME NEW d, NEW after, Seeded(d, after), NEW s \in CATALOGUE
  PROVE  /\ s[1] \in DOMAIN after.assets /\ Rows(d)[s[1]] = SeedAsset(d.assets, s)
         /\ after.assets[s[1]].number = SeedAsset(d.assets, s).number /\ after.assets[s[1]].demo = SeedAsset(d.assets, s).demo
         /\ after.assets[s[1]].status = s[4]
<1>1. s[1] \in DOMAIN Rows(d) /\ Rows(d)[s[1]] = SeedAsset(d.assets, s)
  BY AssetRow DEF Rows, Put, SeededAsset
<1>2. after.assets = Dated(Rows(d), AllReadings(d))
  BY DEF Seeded
<1>3. DOMAIN after.assets = DOMAIN Rows(d)
  BY <1>2 DEF Dated
<1>4. SeedAsset(d.assets, s).status = s[4] /\ {"number", "demo", "status"} \subseteq DOMAIN SeedAsset(d.assets, s)
  BY DEF SeedAsset
<1>5. ASSUME NEW f \in {"number", "demo", "status"} PROVE after.assets[s[1]][f] = SeedAsset(d.assets, s)[f]
  BY <1>1, <1>2, <1>4, DatedRow
<1> QED
  BY <1>1, <1>3, <1>4, <1>5

LEMMA DatedAgain == ASSUME NEW assets, NEW all PROVE Dated(Dated(assets, all), all) = Dated(assets, all)
<1> DEFINE m(a) == Max({r.at : r \in {x \in all : x.sensor = a}})
<1>1. ASSUME NEW row, NEW t PROVE [[row EXCEPT !.seen = t] EXCEPT !.seen = t] = [row EXCEPT !.seen = t]
  OBVIOUS
<1> QED
  BY <1>1 DEF Dated

LEMMA AssetsAgain ==
  ASSUME NEW d, NEW after, Seeded(d, after) PROVE Dated(Rows(after), AllReadings(d)) = after.assets
<1> DEFINE all == AllReadings(d)
           A == after.assets
<1>1. A = Dated(Rows(d), all) /\ DOMAIN A = DOMAIN Rows(d)
  BY DEF Seeded, Dated
<1>2. ASSUME NEW a \in Ids(CATALOGUE) PROVE SeededAsset(A, a) = Rows(d)[a]
  <2>1. PICK s \in CATALOGUE : s[1] = a
    BY DEF Ids
  <2>2. TheRow(CATALOGUE, a) = s
    BY <2>1, AssetRow
  <2> QED
    BY <2>1, <2>2, SeededRow, SeededTwice DEF SeededAsset
<1>3. DOMAIN Rows(after) = DOMAIN A
  BY <1>1 DEF Rows, Put
<1>4. \A a \in DOMAIN A : Rows(after)[a] = IF a \in Ids(CATALOGUE) THEN Rows(d)[a] ELSE A[a]
  BY <1>1, <1>2, <1>3 DEF Rows, Put
<1>5. ASSUME NEW a \in DOMAIN A PROVE Dated(Rows(after), all)[a] = A[a]
  <2>1. CASE a \in Ids(CATALOGUE)
    BY <1>1, <1>3, <1>4, <2>1 DEF Dated
  <2>2. CASE a \notin Ids(CATALOGUE)
    <3>1. Dated(Rows(after), all)[a] = Dated(A, all)[a]
      BY <1>3, <1>4, <2>2 DEF Dated
    <3> QED
      BY <1>1, <3>1, DatedAgain
  <2> QED
    BY <2>1, <2>2
<1>6. DOMAIN Dated(Rows(after), all) = DOMAIN A /\ Dated(Rows(after), all) = [a \in DOMAIN A |-> Dated(Rows(after), all)[a]]
      /\ A = [a \in DOMAIN A |-> A[a]]
  BY <1>1, <1>3 DEF Dated
<1> QED
  BY <1>5, <1>6

LEMMA ReadingsAgain ==
  ASSUME NEW d, NEW after, after.readings = AllReadings(d) PROVE AllReadings(after) = AllReadings(d)
  BY DEF AllReadings, Inserted
EventSet(incident, id, task) == [incident : {incident}, id : {id}, task : {task}]
LEMMA EventAt == ASSUME NEW n, NEW id, NEW task
                 PROVE  /\ OpsEvent(n, id, task) \in EventSet(n, id, task)
                        /\ \A e \in EventSet(n, id, task) : e = OpsEvent(n, id, task)
<1>1. OpsEvent(n, id, task) \in EventSet(n, id, task)
  BY DEF EventSet, OpsEvent
<1>2. ASSUME NEW e \in EventSet(n, id, task) PROVE e = OpsEvent(n, id, task)
  BY DEF EventSet, OpsEvent
<1> QED
  BY <1>1, <1>2
\* An event whose task is forgotten.
Forgets(e, tasks) == IF e.task \in DOMAIN tasks \ DEMO_TASKS THEN [e EXCEPT !.task = Null] ELSE e
LEMMA ForgetsIs == ASSUME NEW e, NEW tasks, e = OpsEvent(e.incident, e.id, e.task)
                   PROVE  Forgets(e, tasks) = OpsEvent(e.incident, e.id, IF e.task \in DOMAIN tasks \ DEMO_TASKS THEN Null ELSE e.task)
<1>1. e \in EventSet(e.incident, e.id, e.task)
  BY EventAt
<1>2. [e EXCEPT !.task = Null] \in EventSet(e.incident, e.id, Null)
  BY <1>1 DEF EventSet
<1>3. [e EXCEPT !.task = Null] = OpsEvent(e.incident, e.id, Null)
  BY <1>2, EventAt
<1> QED
  BY <1>3 DEF Forgets

LEMMA OpsEvents == \A e \in OPS_EVENTS : /\ e = OpsEvent(e.incident, e.id, e.task) /\ e.incident \in Ids(INCIDENTS)
                                          /\ e.task \in DEMO_TASKS \union {Null}
<1>1. \A n, id, task : OpsEvent(n, id, task).incident = n /\ OpsEvent(n, id, task).id = id /\ OpsEvent(n, id, task).task = task
  BY DEF OpsEvent
<1>2. \A e \in OPS_EVENTS : e.incident \in {"INC-1836", "INC-1834", "INC-1837", "INC-1842"}
  BY <1>1 DEF OPS_EVENTS
<1>3. \A e \in OPS_EVENTS : e = OpsEvent(e.incident, e.id, e.task) /\ e.task \in DEMO_TASKS \union {Null}
  BY <1>1 DEF OPS_EVENTS, DEMO_TASKS
<1> QED
  BY <1>2, <1>3, PutBackIs

LEMMA Timelines == \A e \in TIMELINES : e.incident \in Ids(INCIDENTS) /\ e.task = Null
  BY DEF TIMELINES, Ids

\* What becomes of the events: the others', the timelines and the demonstration's.
LEMMA SeededEventsAre ==
  ASSUME NEW d, \A e \in d.events : e = OpsEvent(e.incident, e.id, e.task)
  PROVE  SeededEvents(d) = {Forgets(e, d.tasks) : e \in {x \in d.events : x.incident \notin Ids(INCIDENTS)}}
                           \union TIMELINES \union OPS_EVENTS
<1> DEFINE O == {x \in d.events : x.incident \notin Ids(INCIDENTS)}
<1>1. SeededEvents(d) = {Forgets(e, d.tasks) : e \in O \union TIMELINES} \union OPS_EVENTS
  BY DEF SeededEvents, NewEvents, Forgets
<1>2. \A e \in TIMELINES : Forgets(e, d.tasks) = e
  BY TimelineEvents, Timelines, ForgetsIs
<1> HIDE DEF O
<1>3. {Forgets(e, d.tasks) : e \in O \union TIMELINES} = {Forgets(e, d.tasks) : e \in O} \union TIMELINES
  BY <1>2
<1> QED
  BY <1>1, <1>3 DEF O

LEMMA EventsAgain ==
  ASSUME NEW d, NEW after, Stored(d), Seeded(d, after)
  PROVE  SeededEvents(after) = after.events /\ \A e \in after.events : e = OpsEvent(e.incident, e.id, e.task)
<1> DEFINE O == {x \in d.events : x.incident \notin Ids(INCIDENTS)}
           F == {Forgets(e, d.tasks) : e \in O}
<1>1. after.events = F \union TIMELINES \union OPS_EVENTS
  BY SeededEventsAre DEF Stored, Seeded
<1>2. \A e \in F : e = OpsEvent(e.incident, e.id, e.task) /\ e.incident \notin Ids(INCIDENTS)
  <2>1. \A n, id, task : OpsEvent(n, id, task).incident = n /\ OpsEvent(n, id, task).id = id /\ OpsEvent(n, id, task).task = task
    BY DEF OpsEvent
  <2>2. ASSUME NEW e \in O PROVE /\ Forgets(e, d.tasks).incident = e.incident
                                /\ \E n, id, task : Forgets(e, d.tasks) = OpsEvent(n, id, task)
    BY <2>1, ForgetsIs DEF Stored
  <2> QED
    BY <2>1, <2>2
<1> HIDE DEF F
<1>3. \A e \in after.events : e = OpsEvent(e.incident, e.id, e.task)
  BY <1>1, <1>2, OpsEvents, TimelineEvents
<1>4. {x \in after.events : x.incident \notin Ids(INCIDENTS)} = F
  BY <1>1, <1>2, OpsEvents, Timelines
<1>5. \A e : Forgets(e, after.tasks) = e
  BY DEF Forgets, Seeded, DemoTaskRows
<1>6. {Forgets(e, after.tasks) : e \in F} = F
  BY <1>5
<1> QED
  BY <1>1, <1>3, <1>4, <1>6, SeededEventsAre

LEMMA PutAgain == ASSUME NEW f, NEW g PROVE Put(Put(f, g), g) = Put(f, g)
  BY DEF Put

LEMMA AgentsAgain == ASSUME NEW agents PROVE SeededAgents(SeededAgents(agents)) = SeededAgents(agents)
<1> DEFINE C == {"investigation_agent", "response_agent", "network_agent"}
           row(a, c) == [enabled |-> FALSE, health |-> IF c # "network_agent" /\ c \in DOMAIN a THEN a[c].health ELSE "disabled"]
           after == SeededAgents(agents)
<1>1. \A a : SeededAgents(a) = [c \in DOMAIN a \union C |-> IF c \in C THEN row(a, c) ELSE a[c]]
  BY DEF SeededAgents, Put
<1>2. DOMAIN after = DOMAIN agents \union C /\ \A c \in DOMAIN after : after[c] = IF c \in C THEN row(agents, c) ELSE agents[c]
  BY <1>1
<1>3. ASSUME NEW c \in C PROVE row(after, c) = row(agents, c)
  <2>1. c \in DOMAIN after /\ after[c] = row(agents, c)
    BY <1>2
  <2>2. row(agents, c).health = IF c # "network_agent" /\ c \in DOMAIN agents THEN agents[c].health ELSE "disabled"
    OBVIOUS
  <2>3. after[c].health = IF c # "network_agent" /\ c \in DOMAIN agents THEN agents[c].health ELSE "disabled"
    BY <2>1, <2>2, Zenon
  <2> HIDE DEF after
  <2> QED
    BY <2>1, <2>3
<1> HIDE DEF row, after, C
<1> QED
  BY <1>1, <1>2, <1>3 DEF after

LEMMA HistoryAgain ==
  ASSUME NEW d, NEW after, after.history = SeededHistory(d) PROVE SeededHistory(after) = SeededHistory(d)
<1>1. Kept(after) = after.history
  BY DEF SeededHistory, Kept
<1>2. \A h \in DemoHistory : \E e \in after.history : e.id = h.id
  BY DEF SeededHistory, Kept
<1> QED
  BY <1>1, <1>2 DEF SeededHistory

LEMMA SeededIsStored == ASSUME NEW d, NEW after, Stored(d), Seeded(d, after) PROVE Stored(after)
<1>1. ResultTables(after.results)
  BY LeftIs DEF Stored, Seeded
<1>2. \A e \in after.events : e = OpsEvent(e.incident, e.id, e.task)
  BY EventsAgain
<1> QED
  BY <1>1, <1>2 DEF Stored, Seeded

LEMMA SeedsAgainHolds == ASSUME NEW d, Stored(d) PROVE SeedsAgain(d)
<1> DEFINE after == SeedDatabase(d)
           again == SeedDatabase(after)
<1>1. Seeded(d, after)
  BY SeedDatabaseIs
<1> HIDE DEF after
<1>2. Seeded(after, again)
  BY <1>1, SeededIsStored, SeedDatabaseIs
<1> HIDE DEF again
<1>3. again.assets = after.assets /\ again.readings = after.readings
  <2>1. AllReadings(after) = AllReadings(d)
    BY <1>1, ReadingsAgain DEF Seeded
  <2> QED
    BY <1>1, <1>2, <2>1, AssetsAgain DEF Seeded
<1>4. again.incidents = after.incidents
  BY <1>1, <1>2, PutAgain DEF Seeded
<1>5. again.events = after.events
  BY <1>1, <1>2, EventsAgain DEF Seeded
<1>6. again.agents = after.agents
  BY <1>1, <1>2, AgentsAgain DEF Seeded
<1>7. again.history = after.history
  <2>1. after.history = SeededHistory(d) /\ again.history = SeededHistory(after)
    BY <1>1, <1>2 DEF Seeded
  <2> QED
    BY <2>1, HistoryAgain
<1>8. again.results = after.results
  BY <1>1, <1>2, LeftAgain DEF Seeded, Stored
<1>9. again.review = after.review /\ again.snapshots = after.snapshots
  BY <1>1, <1>2 DEF Seeded
<1>10. again.error = after.error /\ again.tasks = after.tasks /\ again.plans = after.plans /\ again.orders = after.orders
  BY <1>1, <1>2 DEF Seeded
<1>11. Whole(again) /\ Whole(after) /\ after.error = "none"
  BY <1>1, <1>2 DEF Seeded
<1>12. \A t \in Tables : again[t] = after[t]
  BY <1>3, <1>4, <1>5, <1>6, <1>7, <1>8, <1>9, <1>10 DEF Tables
<1>13. again = after
  BY <1>11, <1>12, SameTables
<1> QED
  BY <1>11, <1>13 DEF SeedsAgain, after, again

LEMMA OwnNumbersHold == ASSUME NEW d, Stored(d) PROVE OwnNumbers(d)
<1> DEFINE after == SeedDatabase(d)
<1>1. SeedDatabase(after) = after /\ Seeded(d, after)
  BY SeedsAgainHolds, SeedDatabaseIs DEF SeedsAgain
<1> HIDE DEF after
<1>2. ASSUME NEW s \in CATALOGUE
      PROVE  after.assets[s[1]].number = IF s[1] \in DOMAIN d.assets /\ d.assets[s[1]].number # Null /\ ~d.assets[s[1]].demo
                                         THEN d.assets[s[1]].number ELSE IF Numbered(s) THEN "catalogue" ELSE Null
  BY <1>1, SeededRow DEF SeedAsset, KeepNumber
<1> QED
  BY <1>1, <1>2 DEF OwnNumbers, after

LEMMA FourFinite == ASSUME NEW a, NEW b, NEW c, NEW d PROVE IsFiniteSet({a, b, c, d})
<1>1. IsFiniteSet({} \cup {a})
  BY FS_EmptySet, FS_AddElement
<1>2. IsFiniteSet(({} \cup {a}) \cup {b})
  BY <1>1, FS_AddElement
<1>3. IsFiniteSet((({} \cup {a}) \cup {b}) \cup {c})
  BY <1>2, FS_AddElement
<1>4. IsFiniteSet(((({} \cup {a}) \cup {b}) \cup {c}) \cup {d})
  BY <1>3, FS_AddElement
<1>5. {a, b, c, d} = (((({} \cup {a}) \cup {b}) \cup {c}) \cup {d})
  OBVIOUS
<1> QED
  BY <1>4, <1>5

LEMMA SensorsFinite == IsFiniteSet(Ids(SENSORS))
<1> DEFINE A == {"SNS-CRN-014", "SNS-CRN-013", "SNS-HBR-007", "SNS-HBR-008"}
           B == {"SNS-AIN-221", "SNS-AIN-220", "SNS-JED-112", "SNS-JED-114"}
           C == {"SNS-DOH-044", "SNS-DOH-043", "SNS-MCT-009", "SNS-MCT-010"}
           D == {"SNS-CAS-031", "SNS-RUH-078", "SNS-RUH-080", "SNS-AMM-015"}
<1>1. IsFiniteSet(A) /\ IsFiniteSet(B) /\ IsFiniteSet(C) /\ IsFiniteSet(D)
  BY FourFinite
<1>2. Ids(SENSORS) \subseteq ((A \cup B) \cup C) \cup D
  <2>1. \A s \in SENSORS : s[1] \in ((A \cup B) \cup C) \cup D
    BY DEF SENSORS
  <2> QED
    BY <2>1 DEF Ids
<1> HIDE DEF A, B, C, D
<1>3. IsFiniteSet(((A \cup B) \cup C) \cup D)
  BY <1>1, FS_Union
<1> QED
  BY <1>2, <1>3, FS_Subset

LEMMA ExpectedFinite == IsFiniteSet(Expected)
<1> DEFINE T == (-HORIZON)..0
           S == Ids(SENSORS) \X T
           f == [p \in S |-> [sensor |-> p[1], at |-> p[2], seed |-> TRUE]]
           R == {f[p] : p \in S}
<1>1. IsFiniteSet(S)
  <2>1. IsFiniteSet((-HORIZON)..0)
    <3>1. -HORIZON \in Int /\ 0 \in Int
      BY DEF HORIZON
    <3> QED
      BY <3>1, FS_Interval
  <2> QED
    BY <2>1, SensorsFinite, FS_Product
<1>2. f \in Surjection(S, R)
  BY DEF Surjection
<1>3. IsFiniteSet(R)
  BY <1>1, <1>2, FS_Surjection
<1>4. Expected \subseteq R
  <2>1. ASSUME NEW e \in Expected PROVE \E a \in Ids(SENSORS), t \in T : e = [sensor |-> a, at |-> t, seed |-> TRUE]
    BY DEF Expected, ExpectedReadings, HORIZON, OFFLINE_END
  <2>2. ASSUME NEW a \in Ids(SENSORS), NEW t \in T PROVE [sensor |-> a, at |-> t, seed |-> TRUE] \in R
    <3> DEFINE p == <<a, t>>
    <3>1. p \in S /\ p[1] = a /\ p[2] = t
      OBVIOUS
    <3> HIDE DEF p, S
    <3>2. f[p] = [sensor |-> p[1], at |-> p[2], seed |-> TRUE]
      BY <3>1
    <3>3. f[p] = [sensor |-> a, at |-> t, seed |-> TRUE]
      BY <3>1, <3>2
    <3>4. f[p] \in R
      BY <3>1
    <3> QED
      BY <3>3, <3>4
  <2> HIDE DEF R, T
  <2> QED
    BY <2>1, <2>2
<1> QED
  BY <1>3, <1>4, FS_Subset

LEMMA ExpectedEach == ASSUME NEW a \in Ids(SENSORS) PROVE \E r \in Expected : r.sensor = a
<1>1. -HORIZON = -3 /\ -OFFLINE_END = -1
  BY DEF HORIZON, OFFLINE_END
<1>2. -HORIZON \in (-HORIZON)..0 /\ -HORIZON \in (-HORIZON)..(-OFFLINE_END)
  BY <1>1
<1> DEFINE t == -HORIZON
           yes == TRUE
           T == (-HORIZON)..0
           U == (-HORIZON)..(-OFFLINE_END)
           On == {x \in Ids(SENSORS) : StatusOf[x].status # "offline"}
           Off == {x \in Ids(SENSORS) : StatusOf[x].status = "offline"}
           E1 == {[sensor |-> x, at |-> u, seed |-> yes] : x \in On, u \in T}
           E2 == {[sensor |-> x, at |-> u, seed |-> yes] : x \in Off, u \in U}
<1>3. Expected = E1 \union E2
  BY DEF Expected, ExpectedReadings
<1>4. a \in On \/ a \in Off
  OBVIOUS
<1>5. t \in T /\ t \in U
  BY <1>2
<1> HIDE DEF t, yes, T, U, On, Off
<1>6. [sensor |-> a, at |-> t, seed |-> yes] \in E1 \union E2
  BY <1>4, <1>5
<1>7. [sensor |-> a, at |-> t, seed |-> yes].sensor = a
  OBVIOUS
<1> HIDE DEF E1, E2
<1> QED
  BY <1>3, <1>6, <1>7

LEMMA ReadingsWholeHolds ==
  ASSUME NEW d, Stored(d), IsFiniteSet(d.readings), {r \in d.readings : r.seed} \subseteq Expected PROVE ReadingsWhole(d)
<1> DEFINE after == SeedDatabase(d)
<1>1. Seeded(d, after)
  BY SeedDatabaseIs
<1> HIDE DEF after
<1>2. Expected \subseteq AllReadings(d)
  <2>1. CASE Cardinality({r \in d.readings : r.seed}) = Cardinality(Expected)
    <3>1. {r \in d.readings : r.seed} = Expected
      BY <2>1, ExpectedFinite, FS_Subset
    <3> QED
      BY <3>1 DEF AllReadings
  <2>2. CASE Cardinality({r \in d.readings : r.seed}) # Cardinality(Expected)
    BY <2>2 DEF AllReadings, Inserted
  <2> QED
    BY <2>1, <2>2
<1>3. \A a \in Ids(SENSORS) : after.assets[a].status = TheRow(SENSORS, a)[4]
  <2>1. ASSUME NEW s \in SENSORS PROVE after.assets[s[1]].status = TheRow(SENSORS, s[1])[4]
    BY <1>1, SeededRow, SensorRow DEF CATALOGUE
  <2> QED
    BY <2>1 DEF Ids
<1>4. ExpectedReadings(after.assets) = Expected
  BY <1>3, ExpectedOf
<1>5. ExpectedReadings(after.assets) \union {r \in d.readings : ~r.seed} \subseteq after.readings
  BY <1>1, <1>2, <1>4 DEF Seeded, AllReadings
<1>6. ASSUME NEW a \in Ids(SENSORS)
      PROVE  after.assets[a].seen = Max({r.at : r \in {x \in after.readings : x.sensor = a}})
  <2> DEFINE m == Max({r.at : r \in {x \in after.readings : x.sensor = a}})
  <2>1. PICK s \in CATALOGUE : s[1] = a
    BY DEF Ids, CATALOGUE
  <2>2. a \in DOMAIN Rows(d) /\ Rows(d)[a] = SeedAsset(d.assets, s)
    BY <1>1, <2>1, SeededStatus, SeededRow
  <2>3. after.assets[a] = [Rows(d)[a] EXCEPT !.seen = m]
    <3>1. \E r \in after.readings : r.sensor = a
      BY <1>1, <1>2, ExpectedEach DEF Seeded
    <3> QED
      BY <1>1, <2>2, <3>1 DEF Seeded, Dated
  <2>4. "seen" \in DOMAIN Rows(d)[a]
    BY <2>2 DEF SeedAsset
  <2> HIDE DEF m
  <2>5. after.assets[a].seen = m
    BY <2>3, <2>4
  <2> QED
    BY <2>5 DEF m
<1> QED
  BY <1>5, <1>6 DEF ReadingsWhole, after

LEMMA NothingDanglesHolds ==
  ASSUME NEW d, Stored(d), \A n \in DOMAIN d.incidents : d.incidents[n].resolved <=> d.incidents[n].status = "resolved",
         \A e \in d.events : e.task \in DOMAIN d.tasks \union {Null}
  PROVE  NothingDangles(d)
<1> DEFINE after == SeedDatabase(d)
<1>1. Seeded(d, after)
  BY SeedDatabaseIs
<1> HIDE DEF after
<1>2. ASSUME NEW e \in after.events PROVE e.task = Null \/ e.task \in DOMAIN after.tasks
  <2>1. DOMAIN after.tasks = DEMO_TASKS
    BY <1>1 DEF Seeded, DemoTaskRows
  <2>2. \/ \E x \in d.events : e = Forgets(x, d.tasks)
        \/ e \in TIMELINES \/ e \in OPS_EVENTS
    BY <1>1, <1>2, SeededEventsAre DEF Stored, Seeded
  <2>3. ASSUME NEW x \in d.events, e = Forgets(x, d.tasks) PROVE e.task \in DEMO_TASKS \union {Null}
    <3>1. e = OpsEvent(x.incident, x.id, IF x.task \in DOMAIN d.tasks \ DEMO_TASKS THEN Null ELSE x.task)
      BY <2>3, ForgetsIs DEF Stored
    <3>2. e.task = IF x.task \in DOMAIN d.tasks \ DEMO_TASKS THEN Null ELSE x.task
      BY <3>1 DEF OpsEvent
    <3> QED
      BY <3>2
  <2> QED
    BY <2>1, <2>2, <2>3, Timelines, OpsEvents
<1>3. ASSUME NEW n \in DOMAIN after.incidents
      PROVE  /\ after.incidents[n].resolved <=> after.incidents[n].status = "resolved"
             /\ n \in DOMAIN d.incidents \ Ids(INCIDENTS) => after.incidents[n] = d.incidents[n]
  <2>1. DOMAIN WorkedOn = Ids(INCIDENTS) /\ DOMAIN after.incidents = DOMAIN d.incidents \union Ids(INCIDENTS)
        /\ after.incidents[n] = IF n \in Ids(INCIDENTS) THEN WorkedOn[n] ELSE d.incidents[n]
    BY <1>1, <1>3 DEF Seeded, WorkedOn, Put
  <2>2. ASSUME n \in Ids(INCIDENTS) PROVE WorkedOn[n].resolved <=> WorkedOn[n].status = "resolved"
    <3>1. /\ Acknowledged1836.resolved <=> Acknowledged1836.status = "resolved"
          /\ Resolved1834.resolved <=> Resolved1834.status = "resolved"
          /\ Resolved1837.resolved <=> Resolved1837.status = "resolved"
          /\ Responding1842.resolved <=> Responding1842.status = "resolved"
      BY DEF Acknowledged1836, Resolved1834, Resolved1837, Responding1842, IncidentAt
    <3>2. \A i : SeedIncident(i).resolved <=> SeedIncident(i).status = "resolved"
      BY DEF SeedIncident
    <3>3. PutBack[n] = SeedIncident(TheRow(INCIDENTS, n))
      BY <2>2 DEF PutBack
    <3>4. WorkedOn[n] \in {Acknowledged1836, Resolved1834, Resolved1837, Responding1842, PutBack[n]}
      BY <2>2 DEF WorkedOn
    <3> HIDE DEF Acknowledged1836
    <3> QED
      BY <3>1, <3>2, <3>3, <3>4
  <2> QED
    BY <2>1, <2>2
<1> QED
  BY <1>1, <1>2, <1>3 DEF NothingDangles, after, Seeded, Put
\* What the demonstration's history tells of its orders.
Told(id, o, p, to) == [id |-> id, order |-> o, plan |-> p, to |-> to]
LEMMA ToldIs == ASSUME NEW id, NEW o, NEW p, NEW to
                PROVE  /\ Told(id, o, p, to).id = id /\ Told(id, o, p, to).order = o
                       /\ Told(id, o, p, to).plan = p /\ Told(id, o, p, to).to = to
  BY DEF Told
STORIES == {Told(11, 1, 2, "scheduled"), Told(12, 2, 1, "scheduled"), Told(13, 3, 4, "scheduled"), Told(14, 3, 4, "assigned"),
            Told(15, 4, 3, "assigned"), Told(16, 4, 3, "in_progress"), Told(17, 5, 5, "completed"), Told(18, 6, 0, "cancelled")}

LEMMA StoriesAre == /\ STORIES \subseteq DemoHistory
                    /\ \A e \in DemoHistory : e.order = 0 \/ e \in STORIES
<1> DEFINE orders == <<1, 2, 3, 3, 4, 4, 5, 6>>
           plans == <<2, 1, 4, 4, 3, 3, 5, 0>>
           tos == <<"scheduled", "scheduled", "scheduled", "assigned", "assigned", "in_progress", "completed", "cancelled">>
           row(k) == Told(10 + k, orders[k], plans[k], tos[k])
           A == {[id |-> p, order |-> 0, plan |-> p, to |-> IF p = 9 THEN "plan_disabled" ELSE "plan_created"] : p \in 1..9}
<1>1. DemoHistory = A \union {row(k) : k \in 1..8}
  BY DEF DemoHistory, Told
<1>2. \A e \in A : e.order = 0
  OBVIOUS
<1>3. /\ row(1) = Told(11, 1, 2, "scheduled") /\ row(2) = Told(12, 2, 1, "scheduled") /\ row(3) = Told(13, 3, 4, "scheduled")
      /\ row(4) = Told(14, 3, 4, "assigned") /\ row(5) = Told(15, 4, 3, "assigned") /\ row(6) = Told(16, 4, 3, "in_progress")
      /\ row(7) = Told(17, 5, 5, "completed") /\ row(8) = Told(18, 6, 0, "cancelled")
  OBVIOUS
<1> HIDE DEF row, A
<1>4. {row(k) : k \in 1..8} = {row(1), row(2), row(3), row(4), row(5), row(6), row(7), row(8)}
  <2>1. 1..8 = {1, 2, 3, 4, 5, 6, 7, 8}
    OBVIOUS
  <2> QED
    BY <2>1
<1>5. {row(k) : k \in 1..8} = STORIES
  BY <1>3, <1>4 DEF STORIES
<1> QED
  BY <1>1, <1>2, <1>5

\* The six orders, and the event that left each as it is.
LEMMA OrderRows ==
  ASSUME NEW o \in 1..6
  PROVE  /\ DemoOrderRows[o] = SeedOrder(o) /\ SeedOrder(o).plan = OrderPlans[o] /\ SeedOrder(o).status = OrderStatuses[o]
         /\ (SeedOrder(o).started <=> o \in 4..5) /\ (SeedOrder(o).completed <=> o = 5) /\ (SeedOrder(o).cancelled <=> o = 6)
  BY DEF DemoOrderRows, SeedOrder

LEMMA OrdersTold ==
  ASSUME NEW o \in 1..6
  PROVE  /\ \A e \in STORIES : e.order = o => e.plan = OrderPlans[o]
         /\ \E e \in STORIES : /\ e.order = o /\ e.to = OrderStatuses[o]
                               /\ \A f \in STORIES : f.order = o => f.id <= e.id
<1>1. o \in {1, 2, 3, 4, 5, 6}
  OBVIOUS
<1> DEFINE last == CASE o = 1 -> Told(11, 1, 2, "scheduled") [] o = 2 -> Told(12, 2, 1, "scheduled")
                     [] o = 3 -> Told(14, 3, 4, "assigned") [] o = 4 -> Told(16, 4, 3, "in_progress")
                     [] o = 5 -> Told(17, 5, 5, "completed") [] OTHER -> Told(18, 6, 0, "cancelled")
<1>2. \A e \in STORIES : e.order = o => e.plan = OrderPlans[o]
  BY <1>1, ToldIs DEF STORIES, OrderPlans
<1>3. last \in STORIES
  BY <1>1 DEF STORIES
<1>4. last.order = o /\ last.to = OrderStatuses[o]
  BY <1>1, ToldIs DEF OrderStatuses
<1>5. \A f \in STORIES : f.order = o => f.id <= last.id
  BY <1>1, ToldIs DEF STORIES
<1> HIDE DEF last
<1> QED
  BY <1>2, <1>3, <1>4, <1>5

LEMMA OrdersAgreeHolds ==
  ASSUME NEW d, Stored(d), \A e \in d.history, h \in DemoHistory : e.id = h.id => e = h PROVE OrdersAgree(d)
<1> DEFINE after == SeedDatabase(d)
<1>1. Seeded(d, after)
  BY SeedDatabaseIs
<1> HIDE DEF after
<1>2. after.history = DemoHistory
  <2>1. Kept(d) \subseteq DemoHistory
    BY DEF Kept
  <2>2. ASSUME NEW h \in DemoHistory PROVE h \in SeededHistory(d)
    BY <2>1 DEF SeededHistory, Kept
  <2> QED
    BY <1>1, <2>1, <2>2 DEF Seeded, SeededHistory
<1>3. after.orders = DemoOrderRows /\ DOMAIN DemoOrderRows = 1..6
  BY <1>1 DEF Seeded, DemoOrderRows
<1>4. ASSUME NEW o \in 1..6
      PROVE  LET row == after.orders[o] story == {e \in after.history : e.order = o} IN
             /\ row.started => row.status \in {"in_progress", "completed"}
             /\ row.completed <=> row.status = "completed"
             /\ row.cancelled <=> row.status = "cancelled"
             /\ \E e \in story : e.to = row.status /\ \A f \in story : f.id <= e.id
             /\ \A e \in story : e.plan = row.plan
  <2> DEFINE row == after.orders[o]
             story == {e \in after.history : e.order = o}
  <2>1. story = {e \in STORIES : e.order = o}
    BY <1>2, StoriesAre
  <2>2. row.plan = OrderPlans[o] /\ row.status = OrderStatuses[o]
    BY <1>3, OrderRows
  <2>3. (row.started <=> o \in 4..5) /\ (row.completed <=> o = 5) /\ (row.cancelled <=> o = 6)
    BY <1>3, OrderRows
  <2>4. /\ o \in 4..5 => OrderStatuses[o] \in {"in_progress", "completed"}
        /\ o = 5 <=> OrderStatuses[o] = "completed"
        /\ o = 6 <=> OrderStatuses[o] = "cancelled"
    <3>1. o \in {1, 2, 3, 4, 5, 6}
      OBVIOUS
    <3> QED
      BY <3>1 DEF OrderStatuses
  <2> HIDE DEF row, story
  <2>5. /\ row.started => row.status \in {"in_progress", "completed"}
        /\ row.completed <=> row.status = "completed"
        /\ row.cancelled <=> row.status = "cancelled"
    BY <2>2, <2>3, <2>4
  <2>6. \E e \in story : e.to = row.status /\ \A f \in story : f.id <= e.id
    BY <2>1, <2>2, OrdersTold
  <2>7. \A e \in story : e.plan = row.plan
    BY <2>1, <2>2, OrdersTold
  <2> QED
    BY <2>5, <2>6, <2>7 DEF row, story
<1> QED
  BY <1>3, <1>4 DEF OrdersAgree, after

LEMMA DatabaseIs == ASSUME NEW d, DatabaseStored(d)
                    PROVE  /\ Stored(d) /\ IsFiniteSet(d.readings) /\ {r \in d.readings : r.seed} \subseteq Expected
                           /\ \A n \in DOMAIN d.incidents : d.incidents[n].resolved <=> d.incidents[n].status = "resolved"
                           /\ \A e \in d.events : e.task \in DOMAIN d.tasks \union {Null}
                           /\ \A e \in d.history, h \in DemoHistory : e.id = h.id => e = h
<1>1. ResultTables(d.results)
  BY DEF DatabaseStored, ResultsStored, ResultTables
<1>2. IsFiniteSet(d.readings) /\ {r \in d.readings : r.seed} \subseteq Expected
  BY DEF DatabaseStored, ReadingsStored, Expected, StatusOf
<1>3. \A e \in d.events : e = OpsEvent(e.incident, e.id, e.task) /\ e.task \in DOMAIN d.tasks \union {Null}
  BY DEF DatabaseStored, EventStored, OpsEvent
<1> QED
  BY <1>1, <1>2, <1>3 DEF DatabaseStored, Stored, Whole

\* Whatever rows an operator left in the database: a seed succeeds and a second one changes
\* nothing, a number that is an operator's stays, orders, status and history of the
\* demonstration tell the same, readings are completed and date their sensors, nothing is left
\* on a task that is gone; and a clean-up deletes what its dry run counts, at once (app/scripts).
THEOREM SeedsHold == SeedsSpec => []SeedsRepeat
<1> DEFINE Tried == /\ subject = "seeds" => input \in Seedings
                    /\ subject = "cleanup" => input \in Cleanups
<1>1. Untried => Tried
  BY DEF Untried
<1>2. Tried /\ [TrySeeds \/ TryCleanup]_trial => Tried'
  BY DEF TrySeeds, TryCleanup, Try, trial
<1>3. ASSUME NEW d, DatabaseStored(d)
      PROVE  SeedsAgain(d) /\ OwnNumbers(d) /\ OrdersAgree(d) /\ ReadingsWhole(d) /\ NothingDangles(d)
  BY <1>3, DatabaseIs, SeedsAgainHolds, OwnNumbersHold, OrdersAgreeHolds, ReadingsWholeHolds, NothingDanglesHolds
<1>4. Tried => SeedTwice /\ OwnNumberKept /\ SeededOrders /\ SeededReadings /\ SeedKeepsWhole
  BY <1>3, SeedingsAssumption DEF SeedTwice, OwnNumberKept, SeededOrders, SeededReadings, SeedKeepsWhole, For
<1>5. Tried => CleanExactly
  BY CleansExactly, CleanupsAssumption DEF CleanExactly, For
<1> QED
  BY <1>1, <1>2, <1>4, <1>5, PTL DEF SeedsSpec, SeedsRepeat
=============================================================================
