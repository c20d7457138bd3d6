----------------------------- MODULE Maintenance -----------------------------
(***************************************************************************)
(* Maintenance plans and work orders of one asset                          *)
(* (plateform/backend/app/services/maintenance.py).  A request is one      *)
(* database transaction: it locks the plan or the order it changes, checks *)
(* the row it has locked, inserts its rows and a history event, refreshes  *)
(* the asset's date where it has to, and commits.  The generator locks     *)
(* every due plan in the order of their dates and creates the orders of    *)
(* their cycles, each plan under a savepoint.                              *)
(*                                                                         *)
(* What requests wait for is kept: row locks, the key-share lock by which  *)
(* an inserted event pins its plan's row, and the next free public number, *)
(* which an uncommitted insert holds.  A request that reads a number too   *)
(* early fails on its unique constraint: that is Fail, as is a deadlock's  *)
(* victim, a lost database and a refusal.                                  *)
(*                                                                         *)
(* Abstracted: titles, people other than "somebody is assigned", priority, *)
(* incidents, and clock times other than due dates, counted in cycles.     *)
(***************************************************************************)
EXTENDS Integers, Sequences, FiniteSets

CONSTANTS
  Sessions,
  Plans,      \* public numbers of the asset's plans
  MaxOrders,  \* bound: work orders ever created
  MaxLoose,   \* bound: the last of them that may be of no plan
  MaxDate     \* bound: dates are 1..MaxDate, a plan's interval is one

ASSUME PlansAssumption == Plans \subseteq Nat /\ IsFiniteSet(Plans)
ASSUME MaxOrdersAssumption == MaxOrders \in Nat /\ MaxLoose \in Nat
ASSUME MaxDateAssumption == MaxDate \in Nat \ {0}

VARIABLES
  plan,     \* rows of maintenance_plans
  order,    \* rows of maintenance_work_orders, in the order of their numbers
  next,     \* the asset's next_maintenance_at
  tx        \* the transaction of each session

vars == <<plan, order, next, tx>>

Dates    == 1..MaxDate
NoPlan   == -1
Open     == {"waiting", "in_progress"}   \* waiting: scheduled or assigned, which no guard tells apart
Terminal == {"completed", "cancelled"}
PlanRow  == [state : {"absent", "enabled", "disabled"}, due : Dates]
OrderRow == [plan : Plans \union {NoPlan}, status : Open \union Terminal]
Numbers  == {"plan_number", "order_number", "event_number"}

Idle == [op |-> "none", step |-> "idle", plan |-> NoPlan, order |-> 0,
         locks |-> {}, holds |-> {},     \* what others wait for
         rows |-> << >>, row |-> << >>, moved |-> {},   \* written, not committed
         queue |-> << >>, todo |-> << >>, asOf |-> 0,   \* the generator's progress
         seen |-> 0, date |-> 0]      \* the asset's date as loaded, and as refreshed

TypeOK ==
  /\ plan \in [Plans -> PlanRow]
  /\ order \in Seq(OrderRow) /\ Len(order) <= MaxOrders
  /\ next \in {0} \union Dates
  /\ \A s \in Sessions :
       /\ tx[s].locks \union tx[s].moved \subseteq Plans
       /\ tx[s].holds \subseteq Numbers
       /\ tx[s].order \in 0..Len(order)
       /\ tx[s].rows \in Seq(OrderRow) /\ {tx[s].seen, tx[s].date} \subseteq {0} \union Dates
       /\ tx[s].step # "insert" => Len(order) + Len(tx[s].rows) <= MaxOrders

EnabledIn(rows) == {p \in DOMAIN rows : rows[p].state = "enabled"}
FirstDate(rows) == CHOOSE d \in Dates :
  /\ \E p \in EnabledIn(rows) : rows[p].due = d
  /\ \A p \in EnabledIn(rows) : d <= rows[p].due

Init ==
  /\ plan \in [Plans -> {r \in PlanRow : r.state = "enabled" \/ (r.state = "absent" /\ r.due = 1)}]
  /\ order = << >>
  /\ next = IF EnabledIn(plan) = {} THEN 0 ELSE FirstDate(plan)
  /\ tx = [s \in Sessions |-> Idle]

-----------------------------------------------------------------------------
(***************************************************************************)
(* Locks and numbers.                                                      *)
(***************************************************************************)
Rest(s) == Sessions \ {s}
PlanFreeShared(s, p)  == TRUE    \* mutant: the plan is read without FOR UPDATE
PlanFree(s, p)   == \A u \in Rest(s) : p \notin tx[u].locks
OrderFree(s, o)  == \A u \in Rest(s) : tx[u].order # o
NumberFree(s, n) == \A u \in Rest(s) : n \notin tx[u].holds

HasOpenOrder(p) == \E o \in DOMAIN order : order[o].plan = p /\ order[o].status \in Open

Goes(s, r)   == tx' = [tx EXCEPT ![s] = r]
Unpublished  == UNCHANGED <<plan, order, next>>

\* The request ends with nothing written: refused, a number taken by another, chosen
\* as the victim of a deadlock, or the database lost.
Fail(s) ==
  /\ tx[s].step # "idle"
  /\ Goes(s, Idle)
  /\ Unpublished

-----------------------------------------------------------------------------
(***************************************************************************)
(* Operations: the row each locks, what it checks and what it will write.  *)
(***************************************************************************)
Starts(s, r) == tx[s].step = "idle" /\ Goes(s, r) /\ Unpublished

\* An operation on an order reads it under its lock; what the operation checks of it and
\* writes comes with its commit (Assign to Cancel).
LockOrder(s) ==
  \E o \in DOMAIN order :
    /\ OrderFree(s, o)
    /\ Starts(s, [Idle EXCEPT !.op = "edit", !.step = "insert", !.order = o, !.plan = order[o].plan,
                              !.row = order[o]])

NewOrder(p) == [plan |-> p, status |-> "waiting"]

Creates(s, p, held) ==
  Starts(s, [Idle EXCEPT !.op = "create_order", !.step = "insert", !.plan = p, !.locks = held,
                         !.rows = <<NewOrder(p)>>])

CreateOrder(s) ==
  /\ Len(order) < MaxOrders
  /\ \/ Len(order) < MaxLoose /\ Creates(s, NoPlan, {})
     \/ \E p \in EnabledIn(plan) : PlanFree(s, p) /\ ~HasOpenOrder(p) /\ Creates(s, p, {p})

\* The asset is loaded, without a lock, and its date with it.  The plan comes with InsertPlan.
CreatePlan(s) == Starts(s, [Idle EXCEPT !.op = "create_plan", !.step = "insert", !.seen = next])

\* A plan is read under its lock; what changes of it comes with UpdatePlan or DisablePlan.
LockPlan(s) ==
  \E p \in Plans :
    /\ plan[p].state # "absent" /\ PlanFree(s, p)
    /\ Starts(s, [Idle EXCEPT !.op = "update_plan", !.step = "insert", !.plan = p, !.locks = {p}])

-----------------------------------------------------------------------------
(***************************************************************************)
(* Inserts, the asset's date, and the commit.                              *)
(***************************************************************************)
\* Every change takes the next event's number, a new row its own before.  The two are
\* taken in one step: who waits for an event number holds nothing others wait for longer.
Needs(op) == {"event_number"} \union
  (CASE op = "create_plan" -> {"plan_number"}
     [] op \in {"create_order", "generate"} -> {"order_number"}
     [] OTHER -> {})
NumbersFree(s) == \A n \in Needs(tx[s].op) : NumberFree(s, n)

InsertRows(s) ==
  /\ tx[s].step = "insert" /\ tx[s].op \in {"edit", "create_order"}
  /\ NumbersFree(s)
  /\ Len(order) + Len(tx[s].rows) <= MaxOrders
  /\ Goes(s, [tx[s] EXCEPT !.holds = Needs(tx[s].op), !.step = "ready"])
  /\ Unpublished

RefreshedDate(rows, was) == IF EnabledIn(rows) = {} THEN was ELSE FirstDate(rows)

\* The date of the asset that the request has in hand: update_plan and disable_plan load the
\* asset only now, create_plan did before its insert, and nothing it reads later replaces it.
Loaded(s)      == IF tx[s].op = "update_plan" THEN next ELSE tx[s].seen

\* The plan's row and its event are written, and the asset's plans are looked at: the
\* committed ones, and the transaction's own.
WritesPlan(s, p, r) ==
  /\ tx[s].step = "insert"
  /\ NumbersFree(s)
  /\ Goes(s, [tx[s] EXCEPT !.holds = Needs(tx[s].op), !.step = "ready", !.plan = p, !.row = r,
                           !.seen = Loaded(s), !.date = RefreshedDate([plan EXCEPT ![p] = r], Loaded(s))])
  /\ Unpublished

InsertPlan(s) ==
  /\ tx[s].op = "create_plan"
  /\ \E p \in Plans, d \in Dates : /\ plan[p].state = "absent"
                                 /\ WritesPlan(s, p, [state |-> "enabled", due |-> d])

UpdatePlan(s) ==
  /\ tx[s].op = "update_plan"
  /\ \E x \in {"enabled", "disabled"}, d \in Dates : WritesPlan(s, tx[s].plan, [state |-> x, due |-> d])

DisablePlan(s) ==
  /\ tx[s].op = "update_plan"
  /\ WritesPlan(s, tx[s].plan, [plan[tx[s].plan] EXCEPT !.state = "disabled"])

\* The event of an order pins its plan's row by its foreign key.  That key-share lock
\* is taken with the commit: who has it waits for nothing more.
PinFree(s) == tx[s].order = 0 \/ \A u \in Rest(s) : tx[s].plan \notin tx[u].locks

PlanWritten(s) == tx[s].op \in {"create_plan", "update_plan"}

\* A date equal to the loaded one is no change of the asset, and its UPDATE leaves it out.
Commit(s) ==
  /\ tx[s].step = "ready" /\ tx[s].order = 0
  /\ plan' = [p \in Plans |-> IF p \in tx[s].moved THEN [plan[p] EXCEPT !.due = @ + 1]
                              ELSE IF PlanWritten(s) /\ p = tx[s].plan THEN tx[s].row ELSE plan[p]]
  /\ order' = order \o tx[s].rows
  /\ next' = IF PlanWritten(s) /\ tx[s].date # tx[s].seen THEN tx[s].date ELSE next
  /\ Goes(s, Idle)

Edits(s, from, to) ==
  /\ tx[s].step = "ready" /\ tx[s].order # 0
  /\ PinFree(s)
  /\ tx[s].row.status \in from
  /\ order' = [order EXCEPT ![tx[s].order].status = to]
  /\ Goes(s, Idle)
  /\ UNCHANGED plan

Assign(s)     == Edits(s, {"waiting"}, "waiting") /\ UNCHANGED next
Reschedule(s) == Edits(s, {"waiting"}, "waiting") /\ UNCHANGED next

\* An unassigned order is started after a confirmation, or assigned on the way.
Start(s)      == Edits(s, {"waiting"}, "in_progress") /\ UNCHANGED next

AddNote(s)    == \E x \in Open : Edits(s, {x}, x) /\ UNCHANGED next

CancelAnything(s) == Edits(s, Open \union Terminal, "cancelled") /\ UNCHANGED next   \* mutant
Cancel(s)     == Edits(s, Open, "cancelled") /\ UNCHANGED next

\* Only a successful result refreshes the asset's date.
Complete(s)   == Edits(s, {"in_progress"}, "completed") /\ next' \in {next, RefreshedDate(plan, next)}

-----------------------------------------------------------------------------
(***************************************************************************)
(* The generator of due work orders.                                       *)
(***************************************************************************)
DueIn(rows, t) == {p \in EnabledIn(rows) : rows[p].due <= t}
Earlier(rows, p, q) == rows[p].due < rows[q].due \/ (rows[p].due = rows[q].due /\ p <= q)
InOrder(rows, S) == CHOOSE q \in [1..Cardinality(S) -> S] :
  \A i, j \in 1..Cardinality(S) : i < j => q[i] # q[j] /\ Earlier(rows, q[i], q[j])

\* A run that finds no due plan changes nothing.
GenerateDue(s) ==
  /\ tx[s].step = "idle"
  /\ \E t \in Dates :
       /\ DueIn(plan, t) # {}
       /\ Goes(s, [Idle EXCEPT !.op = "generate", !.asOf = t, !.step = "locking",
                               !.queue = InOrder(plan, DueIn(plan, t))])
  /\ Unpublished

LoopOver(todo) == IF todo = << >> THEN "ready" ELSE "plan"

LockNextReserving(s) ==    \* mutant: numbers are reserved while plans are still being locked
  /\ tx[s].step = "locking"
  /\ LET p == Head(tx[s].queue)  left == Tail(tx[s].queue) IN
       /\ PlanFree(s, p) /\ NumbersFree(s)
       /\ Goes(s, [tx[s] EXCEPT !.queue = left, !.locks = @ \union {p}, !.todo = Append(@, p),
                     !.holds = Needs("generate"), !.step = IF left = << >> THEN "plan" ELSE @])
  /\ Unpublished

LockNextStale(s) ==        \* mutant: what was due at the query is not checked again under its lock
  /\ tx[s].step = "locking"
  /\ LET p == Head(tx[s].queue)  left == Tail(tx[s].queue) IN
       /\ PlanFree(s, p)
       /\ Goes(s, [tx[s] EXCEPT !.queue = left, !.locks = @ \union {p}, !.todo = Append(@, p),
                     !.step = IF left = << >> THEN "plan" ELSE @])
  /\ Unpublished

\* Rows are locked in the order of the query's snapshot; one changed since is checked again.
LockNext(s) ==
  /\ tx[s].step = "locking"
  /\ LET p    == Head(tx[s].queue)
         todo == IF p \in DueIn(plan, tx[s].asOf) THEN Append(tx[s].todo, p) ELSE tx[s].todo
         left == Tail(tx[s].queue)
         r    == [tx[s] EXCEPT !.queue = left, !.locks = @ \union {p}, !.todo = todo]
     IN /\ PlanFree(s, p)
        /\ Goes(s, IF left = << >> THEN [r EXCEPT !.asOf = 0, !.step = LoopOver(todo)] ELSE r)
  /\ Unpublished

Current(s) == Head(tx[s].todo)
Looping(s) == tx[s].step = "plan"

\* A plan is done, and with the last of them the run.
PlanDone(s, r) ==
  /\ Goes(s, [r EXCEPT !.todo = Tail(@), !.step = LoopOver(Tail(tx[s].todo))])
  /\ Unpublished

SkipPlan(s) ==
  /\ Looping(s)
  /\ HasOpenOrder(Current(s))
  /\ PlanDone(s, tx[s])

GenerateOrder(s) ==
  /\ Looping(s)
  /\ ~HasOpenOrder(Current(s))
  /\ NumbersFree(s)
  /\ Len(order) + Len(tx[s].rows) < MaxOrders
  /\ plan[Current(s)].due < MaxDate
  /\ PlanDone(s, [tx[s] EXCEPT
       !.holds = Needs("generate"), !.moved = @ \union {Current(s)},
       !.rows = Append(@, NewOrder(Current(s)))])

PlanFailsUnsaved(s) ==     \* mutant: no savepoint, the plan's new date stays
  /\ Looping(s)
  /\ PlanDone(s, [tx[s] EXCEPT !.moved = @ \union {Current(s)}])

\* An insert hits a number another run has taken: the savepoint undoes this plan only.
PlanFails(s) ==
  /\ Looping(s)
  /\ PlanDone(s, tx[s])

-----------------------------------------------------------------------------
Request(s) ==
  \/ Fail(s) \/ LockOrder(s)
  \/ Assign(s) \/ Reschedule(s) \/ Start(s) \/ AddNote(s) \/ Complete(s) \/ Cancel(s)
  \/ CreateOrder(s) \/ CreatePlan(s) \/ InsertPlan(s) \/ LockPlan(s) \/ UpdatePlan(s) \/ DisablePlan(s)
  \/ InsertRows(s) \/ Commit(s)

Generator(s) ==
  \/ GenerateDue(s) \/ LockNext(s)
  \/ SkipPlan(s) \/ GenerateOrder(s) \/ PlanFails(s)

Next == \E s \in Sessions : Request(s) \/ Generator(s)

Spec == Init /\ [][Next]_vars

-----------------------------------------------------------------------------
Publishes(s) == tx'[s].step = "idle" /\ <<plan, order, next>>' # <<plan, order, next>>

\* "At most one open work order per due enabled plan cycle"
\* (scripts/generate_maintenance_work_orders.py): generators and create_work_order
\* decide under the plan's lock, so no interleaving opens a second order of a plan.
OneOpenOrder ==
  \A i, j \in DOMAIN order :
    (i # j /\ order[i].plan = order[j].plan /\ order[i].plan # NoPlan)
      => {order[i].status, order[j].status} \cap Terminal # {}

\* No cycle is lost or generated twice: unless an operator sets it, a plan's date only
\* moves one interval on, together with a new order for the cycle it leaves, however
\* many of the run's other plans fail (lines 522-561).
\* And a completed or cancelled order is never touched again, by requests of any order or
\* interleaving (TERMINAL_STATUSES; the checks completed_clears_cancel and its twin).
HistoryKept ==
  [][/\ \A p \in Plans : plan'[p].due # plan[p].due =>
         \/ \E s \in Sessions : tx[s].op \in {"update_plan", "create_plan"} /\ Publishes(s)
         \/ /\ plan'[p].due = plan[p].due + 1
            /\ \E o \in DOMAIN order' \ DOMAIN order : order'[o] = NewOrder(p)
     /\ \A o \in DOMAIN order : order[o].status \in Terminal => order'[o] = order[o]]_vars

\* A request that changes a plan leaves the asset's next maintenance at its earliest
\* enabled plan's, although nobody locks the asset's row: whoever reads the plans for it
\* holds the next event's number until the commit.  The exception is a plan created while
\* another request moved the asset's date away from just the one that is right again: the
\* creator has it in hand as the old one, so it is not written (lines 399 and 576).
\* (The generator moves plans on and leaves the date; so does disabling the last plan.)
AssetDateRefreshed ==
  [][\A s \in Sessions :
       tx[s].op \in {"create_plan", "update_plan"} /\ Publishes(s) /\ EnabledIn(plan') # {} =>
         \/ next' = FirstDate(plan')
         \/ tx[s].op = "create_plan" /\ FirstDate(plan') = tx[s].seen /\ tx[s].seen # next]_vars

Book == INSTANCE MaintenanceBook
          WITH plans <- plan, orders <- order, date <- next, PlanKeys <- Plans, Free <- NoPlan, Days <- Dates

\* The requests and the generators, however their locks, readings, inserts and commits fall
\* between each other's, change plans, orders and the asset's date as if each were a single
\* step: an order is opened only where its plan is enabled and has none open at the commit,
\* a run that looked at its plans one by one moves on just those that still are so, and the
\* date, which is read from other plans' rows and written without a lock, is that of the
\* plans at the commit (_refresh_asset_next_maintenance), but for the one case that
\* AssetDateRefreshed allows a new plan.
OneAfterAnother == Book!BookSpec /\ AssetDateRefreshed

\* s waits for u: for a plan's row, an order's row or a number u holds.
Waits(s, u) ==
  /\ s # u
  /\ \/ tx[s].step \in {"insert", "plan"} /\ Needs(tx[s].op) \cap tx[u].holds # {}
     \/ tx[s].step = "ready" /\ tx[s].order # 0 /\ tx[s].plan \in tx[u].locks
     \/ tx[s].step = "locking" /\ Head(tx[s].queue) \in tx[u].locks

\* Requests that wait for each other in a ring of any length, which only the database's
\* deadlock detection can end, have two generators among them whose plans changed order
\* between their queries, or an edit of an order, whose event has the next number and pins
\* a plan, and a request that has locked its plan and wants the number.  Edits of orders
\* alone, or changes of plans alone, never wait so.
DeadlocksKnown ==
  \A ring \in SUBSET Sessions : ring # {} /\ (\A s \in ring : \E u \in ring : Waits(s, u)) =>
    \/ \E s, u \in ring : s # u /\ \A g \in {s, u} : tx[g].op = "generate" /\ tx[g].step = "locking"
    \/ \E e, p \in ring : /\ tx[e].op = "edit" /\ tx[e].step = "ready"
                         /\ tx[p].op \in {"create_order", "update_plan", "generate"}
                         /\ tx[p].step \in {"insert", "plan"}
=============================================================================
