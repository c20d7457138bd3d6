--------------------------- MODULE MaintenanceBook ---------------------------
(***************************************************************************)
(* What maintenance promises of an asset's plans, their work orders and    *)
(* the asset's date, without transactions, locks or numbers: every request *)
(* and every run of the generator is one step, which decides on what it    *)
(* then finds.                                                             *)
(***************************************************************************)
EXTENDS Integers, Sequences

CONSTANTS
  PlanKeys,   \* public numbers of the plans
  Free,       \* the plan of an order that has none
  Days        \* dates a plan may be due on

VARIABLES plans, orders, date

book == <<plans, orders, date>>

Pending  == {"waiting", "in_progress"}
Enabled  == {p \in DOMAIN plans : plans[p].state = "enabled"}
Earliest == CHOOSE d \in Days : /\ \E p \in Enabled : plans[p].due = d
                                /\ \A p \in Enabled : d <= plans[p].due

BookInit ==
  /\ \A p \in PlanKeys : plans[p].state \in {"enabled", "absent"}
  /\ orders = << >>
  /\ date = IF Enabled = {} THEN 0 ELSE Earliest

-----------------------------------------------------------------------------
\* A plan is changed or disabled, and the asset's date becomes that of the first plan that
\* is enabled then.
ChangePlan(p) ==
  /\ plans[p].state # "absent"
  /\ \E x \in {"enabled", "disabled"}, d \in Days :
       plans' = [plans EXCEPT ![p] = [state |-> x, due |-> d]]
  /\ date' = IF Enabled' = {} THEN date ELSE Earliest'
  /\ UNCHANGED orders

\* One is created, and the date becomes that of the first plan, or stays: who creates a plan
\* may have in hand a date that others have moved since.
CreatePlan(p) ==
  /\ plans[p].state = "absent"
  /\ \E d \in Days : plans' = [plans EXCEPT ![p] = [state |-> "enabled", due |-> d]]
  /\ date' \in {date, Earliest'}
  /\ UNCHANGED orders

\* An order for its cycle may be opened.
Vacant(p) == p \in Enabled /\ \A o \in DOMAIN orders : orders[o].plan = p => orders[o].status \notin Pending
NewFor(p) == [plan |-> p, status |-> "waiting"]

OpenOrder(p) ==
  /\ p # Free => Vacant(p)
  /\ orders' = Append(orders, NewFor(p))
  /\ UNCHANGED <<plans, date>>

\* A run of the generator: each plan of S gets an order, and its next cycle.
Generate(S) ==
  LET added == DOMAIN orders' \ DOMAIN orders IN
  /\ \A p \in S : Vacant(p)
  /\ plans' = [p \in PlanKeys |-> IF p \in S THEN [plans[p] EXCEPT !.due = @ + 1] ELSE plans[p]]
  /\ DOMAIN orders' = 1..Len(orders') /\ Len(orders') >= Len(orders)
  /\ \A o \in DOMAIN orders : orders'[o] = orders[o]
  /\ {orders'[o] : o \in added} = {NewFor(p) : p \in S}
  /\ \A o, x \in added : o # x => orders'[o] # orders'[x]
  /\ UNCHANGED date

Move(o, from, to) ==
  /\ orders[o].status \in from
  /\ orders' = [orders EXCEPT ![o].status = to]
  /\ UNCHANGED plans

Start(o)    == Move(o, {"waiting"}, "in_progress") /\ UNCHANGED date
Cancel(o)   == Move(o, Pending, "cancelled") /\ UNCHANGED date
Complete(o) == Move(o, {"in_progress"}, "completed")
               /\ date' \in {date, IF Enabled = {} THEN date ELSE Earliest}

BookNext ==
  \/ \E S \in SUBSET PlanKeys : Generate(S)
  \/ \E p \in PlanKeys : ChangePlan(p) \/ CreatePlan(p)
  \/ \E p \in PlanKeys \union {Free} : OpenOrder(p)
  \/ \E o \in DOMAIN orders : Start(o) \/ Cancel(o) \/ Complete(o)

BookSpec == BookInit /\ [][BookNext]_book
=============================================================================
