------------------------------ MODULE Planning ------------------------------
(***************************************************************************)
(* features/product (bills of material and molds) and features/planning:   *)
(* the reorder alerts, the purchase suggestions and the MRP run, which are *)
(* queries over the rows of items, BOMs, sales, purchases and stock.       *)
(*                                                                         *)
(* Sales, purchases and stock are modelled in modules of their own; here   *)
(* they change as far as the queries see it: a line appears, its remaining *)
(* quantity changes, goods move into and out of one warehouse whose        *)
(* inventories rows exist.                                                 *)
(***************************************************************************)
EXTENDS AuditTrail, Integers, FiniteSetsExt, Functions

CONSTANTS
    Workers,
    Items,
    Boms, Molds, SalesLines, PurchaseLines, \* ids
    MaxLines,       \* bound on the lines of a BOM
    Quantities,     \* quantities of lines: no request restricts them
    MaxQuantity,    \* bound on what is moved on a line, and on the stock
    Purchased,      \* items of type Purchased
    SafetyStock, ReorderPoint,  \* the settings of each item
    Opening         \* its stock at the start

PlanningAssumption ==
    /\ MaxLines \in Nat /\ Quantities \subseteq Int /\ MaxQuantity \in Nat
    /\ Purchased \subseteq Items /\ Boms \cap Molds = {}
    /\ SafetyStock \in [Items -> Int] /\ ReorderPoint \in [Items -> Int]
    /\ Opening \in [Items -> Int]

VARIABLES
    boms,       \* boms with their bom_items, or Absent
    molds,      \* molds, or Absent
    sales,      \* sales_order_lines, or Absent
    purchases,  \* purchase_order_lines with the status of their order, or Absent
    stock,      \* inventories.quantity summed over the warehouses
    active,     \* items.is_active
    trail,      \* audit_logs of each BOM and mold
    txn         \* the request of each worker, or Idle

vars == <<boms, molds, sales, purchases, stock, active, trail, txn>>
world == <<sales, purchases, stock, active>>

Absent == [row |-> "absent"]
Idle == [op |-> "idle"]
Rows(table) == {d \in DOMAIN table : table[d] # Absent}

Draft == 0
Released == 1 \* BOM_RELEASED; nothing sets Obsolete

Total(f) == SumFunctionOnSet(f, DOMAIN f)

Init ==
    /\ boms = [b \in Boms |-> Absent]
    /\ molds = [d \in Molds |-> Absent]
    /\ sales = [l \in SalesLines |-> Absent]
    /\ purchases = [l \in PurchaseLines |-> Absent]
    /\ stock = Opening
    /\ active = [i \in Items |-> TRUE]
    /\ trail = [d \in Boms \cup Molds |-> <<>>]
    /\ txn = [w \in Workers |-> Idle]

-----------------------------------------------------------------------------
(* features/product. *)

BomSnapshot(row) == [item |-> row.item, status |-> row.status]

CreateBom(b) ==
    /\ boms[b] = Absent
    /\ \E item \in Items, n \in 0..MaxLines :
       \E ls \in [1..n -> [item: Items, quantity: Quantities]] :
         /\ boms' = [boms EXCEPT ![b] = [item |-> item, status |-> Draft, lines |-> ls]]
         /\ trail' = [trail EXCEPT ![b] = RecordCreate(@, [item |-> item, status |-> Draft])]
    /\ UNCHANGED <<molds, txn, world>>

\* Faulty form of FreeBom: the BOM is read without FOR UPDATE.
FreeWithoutLock(b) == TRUE

FreeBom(b) == \A v \in Workers : txn[v] # Idle => txn[v].ref # b

ReleaseLock(w, b) ==
    /\ txn[w] = Idle
    /\ b \in Rows(boms) /\ FreeBom(b)
    /\ boms[b].status = Draft
    /\ txn' = [txn EXCEPT ![w] = [op |-> "release", ref |-> b, before |-> BomSnapshot(boms[b])]]
    /\ UNCHANGED <<boms, molds, trail, world>>

CommitRelease(w) ==
    /\ txn[w] # Idle /\ txn[w].op = "release"
    /\ LET b == txn[w].ref IN
         /\ boms' = [boms EXCEPT ![b].status = Released]
         /\ trail' = [trail EXCEPT ![b] =
              RecordUpdated(@, txn[w].before, [txn[w].before EXCEPT !.status = Released])]
    /\ txn' = [txn EXCEPT ![w] = Idle]
    /\ UNCHANGED <<molds, world>>

\* The INSERT of a mold commits alone; its change record follows.
InsertMold(w, d) ==
    /\ txn[w] = Idle /\ molds[d] = Absent
    /\ \E item \in Items : molds' = [molds EXCEPT ![d] = [item |-> item]]
    /\ txn' = [txn EXCEPT ![w] = [op |-> "mold", ref |-> d]]
    /\ UNCHANGED <<boms, trail, world>>

RecordMold(w) ==
    /\ txn[w] # Idle /\ txn[w].op = "mold"
    /\ trail' = [trail EXCEPT ![txn[w].ref] = RecordCreate(@, molds[txn[w].ref])]
    /\ txn' = [txn EXCEPT ![w] = Idle]
    /\ UNCHANGED <<boms, molds, world>>

\* An error or a crash.
Abandon(w) ==
    /\ txn[w] # Idle
    /\ txn' = [txn EXCEPT ![w] = Idle]
    /\ UNCHANGED <<boms, molds, trail, world>>

GetBom(b) == boms[b]
GetMold(d) == molds[d]

-----------------------------------------------------------------------------
(* What the queries read. *)

Bounded(n) == n \in -MaxQuantity..MaxQuantity

Sell(l) ==
    /\ sales[l] = Absent
    /\ \E item \in Items, n \in Quantities :
         sales' = [sales EXCEPT ![l] = [item |-> item, quantity |-> n, delivered |-> 0, closed |-> FALSE]]
    /\ UNCHANGED <<boms, molds, trail, txn, purchases, stock, active>>

\* A delivery of a line: the request names the item that leaves; a line that
\* is closed may be delivered back, which opens it.
Deliver(l, item) ==
    /\ l \in Rows(sales)
    /\ \E n \in Quantities :
         LET sum == sales[l].delivered + n IN
         /\ sum <= sales[l].quantity /\ stock[item] >= n
         /\ Bounded(sum) /\ Bounded(stock[item] - n)
         /\ sales' = [sales EXCEPT ![l].delivered = sum, ![l].closed = (sum >= sales[l].quantity)]
         /\ stock' = [stock EXCEPT ![item] = @ - n]
    /\ UNCHANGED <<boms, molds, trail, txn, purchases, active>>

Order(l) ==
    /\ purchases[l] = Absent
    /\ \E item \in Items, n \in Quantities :
         purchases' = [purchases EXCEPT ![l] =
           [item |-> item, quantity |-> n, received |-> 0, approved |-> FALSE]]
    /\ UNCHANGED <<boms, molds, trail, txn, sales, stock, active>>

Approve(l) ==
    /\ l \in Rows(purchases) /\ ~purchases[l].approved
    /\ purchases' = [purchases EXCEPT ![l].approved = TRUE]
    /\ UNCHANGED <<boms, molds, trail, txn, sales, stock, active>>

\* Faulty form of Receive: the ordered quantity is no limit.
ReceiveOver(l, item) ==
    /\ l \in Rows(purchases) /\ purchases[l].approved
    /\ \E n \in Quantities :
         /\ Bounded(purchases[l].received + n) /\ Bounded(stock[item] + n)
         /\ purchases' = [purchases EXCEPT ![l].received = @ + n]
         /\ stock' = [stock EXCEPT ![item] = @ + n]
    /\ UNCHANGED <<boms, molds, trail, txn, sales, active>>

\* The request names the item that comes in.
Receive(l, item) ==
    /\ l \in Rows(purchases) /\ purchases[l].approved
    /\ \E n \in Quantities :
         /\ purchases[l].received + n <= purchases[l].quantity
         /\ Bounded(purchases[l].received + n) /\ Bounded(stock[item] + n)
         /\ purchases' = [purchases EXCEPT ![l].received = @ + n]
         /\ stock' = [stock EXCEPT ![item] = @ + n]
    /\ UNCHANGED <<boms, molds, trail, txn, sales, active>>

SetActive(i) ==
    /\ active' = [active EXCEPT ![i] = ~@]
    /\ UNCHANGED <<boms, molds, trail, txn, sales, purchases, stock>>

-----------------------------------------------------------------------------
(* PlanningPort. *)

OpenPurchase(l) == purchases[l].approved /\ purchases[l].quantity > purchases[l].received

\* Faulty form of InTransit: what was ordered, received or not.
InTransitOrdered(i) ==
    Total([l \in {p \in Rows(purchases) : OpenPurchase(p) /\ purchases[p].item = i} |->
             purchases[l].quantity])

InTransit(i) ==
    Total([l \in {p \in Rows(purchases) : OpenPurchase(p) /\ purchases[p].item = i} |->
             purchases[l].quantity - purchases[l].received])

StockAndTransit ==
    [i \in {j \in Items : active[j]} |-> [stock |-> stock[i], transit |-> InTransit(i)]]

\* Faulty form of Exploded: drafts count as well.
ExplodedDrafts == {e \in Rows(sales) \X Rows(boms) :
                     ~sales[e[1]].closed /\ boms[e[2]].item = sales[e[1]].item}

\* The join of open sales lines with the released BOMs of their item: the
\* status of the sales order, what is already delivered, and how many BOMs
\* an item has make no difference.
Exploded == {e \in Rows(sales) \X Rows(boms) :
               /\ ~sales[e[1]].closed
               /\ boms[e[2]].item = sales[e[1]].item /\ boms[e[2]].status = Released}

\* The rows of demand for a raw item: one per open line, BOM and BOM line.
Needs(i) == {x \in Exploded \X (1..MaxLines) :
               x[2] \in DOMAIN boms[x[1][2]].lines /\ boms[x[1][2]].lines[x[2]].item = i}

GrossDemand(i) ==
    Total([x \in Needs(i) |-> sales[x[1][1]].quantity * boms[x[1][2]].lines[x[2]].quantity])

NetDemand(i) == Max({0, GrossDemand(i) - stock[i] - InTransit(i)})

\* Faulty form of Suggested: the safety stock only when there is no demand.
SuggestedOne(i) == IF NetDemand(i) > 0 THEN NetDemand(i) ELSE SafetyStock[i]

Suggested(i) == NetDemand(i) + SafetyStock[i]

\* The rows that mrp_calculate returns; items.is_active is not looked at.
MrpItems == {i \in Items : Needs(i) # {} \/ SafetyStock[i] > stock[i] + InTransit(i)}

MrpCalculate == [i \in MrpItems |->
    [gross |-> GrossDemand(i), stock |-> stock[i], transit |-> InTransit(i),
     net |-> NetDemand(i), suggested |-> Suggested(i)]]

PurchaseSuggestions ==
    LET aggs == StockAndTransit
        short(i) == SafetyStock[i] - aggs[i].stock - aggs[i].transit
    IN  [i \in {j \in DOMAIN aggs \cap Purchased : SafetyStock[j] > 0 /\ short(j) > 0} |-> short(i)]

ReorderAlerts ==
    LET aggs == StockAndTransit IN
    [i \in {j \in DOMAIN aggs : ReorderPoint[j] > 0 /\ aggs[j].stock < ReorderPoint[j]} |->
       ReorderPoint[i] - aggs[i].stock]

Read ==
    /\ \A b \in Rows(boms) : GetBom(b).status \in {Draft, Released}
    /\ \A d \in Rows(molds) : GetMold(d) # Absent
    /\ UNCHANGED vars

Next ==
    \/ \E b \in Boms : CreateBom(b)
    \/ \E w \in Workers :
         \/ \E b \in Boms : ReleaseLock(w, b)
         \/ \E d \in Molds : InsertMold(w, d)
         \/ CommitRelease(w) \/ RecordMold(w) \/ Abandon(w)
    \/ \E l \in SalesLines : Sell(l) \/ (\E i \in Items : Deliver(l, i))
    \/ \E l \in PurchaseLines : Order(l) \/ Approve(l) \/ (\E i \in Items : Receive(l, i))
    \/ \E i \in Items : SetActive(i)
    \/ Read

Spec == Init /\ [][Next]_vars

-----------------------------------------------------------------------------
(* Properties. *)

\* Type correctness of BOMs, lines and plans.
TypeOK ==
    /\ \A b \in Rows(boms) : BomSnapshot(boms[b]) \in [item: Items, status: {Draft, Released}]
    /\ \A l \in Rows(purchases) :
         purchases[l].received \in Int /\ purchases[l].received <= Max({0, purchases[l].quantity})
    /\ \A l \in Rows(sales) :
         sales[l].delivered \in Int /\ sales[l].delivered <= Max({0, sales[l].quantity})
    /\ stock \in [Items -> Int]
    /\ \A i \in DOMAIN MrpCalculate : MrpCalculate[i].net \in Nat /\ MrpCalculate[i].suggested \in Int

\* An item with what it has, what is coming and what MRP suggests meets its
\* demand and keeps its safety stock; one that MRP leaves out needs nothing.
\* Unless demand and supply are both negative, neither the purchase
\* suggestions nor, for an item with nothing coming and a reorder point
\* within its safety stock, the alerts ask for more.
MrpCovers ==
    \A i \in Items :
      LET mrp == IF i \in DOMAIN MrpCalculate THEN MrpCalculate[i].suggested ELSE 0 IN
      /\ stock[i] + InTransit(i) + mrp >= GrossDemand(i) + SafetyStock[i]
      /\ GrossDemand(i) >= 0 \/ stock[i] + InTransit(i) >= 0 =>
           /\ i \in DOMAIN PurchaseSuggestions => PurchaseSuggestions[i] <= mrp
           /\ i \in DOMAIN ReorderAlerts /\ ReorderPoint[i] <= SafetyStock[i] /\ InTransit(i) = 0
                => ReorderAlerts[i] <= mrp

\* A receipt of the ordered item moves its quantity from transit to stock,
\* also one that corrects another: no plan for it changes, and a line that
\* is fully received is out of it.  (A line of a negative quantity is in no
\* plan before its first receipt.)
PlanKept ==
    \A l \in PurchaseLines :
      l \in Rows(purchases) /\ purchases[l].received <= purchases[l].quantity
        /\ Receive(l, purchases[l].item) =>
        LET i == purchases[l].item IN
        /\ stock'[i] + InTransit(i)' = stock[i] + InTransit(i)
        /\ NetDemand(i)' = NetDemand(i) /\ (i \in MrpItems' <=> i \in MrpItems)
ReceiptKeepsPlan == [][PlanKept]_vars

\* Only a release makes a BOM count: creating a draft changes no demand, and
\* a release raises that of its materials by what its open sales lines ask.
OpenSales(item) == {l \in Rows(sales) : ~sales[l].closed /\ sales[l].item = item}
LinesFor(b, i) == {k \in DOMAIN boms[b].lines : boms[b].lines[k].item = i}
Asked(b, i) == Total([k \in LinesFor(b, i) |-> boms[b].lines[k].quantity])
                 * Total([l \in OpenSales(boms[b].item) |-> sales[l].quantity])
DemandReleased ==
    \A b \in Boms :
      boms'[b] # boms[b] =>
        \A i \in Items : GrossDemand(i)' - GrossDemand(i)
                           = IF boms'[b].status = Released THEN Asked(b, i)' ELSE 0
ReleaseMakesDemand == [][DemandReleased]_vars

\* A BOM is released once and stays so, and its records show just that.
BomHistory ==
    \A b \in Rows(boms) : Chained(trail[b]) /\ UpToDate(trail[b], BomSnapshot(boms[b]))

\* MRP plans the items that the other planning queries plan.
MrpPlansActive == \A i \in DOMAIN MrpCalculate : i \in DOMAIN StockAndTransit
=============================================================================
