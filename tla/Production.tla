----------------------------- MODULE Production -----------------------------
(***************************************************************************)
(* features/production: work orders, material picks, reports of operations *)
(* and production receipts.                                                *)
(*                                                                         *)
(* create, pick, complete and the receipt run in a transaction and lock    *)
(* the work order.  release and report have none: each of their statements *)
(* commits alone, so another request, or a crash, fits between any two of  *)
(* them, and an UPDATE only waits for the transactions that hold the row.  *)
(* A missing inventories row cannot be locked: it reads as 0, and what is  *)
(* then written replaces whatever was committed in between.                *)
(***************************************************************************)
EXTENDS AuditTrail, Integers, FiniteSetsExt, Functions

CONSTANTS
    Workers,
    WorkOrders, Receipts,   \* ids
    Items, Warehouses,
    Boms,       \* sequences of bom_items: item and quantity
    Operations, \* number of operations of a work order
    Planned,    \* planned quantities: not restricted, as those of a BOM
    Picks,      \* quantities of a pick line; the request does not restrict them
    MaxLines,   \* bound on the lines of a pick
    Reports,    \* pairs of completed and scrapped quantity
    MaxReports, \* bound on the reports of a work order
    MaxRecords, \* bound on the change records of a work order
    Received,   \* quantities of a receipt
    Opening,    \* the inventories rows there are at the start
    UnitCost    \* current weighted average of each item

Cells == Items \X Warehouses

ProductionAssumption ==
    /\ Boms \subseteq Seq([item: Items, quantity: Int])
    /\ Operations \in Nat /\ Planned \subseteq Int
    /\ Picks \subseteq Int /\ Reports \subseteq Int \X Int /\ Received \subseteq Int
    /\ MaxLines \in Nat \ {0} /\ MaxReports \in Nat /\ MaxRecords \in Nat
    /\ \E S \in SUBSET Cells : Opening \in [S -> Int]
    /\ UnitCost \in [Items -> Int]

VARIABLES
    orders,     \* work_orders with their materials and operations, or Absent
    receipts,   \* production_receipts, or Absent
    stock,      \* inventories.quantity: a function on the cells that have a row
    log,        \* inventory_transactions in the order of commit
    trail,      \* audit_logs of each work order
    txn,        \* the request of each worker, or Idle
    reported    \* the reports added to the operations, in order: for TotalIsPrefix only

vars == <<orders, receipts, stock, log, trail, txn, reported>>

Absent == [row |-> "absent"]
Idle == [op |-> "idle"]
Rows(table) == {d \in DOMAIN table : table[d] # Absent}

\* WorkOrderStatus and WorkOrderOperationStatus; nothing sets InProgress or Closed.
Draft == 0
Released == 1

\* Faulty form of Completed: the terminal status.
CompletedClosed == 4

Completed == 3
Pending == 0
Reported == 2

Snapshot(row) == [status |-> row.status, completed |-> row.completed, scrap |-> row.scrap]

\* The sum of the values of a function.
Total(f) == SumFunctionOnSet(f, DOMAIN f)

Init ==
    /\ orders = [o \in WorkOrders |-> Absent]
    /\ receipts = [r \in Receipts |-> Absent]
    /\ stock = Opening
    /\ log = <<>>
    /\ trail = [o \in WorkOrders |-> <<>>]
    /\ txn = [w \in Workers |-> Idle]
    /\ reported = [o \in WorkOrders |-> <<>>]

-----------------------------------------------------------------------------

\* The BOM is expanded as it is now, whatever its status and wastage rate.
CreateWorkOrder(o) ==
    /\ orders[o] = Absent
    /\ \E bom \in Boms, n \in Planned, item \in Items :
         orders' = [orders EXCEPT ![o] =
           [item |-> item, planned |-> n, completed |-> 0, scrap |-> 0, status |-> Draft,
            materials |-> [k \in DOMAIN bom |->
              [item |-> bom[k].item, required |-> bom[k].quantity * n, picked |-> 0]],
            operations |-> [k \in 1..Operations |->
              [completed |-> 0, scrap |-> 0, status |-> Pending]]]]
    /\ trail' = [trail EXCEPT ![o] =
         RecordCreate(@, [status |-> Draft, completed |-> 0, scrap |-> 0])]
    /\ UNCHANGED <<receipts, stock, log, txn, reported>>

\* Faulty form of Free: the row is read without FOR UPDATE.
FreeWithoutLock(o) == TRUE

\* No transaction holds the row of the work order.
Free(o) == \A v \in Workers :
             txn[v] # Idle => ~(txn[v].ref = o /\ txn[v].op \in {"pick", "complete", "receipt"})

Begin(w, request) ==
    /\ txn[w] = Idle
    /\ txn' = [txn EXCEPT ![w] = request]
    /\ UNCHANGED <<orders, receipts, stock, log, trail, reported>>

Become(w, op) == txn' = [txn EXCEPT ![w].op = op]

Doing(w, op) == txn[w] # Idle /\ txn[w].op = op

-----------------------------------------------------------------------------
(* release: read, check, write, read again, record; no transaction. *)

ReleaseRead(w, o) ==
    /\ o \in Rows(orders) /\ Len(trail[o]) < MaxRecords
    /\ orders[o].status = Draft
    /\ Begin(w, [op |-> "release", ref |-> o, before |-> Snapshot(orders[o])])

ReleaseWrite(w) ==
    /\ Doing(w, "release") /\ Free(txn[w].ref)
    /\ orders' = [orders EXCEPT ![txn[w].ref].status = Released]
    /\ Become(w, "read_after")
    /\ UNCHANGED <<receipts, stock, log, trail, reported>>

ReadAfter(w) ==
    /\ Doing(w, "read_after")
    /\ txn' = [txn EXCEPT ![w] =
         [op |-> "record", ref |-> @.ref, before |-> @.before, after |-> Snapshot(orders[@.ref])]]
    /\ UNCHANGED <<orders, receipts, stock, log, trail, reported>>

Record(w) ==
    /\ Doing(w, "record")
    /\ trail' = [trail EXCEPT ![txn[w].ref] = RecordUpdated(@, txn[w].before, txn[w].after)]
    /\ txn' = [txn EXCEPT ![w] = Idle]
    /\ UNCHANGED <<orders, receipts, stock, log, reported>>

-----------------------------------------------------------------------------
(* report: the status of the work order is not looked at. *)

\* Operation 0 is one the work order does not have: no row is updated.
ReportRead(w, o) ==
    /\ o \in Rows(orders)
    /\ Len(reported[o]) < MaxReports /\ Len(trail[o]) < MaxRecords
    /\ \E k \in 0..Operations, r \in Reports :
         Begin(w, [op |-> "report", ref |-> o, before |-> Snapshot(orders[o]),
                   operation |-> k, report |-> r])

ReportOperation(w) ==
    /\ Doing(w, "report")
    /\ LET t == txn[w]
           found == t.operation \in DOMAIN orders[t.ref].operations
       IN  /\ orders' = IF found
                        THEN [orders EXCEPT ![t.ref].operations[t.operation] =
                               [completed |-> @.completed + t.report[1],
                                scrap |-> @.scrap + t.report[2], status |-> Reported]]
                        ELSE orders
           /\ reported' = IF found THEN [reported EXCEPT ![t.ref] = Append(@, t.report)]
                          ELSE reported
    /\ Become(w, "sum")
    /\ UNCHANGED <<receipts, stock, log, trail>>

\* Faulty form of Totals: the report is added to the totals read at the start.
TotalsAdded(w) ==
    <<txn[w].before.completed + txn[w].report[1], txn[w].before.scrap + txn[w].report[2]>>

Totals(w) ==
    LET ops == orders[txn[w].ref].operations IN
    <<Total([k \in DOMAIN ops |-> ops[k].completed]), Total([k \in DOMAIN ops |-> ops[k].scrap])>>

\* UPDATE work_orders SET completed_qty = (SELECT SUM ...): the sums come from
\* the snapshot of the statement, which may then wait for the row.
ReportSum(w) ==
    /\ Doing(w, "sum")
    /\ txn' = [txn EXCEPT ![w] =
         [op |-> "total", ref |-> @.ref, before |-> @.before, totals |-> Totals(w)]]
    /\ UNCHANGED <<orders, receipts, stock, log, trail, reported>>

ReportTotal(w) ==
    /\ Doing(w, "total") /\ Free(txn[w].ref)
    /\ orders' = [orders EXCEPT ![txn[w].ref].completed = txn[w].totals[1],
                                ![txn[w].ref].scrap = txn[w].totals[2]]
    /\ Become(w, "read_after")
    /\ UNCHANGED <<receipts, stock, log, trail, reported>>

-----------------------------------------------------------------------------
(* pick: every line raises the picked quantity of a material and issues    *)
(* the item that the request names, which nothing compares with the        *)
(* material's.                                                             *)

PickLines == UNION {[1..n -> [material: 1..Max({Len(b) : b \in Boms}), item: Items,
                              warehouse: Warehouses, quantity: Picks]] : n \in 0..MaxLines}

PickLock(w, o) ==
    /\ o \in Rows(orders) /\ Free(o) /\ Len(trail[o]) < MaxRecords
    /\ orders[o].status >= Released
    /\ \E ls \in PickLines :
         Begin(w, [op |-> "pick", ref |-> o, before |-> Snapshot(orders[o]), todo |-> ls,
                   done |-> <<>>, missed |-> {}])

Moved(ls, K) == Total([k \in K |-> ls[k].quantity])

CellOf(l) == <<l.item, l.warehouse>>
OutOf(ls, c) == Moved(ls, {k \in DOMAIN ls : CellOf(ls[k]) = c})
PickedOf(ls, m) == Moved(ls, {k \in DOMAIN ls : ls[k].material = m})

\* Faulty form of NewPicked: the lines replace what was picked before.
PickedReplaced(material, m, done) == PickedOf(done, m)

NewPicked(material, m, done) == material.picked + PickedOf(done, m)
AfterPick(material, m, done) == [material EXCEPT !.picked = NewPicked(material, m, done)]

\* Faulty form of Fits: each line is compared with the requirement on its own.
FitsAlone(material, done, l) == l.quantity <= material.required

Fits(material, done, l) ==
    NewPicked(material, l.material, done) + l.quantity <= material.required

\* InventoryLedger locks the row of the cell until the end of the transaction.
FreeCell(w, c) ==
    \A v \in Workers \ {w} : Doing(v, "pick") => \A k \in DOMAIN txn[v].done : CellOf(txn[v].done[k]) # c

\* read_qty finds no row of cell c: the transaction counts from 0.
Miss(w, c) ==
    /\ c \notin DOMAIN stock \cup txn[w].missed
    /\ txn' = [txn EXCEPT ![w].missed = @ \cup {c}]
    /\ UNCHANGED <<orders, receipts, stock, log, trail, reported>>

\* w has read cell c, or can: what it adds to or takes from there.
Known(w, c) == c \in DOMAIN stock \cup txn[w].missed
Base(w, c) == IF c \in txn[w].missed THEN 0 ELSE stock[c]

\* The checks of a line before the ledger is called.
Allowed(w, l) ==
    LET materials == orders[txn[w].ref].materials IN
    l.material \in DOMAIN materials /\ Fits(materials[l.material], txn[w].done, l)

MissPicked(w) ==
    /\ Doing(w, "pick") /\ txn[w].todo # <<>>
    /\ Allowed(w, Head(txn[w].todo))
    /\ Miss(w, CellOf(Head(txn[w].todo)))

PickLine(w) ==
    /\ Doing(w, "pick") /\ txn[w].todo # <<>>
    /\ LET t == txn[w]
           l == Head(t.todo)
       IN  /\ Allowed(w, l)
           /\ Known(w, CellOf(l)) /\ FreeCell(w, CellOf(l))
           /\ Base(w, CellOf(l)) - OutOf(t.done, CellOf(l)) >= l.quantity
           /\ txn' = [txn EXCEPT ![w].todo = Tail(@), ![w].done = Append(@, l)]
    /\ UNCHANGED <<orders, receipts, stock, log, trail, reported>>

CommitPick(w) ==
    /\ Doing(w, "pick") /\ txn[w].todo = <<>>
    /\ LET t == txn[w] IN
         /\ orders' = [orders EXCEPT ![t.ref].materials =
              [m \in DOMAIN @ |-> AfterPick(@[m], m, t.done)]]
         /\ stock' = [c \in DOMAIN stock \cup {CellOf(t.done[k]) : k \in DOMAIN t.done} |->
                        Base(w, c) - OutOf(t.done, c)]
         /\ log' = log \o [k \in DOMAIN t.done |->
              [type |-> "pick", ref |-> t.ref, cell |-> CellOf(t.done[k]),
               quantity |-> t.done[k].quantity]]
         /\ trail' = [trail EXCEPT ![t.ref] = RecordUpdated(@, t.before, t.before)]
    /\ txn' = [txn EXCEPT ![w] = Idle]
    /\ UNCHANGED <<receipts, reported>>

-----------------------------------------------------------------------------

CompleteLock(w, o) ==
    /\ o \in Rows(orders) /\ Free(o) /\ Len(trail[o]) < MaxRecords
    /\ orders[o].status >= Released /\ orders[o].status < Completed
    /\ Begin(w, [op |-> "complete", ref |-> o, before |-> Snapshot(orders[o])])

CommitComplete(w) ==
    /\ Doing(w, "complete")
    /\ LET o == txn[w].ref IN
         /\ orders' = [orders EXCEPT ![o].status = Completed]
         /\ trail' = [trail EXCEPT ![o] =
              RecordUpdated(@, txn[w].before, [txn[w].before EXCEPT !.status = Completed])]
    /\ txn' = [txn EXCEPT ![w] = Idle]
    /\ UNCHANGED <<receipts, stock, log, reported>>

\* The status is read and not looked at, the quantity compared with nothing.
ReceiptLock(w, r) ==
    /\ receipts[r] = Absent
    /\ \E o \in Rows(orders), h \in Warehouses, n \in Received :
         /\ Free(o)
         /\ Begin(w, [op |-> "receipt", ref |-> o, id |-> r, warehouse |-> h, quantity |-> n,
                      missed |-> {}])

\* The cell that the receipt of w brings goods into.
Into(w) == <<orders[txn[w].ref].item, txn[w].warehouse>>

MissReceived(w) == Doing(w, "receipt") /\ Miss(w, Into(w))

CommitReceipt(w) ==
    /\ Doing(w, "receipt")
    /\ LET t == txn[w]
           c == Into(w)
       IN  /\ receipts[t.id] = Absent
           /\ Known(w, c) /\ FreeCell(w, c)
           /\ receipts' = [receipts EXCEPT ![t.id] =
                [order |-> t.ref, cell |-> c, quantity |-> t.quantity]]
           /\ stock' = [d \in DOMAIN stock \cup {c} |-> IF d = c THEN Base(w, c) + t.quantity ELSE stock[d]]
           /\ log' = Append(log, [type |-> "inbound", ref |-> t.id, cell |-> c,
                                  quantity |-> t.quantity])
    /\ txn' = [txn EXCEPT ![w] = Idle]
    /\ UNCHANGED <<orders, trail, reported>>

\* An error or a crash: a transaction is rolled back, release and report stop
\* where they are.
Abandon(w) ==
    /\ txn[w] # Idle
    /\ txn' = [txn EXCEPT ![w] = Idle]
    /\ UNCHANGED <<orders, receipts, stock, log, trail, reported>>

-----------------------------------------------------------------------------
(* The reads. *)

GetWorkOrder(o) == [work_order |-> Snapshot(orders[o]), materials |-> orders[o].materials,
                    operations |-> orders[o].operations]

MaterialCost(o) ==
    LET ms == orders[o].materials IN
    Total([k \in DOMAIN ms |-> ms[k].picked * UnitCost[ms[k].item]])

Read ==
    /\ \A o \in Rows(orders) :
         GetWorkOrder(o).work_order.status \in Int /\ MaterialCost(o) \in Int
    /\ UNCHANGED vars

Next ==
    \/ \E o \in WorkOrders : CreateWorkOrder(o)
    \/ \E w \in Workers :
         \/ \E o \in WorkOrders :
              ReleaseRead(w, o) \/ ReportRead(w, o) \/ PickLock(w, o) \/ CompleteLock(w, o)
         \/ \E r \in Receipts : ReceiptLock(w, r)
         \/ ReleaseWrite(w) \/ ReadAfter(w) \/ Record(w)
         \/ ReportOperation(w) \/ ReportSum(w) \/ ReportTotal(w)
         \/ MissPicked(w) \/ PickLine(w) \/ CommitPick(w) \/ CommitComplete(w)
         \/ MissReceived(w) \/ CommitReceipt(w)
         \/ Abandon(w)
    \/ Read

Spec == Init /\ [][Next]_vars

-----------------------------------------------------------------------------
(* Properties. *)

\* Type correctness of work orders, stock, ledger and requests.
TypeOK ==
    /\ \A o \in Rows(orders) :
         /\ Snapshot(orders[o]) \in [status: 0..3, completed: Int, scrap: Int]
         /\ orders[o].operations \in
              [1..Operations -> [completed: Int, scrap: Int, status: {Pending, Reported}]]
         /\ orders[o].materials \in Seq([item: Items, required: Int, picked: Int])
    /\ DOMAIN stock \subseteq Cells /\ \A c \in DOMAIN stock : stock[c] \in Int
    /\ log \in Seq([type: {"pick", "inbound"}, ref: WorkOrders \cup Receipts, cell: Cells,
                    quantity: Int])
    /\ \A w \in Workers : txn[w] # Idle =>
         /\ txn[w].op \in {"release", "report", "sum", "total", "read_after", "record", "pick",
                           "complete", "receipt"}
         /\ txn[w].ref \in Rows(orders)

\* Whatever picks, receipts and releases run together, the quantities that
\* the ledger issued for a work order add up to what its materials show as
\* picked, and a row of inventories that was there from the start is what
\* the ledger says.  (First movements of a cell without a row overwrite each
\* other: InventoryLedger.)
PickedWasIssued ==
    /\ \A o \in Rows(orders) :
         LET ms == GetWorkOrder(o).materials IN
         Total([k \in DOMAIN ms |-> ms[k].picked])
           = Moved(log, {k \in DOMAIN log : log[k].type = "pick" /\ log[k].ref = o})
    /\ \A c \in DOMAIN Opening :
         stock[c] = Opening[c] + Moved(log, {k \in DOMAIN log : log[k].type = "inbound" /\ log[k].cell = c})
                               - Moved(log, {k \in DOMAIN log : log[k].type = "pick" /\ log[k].cell = c})

\* However many picks a work order has, in one request or in several at the
\* same time, no material is picked beyond what the BOM asked for (nothing,
\* when it asks for a negative quantity), and where no unit cost is negative
\* the material cost stays within that plan.
CostWithinPlan ==
    \A o \in Rows(orders) :
      LET ms == orders[o].materials
          plan == [k \in DOMAIN ms |-> Max({0, ms[k].required})]
      IN  /\ \A k \in DOMAIN ms : ms[k].picked <= plan[k]
          /\ (\A k \in DOMAIN ms : UnitCost[ms[k].item] >= 0)
               => MaterialCost(o) <= Total([k \in DOMAIN ms |-> plan[k] * UnitCost[ms[k].item]])

\* The totals of a work order are those of its operations at one moment,
\* after some first reports and before the others: concurrent reports and
\* crashes may leave them behind, they never mix or lose a report in between.
TotalIsPrefix ==
    \A o \in Rows(orders) :
      \E n \in 0..Len(reported[o]) :
        /\ orders[o].completed = Total([k \in 1..n |-> reported[o][k][1]])
        /\ orders[o].scrap = Total([k \in 1..n |-> reported[o][k][2]])

\* A work order that is completed is not completed again.
CompletedOnce ==
    \A o \in WorkOrders :
      Cardinality({k \in DOMAIN trail[o] :
        /\ trail[o][k].action = "updated"
        /\ trail[o][k].before.status # Completed
        /\ trail[o][k].after.status = Completed}) <= 1

\* When no request on a work order is running, its last change record shows
\* it as it is: the record commits with the change.
ChangesRecorded ==
    \A o \in Rows(orders) :
      (\A w \in Workers : txn[w] # Idle => txn[w].ref # o)
        => UpToDate(trail[o], Snapshot(orders[o]))

\* Nothing is reported for a work order that was not released.
DraftUnreported ==
    \A o \in Rows(orders) : orders[o].status = Draft => reported[o] = <<>>
=============================================================================
