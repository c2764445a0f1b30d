------------------------------ MODULE Purchase ------------------------------
(***************************************************************************)
(* features/purchase: orders with their approval flow, receipts, returns   *)
(* and invoices.                                                           *)
(*                                                                         *)
(* A worker's transaction first locks the document row (SELECT ... FOR     *)
(* UPDATE) and keeps what it read in txn; it writes and commits in a later *)
(* step, or rolls back.  Nothing it writes is visible before the commit.   *)
(* A receipt works through its lines one by one: each takes the lock of    *)
(* its inventories row and keeps it.  A missing row cannot be locked: it   *)
(* reads as 0, and what is then written replaces whatever was committed    *)
(* in between.                                                             *)
(***************************************************************************)
EXTENDS Approval, AuditTrail, FiniteSets, Functions

CONSTANTS
    Workers,
    Orders, Receipts, Returns, Invoices, \* document ids
    Items, Warehouses,
    MaxLines,       \* bound on the lines of a document
    Quantities,     \* quantities of an order line
    Moves,          \* quantities of a receipt or return line
    Opening         \* the inventories rows there are at the start

Places == Items \X Warehouses

PurchaseAssumption ==
    /\ Quantities \subseteq Int /\ Moves \subseteq Int
    /\ MaxLines \in Nat \ {0}
    /\ \E S \in SUBSET Places : Opening \in [S -> Int]
    /\ Orders \cap Returns = {}    \* ids are unique

VARIABLES
    orders, receipts, returns, invoices, \* committed rows, or Absent
    stock,      \* inventories.quantity: a function on the places that have a row
    trail,      \* audit_logs of each order and each return
    txn         \* the transaction of each worker, or Idle

vars == <<orders, receipts, returns, invoices, stock, trail, txn>>

Absent == [row |-> "absent"]
Idle == [op |-> "idle"]

OrderLine == [item: Items, quantity: Int, received: Int, returned: Int, closed: BOOLEAN]
ReceiptLine == [line: 1..MaxLines, item: Items, warehouse: Warehouses, quantity: Int]
ReturnLine == [receipt: Receipts, line: Nat \ {0}, item: Items, quantity: Int]
Lines(S) == UNION {[1..n -> S] : n \in 1..MaxLines}

PO_FLOW ==
    [submit |-> <<Draft, Submitted>>,
     approvals |-> << <<Submitted, PendingSupervisor>>, <<PendingSupervisor, Approved>> >>,
     reject |-> {Submitted, PendingSupervisor}]

RET_FLOW ==
    [submit |-> <<Draft, Submitted>>,
     approvals |-> << <<Submitted, Approved>> >>,
     reject |-> {}]

Rows(table) == {d \in DOMAIN table : table[d] # Absent}

\* The audited part of an order or a return: its own row, not its lines.
Snapshot(row) == [status |-> row.status]
DraftRow == [status |-> Draft]

Init ==
    /\ orders = [o \in Orders |-> Absent]
    /\ receipts = [r \in Receipts |-> Absent]
    /\ returns = [t \in Returns |-> Absent]
    /\ invoices = [i \in Invoices |-> Absent]
    /\ stock = Opening
    /\ trail = [d \in Orders \cup Returns |-> <<>>]
    /\ txn = [w \in Workers |-> Idle]

-----------------------------------------------------------------------------
(* Orders. *)

\* An order needs a line; it is created as a draft.
CreateOrder(o) ==
    /\ orders[o] = Absent
    /\ \E ls \in Lines([item: Items, quantity: Quantities]) :
         orders' = [orders EXCEPT ![o] =
           [status |-> Draft,
            lines |-> [n \in DOMAIN ls |->
                        [item |-> ls[n].item, quantity |-> ls[n].quantity,
                         received |-> 0, returned |-> 0, closed |-> FALSE]]]]
    /\ trail' = [trail EXCEPT ![o] = RecordCreate(@, DraftRow)]
    /\ UNCHANGED <<receipts, returns, invoices, stock, txn>>

\* Faulty form of Free: a plain SELECT, which waits for nobody.
FreeWithoutLock(d) == TRUE

\* FOR UPDATE: the row is granted once no other transaction holds it.
Free(d) == \A v \in Workers : txn[v].op # "idle" => txn[v].doc # d

Lock(w, op, d, row) ==
    /\ txn[w] = Idle
    /\ row # Absent
    /\ Free(d)
    /\ txn' = [txn EXCEPT ![w] = [op |-> op, doc |-> d, before |-> Snapshot(row),
                                   todo |-> <<>>, done |-> <<>>, missed |-> {}]]
    /\ UNCHANGED <<orders, receipts, returns, invoices, stock, trail>>

OrderOps == {"submit", "approve", "reject", "delete", "receive"}
LockOrder(w, o) == \E op \in OrderOps : Lock(w, op, o, orders[o])

End(w) == txn' = [txn EXCEPT ![w] = Idle]

\* submit, approve and reject differ in the status they compute.
Transition(w, op, new) ==
    /\ txn[w].op = op
    /\ LET o == txn[w].doc
       IN  /\ new # Invalid
           /\ orders' = [orders EXCEPT ![o].status = new]
           /\ trail' = [trail EXCEPT ![o] = RecordUpdated(@, txn[w].before, [status |-> new])]
    /\ End(w)
    /\ UNCHANGED <<receipts, returns, invoices, stock>>

SubmitOrder(w) == Transition(w, "submit", SubmitStatus(PO_FLOW, txn[w].before.status))
ApproveOrder(w) == Transition(w, "approve", ApproveStatus(PO_FLOW, txn[w].before.status))

\* Faulty form of RejectOrder: an approved order may be rejected.
RejectAnyOrder(w) ==
    Transition(w, "reject", IF txn[w].before.status = Deleted THEN Invalid ELSE Rejected)
RejectOrder(w) == Transition(w, "reject", RejectStatus(PO_FLOW, txn[w].before.status))

\* A soft delete: the row stays, with a status of its own.
DeleteOrder(w) ==
    /\ txn[w].op = "delete" /\ txn[w].before.status = Draft
    /\ orders' = [orders EXCEPT ![txn[w].doc].status = Deleted]
    /\ trail' = [trail EXCEPT ![txn[w].doc] = RecordDeleted(@, txn[w].before)]
    /\ End(w)
    /\ UNCHANGED <<receipts, returns, invoices, stock>>

\* An error, or a failure of the process: the transaction rolls back.
Rollback(w) ==
    /\ txn[w] # Idle
    /\ End(w)
    /\ UNCHANGED <<orders, receipts, returns, invoices, stock, trail>>

-----------------------------------------------------------------------------
(* Receipts. *)

\* What the lines in K of a document move, and those of its lines that name
\* order line n or the place p.
Moved(ls, K) == SumFunctionOnSet([j \in K |-> ls[j].quantity], K)
OnLine(ls, n) == {j \in DOMAIN ls : ls[j].line = n}
AtPlace(ls, p) == {j \in DOMAIN ls : <<ls[j].item, ls[j].warehouse>> = p}

\* The request may have no line; the item of a line is the request's.
StartReceipt(w) ==
    /\ txn[w].op = "receive" /\ txn[w].before.status = Approved
    /\ \E ls \in {<<>>} \cup Lines([line: DOMAIN orders[txn[w].doc].lines, item: Items,
                                   warehouse: Warehouses, quantity: Moves]) :
         txn' = [txn EXCEPT ![w].op = "lines", ![w].todo = ls]
    /\ UNCHANGED <<orders, receipts, returns, invoices, stock, trail>>

\* Faulty form of Within: the lines before this one are forgotten.
WithinAlone(w, l) ==
    LET ol == orders[txn[w].doc].lines[l.line] IN ol.received + l.quantity <= ol.quantity

\* The over-receipt check of a line, after the lines before it.
Within(w, l) ==
    LET ol == orders[txn[w].doc].lines[l.line]
        done == txn[w].done
    IN  ol.received + Moved(done, OnLine(done, l.line)) + l.quantity <= ol.quantity

\* read_qty finds no row at place p: the transaction counts from 0.
Miss(w, p) ==
    /\ p \notin DOMAIN stock \cup txn[w].missed
    /\ txn' = [txn EXCEPT ![w].missed = @ \cup {p}]
    /\ UNCHANGED <<orders, receipts, returns, invoices, stock, trail>>

\* w has read place p, or can; and no other transaction has written it.
Known(w, p) == p \in DOMAIN stock \cup txn[w].missed
Holds(v, p) == txn[v].op = "lines" /\ AtPlace(txn[v].done, p) # {}
FreePlace(w, p) == \A v \in Workers \ {w} : ~ Holds(v, p)

\* What w adds to or takes from at place p; while it holds a row, nobody
\* else changes it.
Base(w, p) == IF p \in txn[w].missed THEN 0 ELSE stock[p]

Place(l) == <<l.item, l.warehouse>>

MissReceived(w) ==
    /\ txn[w].op = "lines" /\ txn[w].todo # <<>>
    /\ Within(w, Head(txn[w].todo))
    /\ Miss(w, Place(Head(txn[w].todo)))

\* One line: the over-receipt check, then InventoryLedger::receive.
ReceiveLine(w) ==
    /\ txn[w].op = "lines" /\ txn[w].todo # <<>>
    /\ LET l == Head(txn[w].todo) IN
         /\ Within(w, l)
         /\ Known(w, Place(l)) /\ FreePlace(w, Place(l))
         /\ txn' = [txn EXCEPT ![w].todo = Tail(@), ![w].done = Append(@, l)]
    /\ UNCHANGED <<orders, receipts, returns, invoices, stock, trail>>

\* Line n of the order once the receipt lines that name it are posted.
AfterReceipt(l, n, ls) ==
    LET got == l.received + Moved(ls, OnLine(ls, n)) IN
    IF OnLine(ls, n) = {} THEN l
    ELSE [l EXCEPT !.received = got, !.closed = (got >= l.quantity)]

CommitReceipt(w, r) ==
    /\ txn[w].op = "lines" /\ txn[w].todo = <<>>
    /\ receipts[r] = Absent
    /\ LET o == txn[w].doc  ls == txn[w].done IN
         /\ receipts' = [receipts EXCEPT ![r] = [order |-> o, lines |-> ls]]
         /\ orders' = [orders EXCEPT ![o].lines =
                         [n \in DOMAIN @ |-> AfterReceipt(@[n], n, ls)]]
         /\ stock' = [p \in DOMAIN stock \cup {Place(ls[k]) : k \in DOMAIN ls} |->
                         Base(w, p) + Moved(ls, AtPlace(ls, p))]
    /\ End(w)
    /\ UNCHANGED <<returns, invoices, trail>>

-----------------------------------------------------------------------------
(* Returns and invoices. *)

\* The order must exist, the receipt lines too (foreign key); neither the
\* quantity nor the order of the receipt line is checked.  One line: the
\* lines of a return are independent of each other.
CreateReturn(t) ==
    /\ returns[t] = Absent
    /\ \E o \in Rows(orders), r \in Rows(receipts), i \in Items, q \in Moves :
         \E n \in DOMAIN receipts[r].lines :
           returns' = [returns EXCEPT ![t] =
             [order |-> o, status |-> Draft,
              lines |-> <<[receipt |-> r, line |-> n, item |-> i, quantity |-> q]>>]]
    /\ trail' = [trail EXCEPT ![t] = RecordCreate(@, DraftRow)]
    /\ UNCHANGED <<orders, receipts, invoices, stock, txn>>

LockReturn(w, t) == \E op \in {"submit_return", "approve_return"} : Lock(w, op, t, returns[t])

\* submit_execute writes no change record.
SubmitReturn(w) ==
    /\ txn[w].op = "submit_return"
    /\ LET new == SubmitStatus(RET_FLOW, txn[w].before.status) IN
         /\ new # Invalid
         /\ returns' = [returns EXCEPT ![txn[w].doc].status = new]
    /\ End(w)
    /\ UNCHANGED <<orders, receipts, invoices, stock, trail>>

\* The receipt line that a return line joins: its warehouse and order line.
Source(l) == receipts[l.receipt].lines[l.line]
Returned(ls, o, n) ==
    Moved(ls, {j \in DOMAIN ls : receipts[ls[j].receipt].order = o /\ Source(ls[j]).line = n})
Origin(l) == <<l.item, Source(l).warehouse>>
Issued(ls, p) == Moved(ls, {j \in DOMAIN ls : Origin(ls[j]) = p})

\* Line l of an order once a return of that many is posted.
AfterReturn(l, many) == [l EXCEPT !.returned = @ + many]

MissReturned(w) ==
    /\ txn[w].op = "approve_return"
    /\ ApproveStatus(RET_FLOW, txn[w].before.status) # Invalid
    /\ LET ls == returns[txn[w].doc].lines IN \E k \in DOMAIN ls : Miss(w, Origin(ls[k]))

\* force_issue takes the goods out even below zero; the order line counts
\* them as returned.
ApproveReturn(w) ==
    /\ txn[w].op = "approve_return"
    /\ LET t == txn[w].doc
           new == ApproveStatus(RET_FLOW, txn[w].before.status)
           ls == returns[t].lines
       IN  /\ new # Invalid
           /\ \A k \in DOMAIN ls : Known(w, Origin(ls[k])) /\ FreePlace(w, Origin(ls[k]))
           /\ returns' = [returns EXCEPT ![t].status = new]
           /\ trail' = [trail EXCEPT ![t] = RecordUpdated(@, txn[w].before, [status |-> new])]
           /\ stock' = [p \in DOMAIN stock \cup {Origin(ls[k]) : k \in DOMAIN ls} |->
                           Base(w, p) - Issued(ls, p)]
           /\ orders' = [o \in Orders |->
                IF orders[o] = Absent THEN Absent
                ELSE [orders[o] EXCEPT !.lines =
                        [n \in DOMAIN @ |-> AfterReturn(@[n], Returned(ls, o, n))]]]
    /\ End(w)
    /\ UNCHANGED <<receipts, invoices>>

\* Any order that exists can be invoiced, whatever its status.
CreateInvoice(i) ==
    /\ invoices[i] = Absent
    /\ \E o \in Rows(orders) : invoices' = [invoices EXCEPT ![i] = [order |-> o]]
    /\ UNCHANGED <<orders, receipts, returns, stock, trail, txn>>

-----------------------------------------------------------------------------
(* The read side: what a client sees of the committed rows. *)
GetOrder(o) == orders[o]
GetReceipt(r) == receipts[r]
GetReturn(t) == returns[t]
GetInvoice(i) == invoices[i]
SearchOrders(statuses) == {o \in Rows(orders) : orders[o].status \in statuses}

Read ==
    /\ \/ \E o \in Orders : GetOrder(o) # Absent
       \/ SearchOrders(Status) # {}
    /\ UNCHANGED vars

Next ==
    \/ \E o \in Orders : CreateOrder(o)
    \/ \E w \in Workers :
         \/ \E o \in Orders : LockOrder(w, o)
         \/ \E t \in Returns : LockReturn(w, t)
         \/ SubmitOrder(w) \/ ApproveOrder(w) \/ RejectOrder(w) \/ DeleteOrder(w)
         \/ StartReceipt(w) \/ MissReceived(w) \/ ReceiveLine(w)
         \/ \E r \in Receipts : CommitReceipt(w, r)
         \/ SubmitReturn(w) \/ MissReturned(w) \/ ApproveReturn(w) \/ Rollback(w)
    \/ \E t \in Returns : CreateReturn(t)
    \/ \E i \in Invoices : CreateInvoice(i)
    \/ Read

Spec == Init /\ [][Next]_vars

-----------------------------------------------------------------------------
(* Properties. *)

\* Type correctness of the purchase tables and of the open transactions.
TypeOK ==
    /\ \A o \in Rows(orders) :
         orders[o].status \in Status /\ orders[o].lines \in Seq(OrderLine)
    /\ \A r \in Rows(receipts) :
         receipts[r].order \in Orders /\ receipts[r].lines \in Seq(ReceiptLine)
    /\ \A t \in Rows(returns) :
         /\ returns[t].order \in Orders /\ returns[t].status \in Status
         /\ returns[t].lines \in Seq(ReturnLine)
    /\ \A i \in Rows(invoices) : invoices[i].order \in Orders
    /\ DOMAIN stock \subseteq Places /\ \A p \in DOMAIN stock : stock[p] \in Int
    /\ \A w \in Workers : txn[w] = Idle \/
         txn[w] \in [op: OrderOps \cup {"lines", "submit_return", "approve_return"},
                     doc: Orders \cup Returns, before: [status: Status],
                     todo: Seq(ReceiptLine), done: Seq(ReceiptLine), missed: SUBSET Places]

\* What the posted receipts say was received on line n of order o.
Posted(o, n) ==
    LET mine == {r \in Rows(receipts) : GetReceipt(r).order = o}
    IN  SumFunctionOnSet([r \in mine |-> Moved(GetReceipt(r).lines, OnLine(GetReceipt(r).lines, n))], mine)

\* A posted receipt names line n of order o.
Named(o, n) ==
    \E r \in Rows(receipts) : GetReceipt(r).order = o /\ OnLine(GetReceipt(r).lines, n) # {}

\* An order line shows exactly what its receipts posted.  Once one of them
\* names it, it is never over what was ordered, and closed just when
\* nothing is missing; before, it is open, whatever was ordered: the check
\* and the write of concurrent receipts never overlap
\* (purchase_receipt_create).
ReceivedAsPosted ==
    \A o \in Rows(orders) : \A n \in DOMAIN GetOrder(o).lines :
      LET l == GetOrder(o).lines[n] IN
      /\ l.received = Posted(o, n)
      /\ IF Named(o, n) THEN l.received <= l.quantity /\ (l.closed <=> l.received = l.quantity)
         ELSE ~ l.closed

\* Goods are received on approved orders only, and such an order stays
\* approved: a rejection or deletion cannot slip between the status check
\* of a receipt and its posting.
ReceivedOnApproved ==
    \A r \in Rows(receipts) : GetReceipt(r).order \in SearchOrders({Approved})

\* Every approved return took its goods out of stock, and onto the order
\* line it came from, exactly once, also when two approvals of it race: a
\* row of inventories that was there from the start is what it was, plus
\* receipts, minus approved returns.  (First movements of a place without a
\* row overwrite each other: InventoryLedger.)
StockAsPosted ==
    LET done == {t \in Rows(returns) : GetReturn(t).status = Approved} IN
    /\ \A p \in DOMAIN Opening :
         stock[p] = Opening[p]
           + SumFunctionOnSet([r \in Rows(receipts) |-> Moved(receipts[r].lines, AtPlace(receipts[r].lines, p))],
                              Rows(receipts))
           - SumFunctionOnSet([t \in done |-> Issued(returns[t].lines, p)], done)
    /\ \A o \in Rows(orders) : \A n \in DOMAIN orders[o].lines :
         orders[o].lines[n].returned =
           SumFunctionOnSet([t \in done |-> Returned(returns[t].lines, o, n)], done)

\* The change history of an order reconstructs its row: each record starts
\* from the state the one before it left, and the last shows the order as
\* it is (a soft-deleted one shows nothing).
OrderHistory ==
    \A o \in Rows(orders) :
      /\ Chained(trail[o])
      /\ UpToDate(trail[o], IF orders[o].status = Deleted THEN Nothing
                            ELSE Snapshot(orders[o]))

\* The same of a return: what the audit_contract promises of every business
\* write (the code writes no record when a return is submitted).
ReturnHistory ==
    \A t \in Rows(returns) :
      Chained(trail[t]) /\ UpToDate(trail[t], Snapshot(returns[t]))

\* A rejected order can be submitted again, as the comment on
\* PurchaseOrderStatus::Rejected says.
RejectedCanResubmit ==
    \A o \in SearchOrders({Rejected}) : SubmitStatus(PO_FLOW, GetOrder(o).status) # Invalid
=============================================================================
