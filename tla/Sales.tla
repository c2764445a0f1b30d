------------------------------- MODULE Sales --------------------------------
(***************************************************************************)
(* features/sales: orders with their approval flow, deliveries and         *)
(* invoices.                                                               *)
(*                                                                         *)
(* A transaction locks the order row and keeps what it read; it commits    *)
(* or rolls back in a later step.  A delivery works through its lines one  *)
(* by one: each takes the lock of its inventory row and keeps it, so two   *)
(* deliveries can wait for each other, and the server breaks the circle.   *)
(* A missing row cannot be locked: it reads as 0, and what is then written *)
(* replaces whatever was committed in between.                             *)
(* sales_invoice_create has no transaction: its INSERT and its change      *)
(* record commit separately.                                               *)
(***************************************************************************)
EXTENDS Approval, AuditTrail, FiniteSets, Functions

CONSTANTS
    Workers,
    Orders, Deliveries, Invoices,   \* document ids
    Places,         \* inventory rows: an item in a warehouse
    MaxLines,       \* bound on the lines of a document
    Quantities,     \* quantities of order and delivery lines: not restricted
    Opening         \* the inventories rows there are at the start

SalesAssumption ==
    /\ Quantities \subseteq Int
    /\ MaxLines \in Nat \ {0}
    /\ \E S \in SUBSET Places : Opening \in [S -> Int]
    /\ Orders \cap Invoices = {}   \* ids are unique

VARIABLES
    orders, deliveries, invoices,   \* committed rows, or Absent
    stock,      \* inventories.quantity: a function on the places that have a row
    trail,      \* audit_logs of each order and each invoice
    txn         \* the transaction of each worker, or Idle

vars == <<orders, deliveries, invoices, stock, trail, txn>>

Absent == [row |-> "absent"]
Idle == [op |-> "idle"]
Lines(S) == UNION {[1..n -> S] : n \in 1..MaxLines}
DeliveryLine == [line: 1..MaxLines, place: Places, quantity: Quantities]

SO_FLOW ==
    [submit |-> <<Draft, Submitted>>,
     approvals |-> << <<Submitted, PendingSupervisor>>, <<PendingSupervisor, Approved>> >>,
     reject |-> {}]

Rows(table) == {d \in DOMAIN table : table[d] # Absent}

\* The audited part of an order: its own row, not its lines.
Snapshot(row) == [status |-> row.status]

Init ==
    /\ orders = [o \in Orders |-> Absent]
    /\ deliveries = [d \in Deliveries |-> Absent]
    /\ invoices = [i \in Invoices |-> Absent]
    /\ stock = Opening
    /\ trail = [d \in Orders \cup Invoices |-> <<>>]
    /\ txn = [w \in Workers |-> Idle]

-----------------------------------------------------------------------------
(* Orders. *)

CreateOrder(o) ==
    /\ orders[o] = Absent
    /\ \E ls \in Lines(Quantities) :
         orders' = [orders EXCEPT ![o] =
           [status |-> Draft,
            lines |-> [n \in DOMAIN ls |->
                        [quantity |-> ls[n], delivered |-> 0, closed |-> FALSE]]]]
    /\ trail' = [trail EXCEPT ![o] = RecordCreate(@, [status |-> Draft])]
    /\ UNCHANGED <<deliveries, invoices, stock, txn>>

\* Faulty form of Free: a plain SELECT, which waits for nobody.
FreeWithoutLock(o) == TRUE

\* FOR UPDATE: the order row is granted once no other transaction holds it.
Free(o) == \A v \in Workers : txn[v].op # "idle" => txn[v].doc # o

Become(w, t) == txn' = [txn EXCEPT ![w] = t]
End(w) == Become(w, Idle)

Lock(w, op, o) ==
    /\ txn[w] = Idle
    /\ orders[o] # Absent
    /\ Free(o)
    /\ Become(w, [op |-> op, doc |-> o, before |-> Snapshot(orders[o])])
    /\ UNCHANGED <<orders, deliveries, invoices, stock, trail>>

Transition(w, op, new) ==
    /\ txn[w].op = op
    /\ LET o == txn[w].doc
       IN  /\ new # Invalid
           /\ orders' = [orders EXCEPT ![o].status = new]
           /\ trail' = [trail EXCEPT ![o] =
                          RecordUpdated(@, txn[w].before, [status |-> new])]
    /\ End(w)
    /\ UNCHANGED <<deliveries, invoices, stock>>

SubmitOrder(w) == Transition(w, "submit", SubmitStatus(SO_FLOW, txn[w].before.status))
ApproveOrder(w) == Transition(w, "approve", ApproveStatus(SO_FLOW, txn[w].before.status))

-----------------------------------------------------------------------------
(* Deliveries. *)

\* Faulty form of StartDelivery: the status is not looked at.
StartUnapproved(w) ==
    /\ txn[w].op = "deliver"
    /\ \E ls \in {<<>>} \cup Lines([line: DOMAIN orders[txn[w].doc].lines, place: Places,
                                   quantity: Quantities]) :
         Become(w, [op |-> "lines", doc |-> txn[w].doc, before |-> txn[w].before,
                    todo |-> ls, done |-> <<>>, missed |-> {}])
    /\ UNCHANGED <<orders, deliveries, invoices, stock, trail>>

\* The order must be approved; the request names its lines in any order, or
\* none.
StartDelivery(w) ==
    /\ txn[w].op = "deliver" /\ txn[w].before.status = Approved
    /\ \E ls \in {<<>>} \cup Lines([line: DOMAIN orders[txn[w].doc].lines, place: Places,
                                   quantity: Quantities]) :
         Become(w, [op |-> "lines", doc |-> txn[w].doc, before |-> txn[w].before,
                    todo |-> ls, done |-> <<>>, missed |-> {}])
    /\ UNCHANGED <<orders, deliveries, invoices, stock, trail>>

\* What a list of delivery lines moves on order line n, or out of place p.
Moved(ls, K) == SumFunctionOnSet([k \in K |-> ls[k].quantity], K)
OnLine(ls, n) == Moved(ls, {k \in DOMAIN ls : ls[k].line = n})
OutOf(ls, p) == Moved(ls, {k \in DOMAIN ls : ls[k].place = p})

PlacesOf(ls) == {ls[k].place : k \in DOMAIN ls}
Holds(v, p) == txn[v].op = "lines" /\ p \in PlacesOf(txn[v].done)

\* What w takes from at place p: 0 once it found no row there.
Base(w, p) == IF p \in txn[w].missed THEN 0 ELSE stock[p]

\* Faulty form of Covered: the stock is compared before the earlier lines.
CoveredAlone(w, l) == Base(w, l.place) >= l.quantity

\* InventoryLedger::issue refuses to go below zero; the transaction sees
\* its own earlier lines.
Covered(w, l) == Base(w, l.place) - OutOf(txn[w].done, l.place) >= l.quantity

\* Faulty form of Within: the lines before this one are forgotten.
WithinAlone(w, l) == l.quantity <= orders[txn[w].doc].lines[l.line].quantity

Within(w, l) ==
    LET ol == orders[txn[w].doc].lines[l.line] IN
    ol.delivered + OnLine(txn[w].done, l.line) + l.quantity <= ol.quantity

\* read_qty finds no row at the place of the next line.
MissRow(w) ==
    /\ txn[w].op = "lines" /\ txn[w].todo # <<>>
    /\ LET l == Head(txn[w].todo) IN
         /\ Within(w, l)
         /\ l.place \notin DOMAIN stock \cup txn[w].missed
         /\ Become(w, [txn[w] EXCEPT !.missed = @ \cup {l.place}])
    /\ UNCHANGED <<orders, deliveries, invoices, stock, trail>>

\* One line: the over-delivery check, then the ledger, which waits for the
\* inventory row.
DeliverLine(w) ==
    /\ txn[w].op = "lines" /\ txn[w].todo # <<>>
    /\ LET l == Head(txn[w].todo) IN
         /\ Within(w, l)
         /\ l.place \in DOMAIN stock \cup txn[w].missed
         /\ \A v \in Workers \ {w} : ~ Holds(v, l.place)
         /\ Covered(w, l)
         /\ Become(w, [txn[w] EXCEPT !.todo = Tail(@), !.done = Append(@, l)])
    /\ UNCHANGED <<orders, deliveries, invoices, stock, trail>>

\* The order line once the delivery lines that name it are posted.
AfterDelivery(l, n, ls) ==
    LET sum == l.delivered + OnLine(ls, n) IN
    IF \E k \in DOMAIN ls : ls[k].line = n
    THEN [l EXCEPT !.delivered = sum, !.closed = (sum >= l.quantity)]
    ELSE l

CommitDelivery(w, d) ==
    /\ txn[w].op = "lines" /\ txn[w].todo = <<>>
    /\ deliveries[d] = Absent
    /\ LET o == txn[w].doc  ls == txn[w].done IN
         /\ deliveries' = [deliveries EXCEPT ![d] = [order |-> o, lines |-> ls]]
         /\ orders' = [orders EXCEPT ![o].lines =
                         [n \in DOMAIN @ |-> AfterDelivery(@[n], n, ls)]]
         /\ stock' = [p \in DOMAIN stock \cup PlacesOf(ls) |->
                         IF p \in PlacesOf(ls) THEN Base(w, p) - OutOf(ls, p) ELSE stock[p]]
    /\ End(w)
    /\ UNCHANGED <<invoices, trail>>

\* An error (over-delivery, no stock, a lock cycle that the server breaks)
\* or a failure of the process: the transaction rolls back.
Rollback(w) ==
    /\ txn[w].op \in {"submit", "approve", "deliver", "lines"}
    /\ End(w)
    /\ UNCHANGED <<orders, deliveries, invoices, stock, trail>>

-----------------------------------------------------------------------------
(* Invoices. *)

\* The order is read without a lock; the INSERT commits by itself.
InsertInvoice(w, i) ==
    /\ txn[w] = Idle /\ invoices[i] = Absent
    /\ \E o \in Rows(orders) :
         /\ invoices' = [invoices EXCEPT ![i] = [order |-> o, status |-> Draft]]
         /\ Become(w, [op |-> "invoice", doc |-> i])
    /\ UNCHANGED <<orders, deliveries, stock, trail>>

RecordInvoice(w) ==
    /\ txn[w].op = "invoice"
    /\ trail' = [trail EXCEPT ![txn[w].doc] = RecordCreate(@, Snapshot(invoices[txn[w].doc]))]
    /\ End(w)
    /\ UNCHANGED <<orders, deliveries, invoices, stock>>

\* The process or the connection fails between the two statements.
LoseInvoice(w) ==
    /\ txn[w].op = "invoice"
    /\ End(w)
    /\ UNCHANGED <<orders, deliveries, invoices, stock, trail>>

-----------------------------------------------------------------------------
GetOrder(o) == orders[o]

Read == (\E o \in Orders : GetOrder(o) # Absent) /\ UNCHANGED vars

Next ==
    \/ \E o \in Orders : CreateOrder(o)
    \/ \E w \in Workers :
         \/ \E o \in Orders, op \in {"submit", "approve", "deliver"} : Lock(w, op, o)
         \/ SubmitOrder(w) \/ ApproveOrder(w)
         \/ StartDelivery(w) \/ MissRow(w) \/ DeliverLine(w)
         \/ \E d \in Deliveries : CommitDelivery(w, d)
         \/ Rollback(w)
         \/ \E i \in Invoices : InsertInvoice(w, i)
         \/ RecordInvoice(w) \/ LoseInvoice(w)
    \/ Read

Spec == Init /\ [][Next]_vars

-----------------------------------------------------------------------------
(* Properties. *)

\* Type correctness of the sales tables and of the open transactions.
TypeOK ==
    /\ \A o \in Rows(orders) :
         /\ orders[o].status \in Status
         /\ orders[o].lines \in Seq([quantity: Int, delivered: Int, closed: BOOLEAN])
    /\ \A d \in Rows(deliveries) :
         deliveries[d].order \in Orders /\ deliveries[d].lines \in Seq(DeliveryLine)
    /\ \A i \in Rows(invoices) : invoices[i].order \in Orders
    /\ DOMAIN stock \subseteq Places /\ \A p \in DOMAIN stock : stock[p] \in Int
    /\ \A w \in Workers :
         \/ txn[w] = Idle
         \/ txn[w] \in [op: {"submit", "approve", "deliver"}, doc: Orders,
                        before: [status: Status]]
         \/ txn[w].op = "lines" /\ txn[w].doc \in Orders
         \/ txn[w] \in [op: {"invoice"}, doc: Invoices]

Delivered(o, n) ==
    LET mine == {d \in Rows(deliveries) : deliveries[d].order = o}
    IN  SumFunctionOnSet([d \in mine |-> OnLine(deliveries[d].lines, n)], mine)

\* A posted delivery names line n of order o.
Named(o, n) ==
    \E d \in Rows(deliveries) :
      deliveries[d].order = o /\ \E k \in DOMAIN deliveries[d].lines : deliveries[d].lines[k].line = n

\* An order line shows exactly what its deliveries posted.  Once one of them
\* names it, it is never over what was ordered, and closed just when nothing
\* is missing; before, it is open, whatever was ordered.  This holds however
\* the deliveries of the order interleave (sales_delivery_create).
DeliveredAsPosted ==
    \A o \in Rows(orders) : \A n \in DOMAIN GetOrder(o).lines :
      LET l == GetOrder(o).lines[n] IN
      /\ l.delivered = Delivered(o, n)
      /\ IF Named(o, n) THEN l.delivered <= l.quantity /\ (l.closed <=> l.delivered = l.quantity)
         ELSE ~ l.closed

\* A row of inventories that was there from the start is what it was, minus
\* what the delivery lines of all orders say; deliveries never take it below
\* zero, nor any row that they wrote.  (First movements of a place without a
\* row overwrite each other: InventoryLedger.)
StockAsDelivered ==
    /\ \A p \in DOMAIN stock : stock[p] >= 0 \/ (p \in DOMAIN Opening /\ stock[p] = Opening[p])
    /\ \A p \in DOMAIN Opening :
         stock[p] = Opening[p] -
           SumFunctionOnSet([d \in Rows(deliveries) |-> OutOf(deliveries[d].lines, p)], Rows(deliveries))

\* Goods leave on approved orders only.
DeliveredOnApproved ==
    \A d \in Rows(deliveries) : orders[deliveries[d].order].status = Approved

\* The change history of an order reconstructs its row.
OrderHistory ==
    \A o \in Rows(orders) : Chained(trail[o]) /\ UpToDate(trail[o], Snapshot(orders[o]))

\* Once no request works on it any more, an invoice has its change record.
InvoiceRecorded ==
    \A i \in Rows(invoices) :
      trail[i] # <<>> \/ \E w \in Workers : txn[w] = [op |-> "invoice", doc |-> i]
=============================================================================
