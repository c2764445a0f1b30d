------------------------------- MODULE MCTrade ------------------------------
(***************************************************************************)
(* Purchase, sales and finance, model-checked side by side.  part picks    *)
(* the component that moves and its ids and bounds; the tables of the      *)
(* others are <<>>.                                                        *)
(***************************************************************************)
EXTENDS Integers, TLC

CONSTANTS
    Workers, Orders, Receipts, Deliveries, Payments, Bills,
    Receiving, Returning,       \* the ids and bounds of Buy, as records
    Delivery, FirstDelivery, LineDelivery,  \* and of Sell
    PayTotals, PayAmounts, PayDates, PayPeriods,    \* of the payments
    Stating, Ageing,            \* and of the reports
    Today,
    o1, r1, t1, i1, h1, a, b    \* single ids of each kind

VARIABLES
    part,
    receipts, returns, deliveries, payments, report,
    orders, invoices, stock, trail, txn     \* of whichever part moves

vPurchase == <<receipts, returns>>
vFinance == <<payments, report>>
vDocuments == <<orders, stock, trail>>

-----------------------------------------------------------------------------
(* Instances. *)

Buy(c) == INSTANCE Purchase WITH
    Orders <- c.orders, Receipts <- c.receipts, Returns <- c.returns, Invoices <- c.invoices,
    Items <- c.items, Warehouses <- c.warehouses, MaxLines <- c.lines, Quantities <- c.quantities,
    Moves <- c.moves, Opening <- c.opening

\* Two receipts that compete for the lines of one order; a receipt of a
\* negative quantity is not refused: it corrects another.
TwoReceipts ==
    [orders |-> {o1}, receipts |-> Receipts, returns |-> {}, invoices |-> {i1}, items |-> {a},
     warehouses |-> {h1}, lines |-> 2, quantities |-> {-1, 2}, moves |-> {-1, 1, 2},
     opening |-> [p \in {<<a, h1>>} |-> 0]]

\* The receipts of two orders and a return, of two items: one of them has no
\* inventories row yet.
OneReturn ==
    [orders |-> Orders, receipts |-> Receipts, returns |-> {t1}, invoices |-> {}, items |-> {a, b},
     warehouses |-> {h1}, lines |-> 1, quantities |-> {1}, moves |-> {1},
     opening |-> [p \in {<<a, h1>>} |-> 1]]

Sell(c) == INSTANCE Sales WITH
    Orders <- c.orders, Deliveries <- c.deliveries, Invoices <- c.invoices, Places <- c.places,
    MaxLines <- c.lines, Quantities <- c.quantities, Opening <- c.opening

\* Two deliveries that take two places in either order.
TwoPlaces ==
    [orders |-> Orders, deliveries |-> Deliveries, invoices |-> {}, places |-> {a, b}, lines |-> 2,
     quantities |-> {1}, opening |-> [p \in {a, b} |-> 1]]

\* Two deliveries, one of which may bring goods back; b has no inventories
\* row yet.
NewPlace ==
    [orders |-> Orders, deliveries |-> Deliveries, invoices |-> {}, places |-> {a, b}, lines |-> 1,
     quantities |-> {-1, 1}, opening |-> [p \in {a} |-> 1]]

\* Two deliveries on the lines of one order, and its invoice.
OneOrder ==
    [orders |-> {o1}, deliveries |-> Deliveries, invoices |-> {i1}, places |-> {a}, lines |-> 2,
     quantities |-> {-1, 1}, opening |-> [p \in {a} |-> 1]]

EndOfMay == <<2024, 5, 31>>

\* Two payments of two invoices.
Pay == INSTANCE Finance WITH
    Invoices <- Bills, Totals <- PayTotals, Amounts <- PayAmounts,
    Dates <- PayDates, Periods <- PayPeriods

MayDay == {<<2024, 5, 1>>}

Book(c) == INSTANCE Finance WITH
    Invoices <- c.invoices, Payments <- c.payments, Totals <- c.totals, Amounts <- c.amounts,
    Dates <- c.dates, Periods <- c.periods

\* An income statement over dates around the ends of months, of a leap
\* February and of the year, and over periods that are valid or not.
EndsOfPeriods ==
    [invoices |-> Bills \cup {i1}, payments |-> {}, totals |-> {-1, 2}, amounts |-> {},
     dates |-> {<<2024, 2, 29>>, <<2024, 3, 1>>, <<2024, 12, 31>>},
     periods |-> {<<2024, 0, 0>>, <<2024, 2, 0>>, <<2024, 2, 3>>, <<2024, 3, 2>>,
                  <<0, 1, 1>>, <<2024, 13, 0>>}]

\* Invoices of 30, 31, 60, 90 and 91 days before today, and after it.
EndsOfBuckets ==
    [invoices |-> Bills, payments |-> {r1}, totals |-> {-1, 2}, amounts |-> {1},
     dates |-> {<<2024, 5, 1>>, <<2024, 4, 30>>, <<2024, 4, 1>>, <<2024, 3, 2>>,
                <<2024, 3, 1>>, <<2024, 6, 1>>},
     periods |-> {}]

ASSUME TradeAssumption ==
    /\ Buy(Receiving)!PurchaseAssumption /\ Buy(Returning)!PurchaseAssumption
    /\ Sell(Delivery)!SalesAssumption /\ Sell(FirstDelivery)!SalesAssumption
    /\ Sell(LineDelivery)!SalesAssumption
    /\ Pay!FinanceAssumption /\ Book(Stating)!FinanceAssumption /\ Book(Ageing)!FinanceAssumption

-----------------------------------------------------------------------------
NoPurchase == receipts = <<>> /\ returns = <<>>
NoSales == deliveries = <<>>
NoFinance == payments = <<>> /\ report = <<>>
NoDocuments == orders = <<>> /\ stock = <<>> /\ trail = <<>>

TradeInit ==
    \/ part = "receive" /\ Buy(Receiving)!Init /\ NoSales /\ NoFinance
    \/ part = "return" /\ Buy(Returning)!Init /\ NoSales /\ NoFinance
    \/ part = "deliver" /\ Sell(Delivery)!Init /\ NoPurchase /\ NoFinance
    \/ part = "deliver_new" /\ Sell(FirstDelivery)!Init /\ NoPurchase /\ NoFinance
    \/ part = "deliver_line" /\ Sell(LineDelivery)!Init /\ NoPurchase /\ NoFinance
    \/ part = "pay" /\ Pay!Init /\ NoPurchase /\ NoSales /\ NoDocuments
    \/ part = "income" /\ Book(Stating)!Init /\ NoPurchase /\ NoSales /\ NoDocuments
    \/ part = "aging" /\ Book(Ageing)!Init /\ NoPurchase /\ NoSales /\ NoDocuments

TradeNext ==
    \/ part = "receive" /\ Buy(Receiving)!Next /\ UNCHANGED <<part, deliveries, vFinance>>
    \/ part = "return" /\ Buy(Returning)!Next /\ UNCHANGED <<part, deliveries, vFinance>>
    \/ part = "deliver" /\ Sell(Delivery)!Next /\ UNCHANGED <<part, vPurchase, vFinance>>
    \/ part = "deliver_new" /\ Sell(FirstDelivery)!Next /\ UNCHANGED <<part, vPurchase, vFinance>>
    \/ part = "deliver_line" /\ Sell(LineDelivery)!Next /\ UNCHANGED <<part, vPurchase, vFinance>>
    \/ part = "pay" /\ Pay!Next /\ UNCHANGED <<part, vPurchase, deliveries, vDocuments>>
    \/ part = "income" /\ Book(Stating)!Next /\ UNCHANGED <<part, vPurchase, deliveries, vDocuments>>
    \/ part = "aging" /\ Book(Ageing)!Next /\ UNCHANGED <<part, vPurchase, deliveries, vDocuments>>

vAll == <<part, vPurchase, deliveries, vFinance, vDocuments, invoices, txn>>
TradeSpec == TradeInit /\ [][TradeNext]_vAll

\* The sets of different parts may share their members: only one moves.
Symmetry == UNION {Permutations(S) : S \in {Workers, Orders, Receipts, Deliveries, Payments, Bills}}

-----------------------------------------------------------------------------
(* Properties. *)

\* An order line shows exactly what its receipts or deliveries posted; once
\* one of them names it, it is never over what was ordered, and closed just
\* when nothing is missing; goods move on approved orders only, which stay
\* approved.  The checks and the writes of concurrent requests never overlap.
LinesAsPosted ==
    /\ part = "receive" => Buy(Receiving)!TypeOK /\ Buy(Receiving)!ReceivedAsPosted /\ Buy(Receiving)!ReceivedOnApproved
    /\ part = "deliver" => Sell(Delivery)!DeliveredOnApproved
    /\ part = "deliver_line" => Sell(LineDelivery)!DeliveredAsPosted

\* A row of inventories that was there from the start is what it was, plus
\* receipts, minus approved returns and deliveries, of all orders together;
\* a delivery leaves no row below zero.  An approved return is counted on
\* the order line exactly once, also when two approvals of it race.
StockAsPosted ==
    /\ part = "return" => Buy(Returning)!StockAsPosted
    /\ part = "deliver" => Sell(Delivery)!TypeOK /\ Sell(Delivery)!StockAsDelivered
    /\ part = "deliver_new" => Sell(FirstDelivery)!StockAsDelivered

\* The change history of an order reconstructs its row: each record starts
\* from the state the one before it left, and the last shows the order as
\* it is (a soft-deleted one shows nothing).
OrderHistory ==
    /\ part = "receive" => Buy(Receiving)!OrderHistory
    /\ part = "deliver_line" => Sell(LineDelivery)!OrderHistory

\* paid_amount is the sum of the payments posted against the invoice, and
\* they never exceed its total: concurrent payments of one invoice neither
\* lose each other nor both pass the check (payment_create).
PaidAsPosted == part = "pay" => Pay!TypeOK /\ Pay!PaidAsPosted

\* Each figure of a report is that of a set of invoices of its period: all
\* that were there when the report began, and none that is not there now,
\* whatever is created while it reads; a period is the days of its months,
\* with both ends.  The balance of a kind is the sum of its aging buckets
\* and of its invoices of a negative total.
ReportsCover ==
    /\ part = "income" => Book(Stating)!ReportCovers
    /\ part = "aging" => Book(Ageing)!BalanceIsAged
=============================================================================
