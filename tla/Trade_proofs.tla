---------------------------- MODULE Trade_proofs ----------------------------
(***************************************************************************)
(* Proofs about Purchase, Sales and Finance.  What a line, a stock row or  *)
(* an invoice shows is a sum over the documents that were posted; each     *)
(* invariant says so, and the locks say why a request may still rely on    *)
(* what it read.  Every step is one of a few effects on the tables, and a  *)
(* lemma shows that the effect keeps the invariant; the actions are then   *)
(* shown to have one of these effects.                                     *)
(***************************************************************************)
EXTENDS MCTrade, FiniteSets, Sequences, SequenceTheorems, SumLemmas, TLAPS

-----------------------------------------------------------------------------
(* Lists of document lines, as Buy and Sell have them. *)

Gone == [row |-> "absent"]
Still == [op |-> "idle"]

OfLine(ls, n) == {j \in DOMAIN ls : ls[j].line = n}
ForLine(ls, n) == Move(ls, OfLine(ls, n))

\* A list of lines that move integers.
LEMMA Listed ==
    ASSUME NEW S, \A x \in S : x.quantity \in Int, NEW ls \in Seq(S)
    PROVE  /\ DOMAIN ls = 1..Len(ls) /\ IsFiniteSet(DOMAIN ls)
           /\ \A j \in DOMAIN ls : ls[j] \in S /\ ls[j].quantity \in Int
           /\ \A K \in SUBSET DOMAIN ls : Move(ls, K) \in Int
           /\ \A n : ForLine(ls, n) \in Int
<1>1. DOMAIN ls = 1..Len(ls) /\ Len(ls) \in Nat /\ \A k \in 1..Len(ls) : ls[k] \in S
  OBVIOUS
<1>2. IsFiniteSet(1..Len(ls))
  BY <1>1, FS_Interval
<1>3. \A j \in DOMAIN ls : ls[j] \in S /\ ls[j].quantity \in Int
  BY <1>1
<1>4. ASSUME NEW K \in SUBSET DOMAIN ls PROVE Move(ls, K) \in Int
  BY <1>1, <1>2, <1>3, MoveInt
<1>5. \A n : OfLine(ls, n) \in SUBSET DOMAIN ls
  BY DEF OfLine
<1> QED
  BY <1>1, <1>2, <1>3, <1>4, <1>5 DEF ForLine

\* With a line more it moves that line's quantity more.
LEMMA ListedMore ==
    ASSUME NEW S, \A x \in S : x.quantity \in Int, NEW ls \in Seq(S), NEW l \in S
    PROVE  \A n : /\ ForLine(Append(ls, l), n) = ForLine(ls, n) + IF l.line = n THEN l.quantity ELSE 0
                  /\ l.line # n => OfLine(Append(ls, l), n) = OfLine(ls, n)
<1>1. /\ DOMAIN ls = 1..Len(ls) /\ Len(ls) \in Nat /\ DOMAIN Append(ls, l) = 1..(Len(ls) + 1)
      /\ \A k \in 1..Len(ls) : Append(ls, l)[k] = ls[k]
      /\ Append(ls, l)[Len(ls) + 1] = l
  OBVIOUS
<1>2. ASSUME NEW K \in SUBSET DOMAIN ls
      PROVE  /\ Move(Append(ls, l), K) = Move(ls, K) /\ Move(ls, K) \in Int
             /\ Move(Append(ls, l), K \cup {Len(ls) + 1}) = Move(ls, K) + l.quantity
  BY MoveAppend
<1>3. ASSUME NEW n
      PROVE  /\ ForLine(Append(ls, l), n) = ForLine(ls, n) + IF l.line = n THEN l.quantity ELSE 0
             /\ l.line # n => OfLine(Append(ls, l), n) = OfLine(ls, n)
  <2>1. OfLine(ls, n) \in SUBSET DOMAIN ls
    BY DEF OfLine
  <2>2. CASE l.line = n
    <3>1. OfLine(Append(ls, l), n) = OfLine(ls, n) \cup {Len(ls) + 1}
      BY <1>1, <2>2 DEF OfLine
    <3> QED
      BY <1>2, <2>1, <2>2, <3>1 DEF ForLine
  <2>3. CASE l.line # n
    <3>1. OfLine(Append(ls, l), n) = OfLine(ls, n)
      BY <1>1, <2>3 DEF OfLine
    <3>2. Move(Append(ls, l), OfLine(ls, n)) = Move(ls, OfLine(ls, n)) /\ Move(ls, OfLine(ls, n)) \in Int
      BY <1>2, <2>1
    <3> QED
      BY <2>3, <3>1, <3>2 DEF ForLine
  <2> QED
    BY <2>2, <2>3
<1> QED
  BY <1>3

-----------------------------------------------------------------------------
(* Change records. *)

Nothing == [row |-> "none"]
StatusView == [status : 0..4 \cup {-1}]
Entry == [action : {"created", "updated", "deleted"}, before : StatusView \cup {Nothing},
          after : StatusView \cup {Nothing}]

-----------------------------------------------------------------------------
(* Buy: the row lock of a document serialises the requests on it. *)

BuyOrder(c) == [status : 0..4 \cup {-1}, lines : ListsOf(c.lines, Buy(c)!OrderLine)]
BuyReceiptLine(c) == [line : 1..c.lines, item : c.items, warehouse : c.warehouses, quantity : Int]
BuyReceipt(c) == [order : c.orders, lines : Seq(BuyReceiptLine(c))]
BuyReturnLine(c) == [receipt : c.receipts, line : Nat \ {0}, item : c.items, quantity : Int]
BuyReturn(c) == [order : c.orders, status : 0..4 \cup {-1}, lines : ListsOf(1, BuyReturnLine(c))]

\* A place that had its row at the start is never read as missing.
Missing(c) == SUBSET ((c.items \X c.warehouses) \ DOMAIN c.opening)
OrderOp == {"submit", "approve", "reject", "delete", "receive", "lines"}
OrderWork(c) == [op : OrderOp, doc : c.orders, before : [status : 0..4 \cup {-1}],
                 todo : Seq(BuyReceiptLine(c)), done : Seq(BuyReceiptLine(c)), missed : Missing(c)]
ReturnWork(c) == [op : {"submit_return", "approve_return"}, doc : c.returns,
                  before : [status : 0..4 \cup {-1}],
                  todo : Seq(BuyReceiptLine(c)), done : Seq(BuyReceiptLine(c)), missed : Missing(c)]
BuyWork(c) == OrderWork(c) \cup ReturnWork(c)

BuyTypes(c) ==
    /\ orders \in [c.orders -> BuyOrder(c) \cup {Gone}]
    /\ receipts \in [c.receipts -> BuyReceipt(c) \cup {Gone}]
    /\ returns \in [c.returns -> BuyReturn(c) \cup {Gone}]
    /\ invoices \in [c.invoices -> [order : c.orders] \cup {Gone}]
    /\ DOMAIN c.opening \subseteq DOMAIN stock /\ DOMAIN stock \subseteq c.items \X c.warehouses
    /\ stock \in [DOMAIN stock -> Int]
    /\ trail \in [c.orders \cup c.returns -> Seq(Entry)]
    /\ txn \in [Workers -> BuyWork(c) \cup {Still}]

\* The document that a request works on, as it is now.
Document(c, d) == IF d \in c.orders THEN orders[d] ELSE returns[d]

\* An open request has the lock of its document, and what it read still holds.
BuyLocks(c) ==
    /\ \A v, w \in Workers :
         txn[v] # Still /\ txn[w] # Still /\ txn[v].doc = txn[w].doc => v = w
    /\ \A w \in Workers : txn[w] # Still =>
         /\ Document(c, txn[w].doc) # Gone
         /\ Document(c, txn[w].doc).status = txn[w].before.status

\* A receipt in work is on an approved order; the lines it has taken fit, and
\* it knows what their places hold.
Pending(t) ==
    IF t.op # "lines" THEN t.done = <<>>
    ELSE /\ t.before.status = 3
         /\ \A n \in DOMAIN orders[t.doc].lines : OfLine(t.done, n) # {} =>
              orders[t.doc].lines[n].received + ForLine(t.done, n) <= orders[t.doc].lines[n].quantity
         /\ \A k \in DOMAIN t.done : <<t.done[k].item, t.done[k].warehouse>> \in DOMAIN stock \cup t.missed

BuyPending(c) == \A w \in Workers : txn[w] # Still => Pending(txn[w])

\* Goods are received on orders that are approved.
BuyApproved(c) ==
    \A r \in c.receipts : receipts[r] # Gone =>
      orders[receipts[r].order] # Gone /\ orders[receipts[r].order].status = 3

\* What a posted receipt says of line n of its order, and of place p.
Got(x, n) == Move(x.lines, OfLine(x.lines, n))
PlacedAt(ls, p) == {j \in DOMAIN ls : <<ls[j].item, ls[j].warehouse>> = p}
Came(x, p) == Move(x.lines, PlacedAt(x.lines, p))

Received == {r \in DOMAIN receipts : receipts[r] # Gone}
ReceivedOn(o) == {r \in Received : receipts[r].order = o}
TotalGot(o, n) == SumFunctionOnSet([r \in ReceivedOn(o) |-> Got(receipts[r], n)], ReceivedOn(o))
TotalCame(p) == SumFunctionOnSet([r \in Received |-> Came(receipts[r], p)], Received)
Posts(o, n) == \E r \in ReceivedOn(o) : OfLine(receipts[r].lines, n) # {}

\* A line shows what the receipts of its order posted; one of them names it,
\* or none.
LinePosted(l, got, named) ==
    /\ l.received = got
    /\ IF named THEN l.received <= l.quantity /\ (l.closed <=> l.received = l.quantity) ELSE ~l.closed

BuyPosted(c) ==
    /\ IsFiniteSet(Received)
    /\ \A o \in c.orders : orders[o] # Gone =>
         \A n \in DOMAIN orders[o].lines : LinePosted(orders[o].lines[n], TotalGot(o, n), Posts(o, n))

\* The receipt line that a return line joins, and what a return moves.
Joined(l) == receipts[l.receipt].lines[l.line]
Joins(l) == receipts[l.receipt] # Gone /\ l.line \in DOMAIN receipts[l.receipt].lines
BackTo(ls, p) == {j \in DOMAIN ls : <<ls[j].item, Joined(ls[j]).warehouse>> = p}
BackOn(ls, o, n) == {j \in DOMAIN ls : receipts[ls[j].receipt].order = o /\ Joined(ls[j]).line = n}
Went(x, p) == Move(x.lines, BackTo(x.lines, p))
Back(x, o, n) == Move(x.lines, BackOn(x.lines, o, n))

Settled == {t \in DOMAIN returns : returns[t] # Gone /\ returns[t].status = 3}
TotalWent(p) == SumFunctionOnSet([t \in Settled |-> Went(returns[t], p)], Settled)
TotalBack(o, n) == SumFunctionOnSet([t \in Settled |-> Back(returns[t], o, n)], Settled)

\* A row that was there at the start is what it was, plus what came, less what
\* went back; order lines show the latter.
BuyStock(c) ==
    /\ IsFiniteSet(Received) /\ IsFiniteSet(Settled)
    /\ \A t \in c.returns : returns[t] # Gone =>
         \A j \in DOMAIN returns[t].lines : Joins(returns[t].lines[j])
    /\ \A p \in DOMAIN c.opening : stock[p] = c.opening[p] + TotalCame(p) - TotalWent(p)
    /\ \A o \in c.orders : orders[o] # Gone =>
         \A n \in DOMAIN orders[o].lines : orders[o].lines[n].returned = TotalBack(o, n)

\* The trail of an order shows it as it is; a deleted one shows nothing.
OrderView(x) == IF x.status = -1 THEN Nothing ELSE [status |-> x.status]
BuyHistory(c) ==
    \A o \in c.orders :
      IF orders[o] = Gone THEN trail[o] = <<>> ELSE Tells(trail[o], OrderView(orders[o]))

BuyInv(c) ==
    /\ BuyTypes(c) /\ BuyLocks(c) /\ BuyPending(c) /\ BuyApproved(c)
    /\ BuyPosted(c) /\ BuyStock(c) /\ BuyHistory(c)
Bought(c) == Buy(c)!PurchaseAssumption

\* What the rows of the documents of Buy look like.
LEMMA BuyShapes ==
    ASSUME NEW CONSTANT c
    PROVE  /\ \A x \in BuyOrder(c) \cup BuyReceipt(c) \cup BuyReturn(c) : x # Gone
           /\ \A x \in BuyWork(c) : x # Still
           /\ \A x : x \in OrderWork(c) => x.doc \in c.orders
           /\ Buy(c)!Absent = Gone /\ Buy(c)!Idle = Still
<1>1. \A x \in BuyOrder(c) \cup BuyReceipt(c) \cup BuyReturn(c) : x # Gone
  BY DEF BuyOrder, BuyReceipt, BuyReturn, Gone
<1>2. \A x : x \in OrderWork(c) => x.op \in OrderOp /\ x.doc \in c.orders
  BY DEF OrderWork
<1>3. \A x : x \in ReturnWork(c) => x.op \in {"submit_return", "approve_return"}
  BY DEF ReturnWork
<1>4. Still.op = "idle"
  BY DEF Still
<1>5. \A x \in BuyWork(c) : x # Still
  BY <1>2, <1>3, <1>4 DEF BuyWork, OrderOp
<1> QED
  BY <1>1, <1>2, <1>5 DEF Gone, Still, Buy!Absent, Buy!Idle

\* Receipts that stay as they are have the same sums.
LEMMA ReceiptsKept ==
    ASSUME receipts' = receipts
    PROVE  /\ Received' = Received
           /\ \A o, n : TotalGot(o, n)' = TotalGot(o, n)
           /\ \A o, n : Posts(o, n)' <=> Posts(o, n)
           /\ \A p : TotalCame(p)' = TotalCame(p)
BY DEF Received, TotalGot, ReceivedOn, Posts, TotalCame

\* Returns that stay as they are have the same sums.
LEMMA ReturnsKept ==
    ASSUME UNCHANGED <<receipts, returns>>
    PROVE  /\ Settled' = Settled
           /\ \A p : TotalWent(p)' = TotalWent(p)
           /\ \A o, n : TotalBack(o, n)' = TotalBack(o, n)
BY DEF Settled, TotalWent, TotalBack, Went, Back, BackTo, BackOn, Joined

\* What posted documents add up to does not depend on a status.
LEMMA StatusMoved ==
    ASSUME NEW CONSTANT c, BuyInv(c), UNCHANGED <<receipts, returns, stock>>,
           \A o \in c.orders :
             /\ orders'[o] # Gone <=> orders[o] # Gone
             /\ orders[o] # Gone => orders'[o].lines = orders[o].lines
    PROVE  BuyPosted(c)' /\ BuyStock(c)'
<1>1. BuyPosted(c)'
  BY ReceiptsKept DEF BuyInv, BuyPosted, LinePosted
<1>2. \A t \in c.returns : returns'[t] # Gone =>
         \A j \in DOMAIN returns'[t].lines : Joins(returns[t].lines[j])'
  BY DEF BuyInv, BuyStock, Joins
<1>3. \A p \in DOMAIN c.opening : stock'[p] = c.opening[p] + TotalCame(p)' - TotalWent(p)'
  BY ReceiptsKept, ReturnsKept DEF BuyInv, BuyStock
<1>4. \A o \in c.orders : orders'[o] # Gone =>
         \A n \in DOMAIN orders'[o].lines : orders'[o].lines[n].returned = TotalBack(o, n)'
  BY ReturnsKept DEF BuyInv, BuyStock
<1>5. IsFiniteSet(Received') /\ IsFiniteSet(Settled')
  BY ReceiptsKept, ReturnsKept DEF BuyInv, BuyStock
<1> QED
  BY <1>1, <1>2, <1>3, <1>4, <1>5 DEF BuyStock

\* What an open request of some kind read.
LEMMA OpenOrderWork ==
    ASSUME NEW CONSTANT c, BuyInv(c), NEW w \in Workers,
           txn[w].op \in OrderOp
    PROVE  /\ txn[w] # Still /\ txn[w] \in OrderWork(c) /\ txn[w].doc \in c.orders
           /\ orders[txn[w].doc] # Gone /\ Pending(txn[w])
           /\ orders[txn[w].doc] \in BuyOrder(c)
           /\ orders[txn[w].doc].status \in 0..4 \cup {-1}
           /\ txn[w].before = [status |-> orders[txn[w].doc].status]
<1>1. txn[w] # Still /\ txn[w] \in OrderWork(c)
  <2>1. txn[w] \in OrderWork(c) \cup ReturnWork(c) \cup {Still}
    BY DEF BuyInv, BuyTypes, BuyWork
  <2>2. (\A x \in ReturnWork(c) : x.op \notin OrderOp) /\ Still.op \notin OrderOp
    BY DEF ReturnWork, Still, OrderOp
  <2> QED
    BY <2>1, <2>2
<1>2. txn[w].doc \in c.orders
  BY <1>1 DEF OrderWork
<1>3. orders[txn[w].doc] # Gone /\ orders[txn[w].doc].status = txn[w].before.status
  BY <1>1, <1>2 DEF BuyInv, BuyLocks, Document
<1>4. orders[txn[w].doc] \in BuyOrder(c)
  BY <1>2, <1>3 DEF BuyInv, BuyTypes
<1>5. Pending(txn[w])
  BY <1>1 DEF BuyInv, BuyPending
<1> QED
  BY <1>1, <1>2, <1>3, <1>4, <1>5 DEF BuyOrder, OrderWork

\* What a receipt in work relies on stays, while its order keeps what was
\* ordered and received, and no row of inventories goes.
LEMMA PendingKept ==
    ASSUME NEW CONSTANT c, BuyInv(c), DOMAIN stock \subseteq DOMAIN stock',
           \A v \in Workers : txn'[v] # Still =>
             /\ txn'[v] = txn[v]
             /\ txn[v].op = "lines" =>
                  /\ DOMAIN orders'[txn[v].doc].lines = DOMAIN orders[txn[v].doc].lines
                  /\ \A n \in DOMAIN orders[txn[v].doc].lines :
                       /\ orders'[txn[v].doc].lines[n].received = orders[txn[v].doc].lines[n].received
                       /\ orders'[txn[v].doc].lines[n].quantity = orders[txn[v].doc].lines[n].quantity
    PROVE  BuyPending(c)'
<1>1. ASSUME NEW v \in Workers, txn'[v] # Still PROVE Pending(txn[v])'
  <2>1. txn'[v] = txn[v] /\ Pending(txn[v])
    BY <1>1 DEF BuyInv, BuyPending
  <2>2. CASE txn[v].op # "lines"
    BY <2>1, <2>2 DEF Pending
  <2>3. CASE txn[v].op = "lines"
    <3>1. ASSUME NEW n \in DOMAIN orders'[txn[v].doc].lines, OfLine(txn[v].done, n) # {}
          PROVE  orders'[txn[v].doc].lines[n].received + ForLine(txn[v].done, n)
                   <= orders'[txn[v].doc].lines[n].quantity
      <4>1. /\ n \in DOMAIN orders[txn[v].doc].lines
            /\ orders'[txn[v].doc].lines[n].received = orders[txn[v].doc].lines[n].received
            /\ orders'[txn[v].doc].lines[n].quantity = orders[txn[v].doc].lines[n].quantity
        BY <1>1, <2>3, <3>1
      <4>2. orders[txn[v].doc].lines[n].received + ForLine(txn[v].done, n) <= orders[txn[v].doc].lines[n].quantity
        BY <2>1, <2>3, <3>1, <4>1 DEF Pending
      <4> QED
        BY <4>1, <4>2
    <3>2. txn[v].before.status = 3 /\ \A k \in DOMAIN txn[v].done :
            <<txn[v].done[k].item, txn[v].done[k].warehouse>> \in DOMAIN stock' \cup txn[v].missed
      BY <2>1, <2>3 DEF Pending
    <3>3. Pending(txn[v])' <=>
            /\ txn[v].before.status = 3
            /\ \A n \in DOMAIN orders'[txn[v].doc].lines : OfLine(txn[v].done, n) # {} =>
                 orders'[txn[v].doc].lines[n].received + ForLine(txn[v].done, n)
                   <= orders'[txn[v].doc].lines[n].quantity
            /\ \A k \in DOMAIN txn[v].done :
                 <<txn[v].done[k].item, txn[v].done[k].warehouse>> \in DOMAIN stock' \cup txn[v].missed
      BY <2>1, <2>3 DEF Pending
    <3> QED
      BY <3>1, <3>2, <3>3
  <2> QED
    BY <2>2, <2>3
<1> QED
  BY <1>1 DEF BuyPending

\* The invariant holds at the start: there is no document.
LEMMA BuyInit == ASSUME NEW CONSTANT c, Bought(c), Buy(c)!Init PROVE BuyInv(c)
<1> USE DEF Buy!Init
<1>1. BuyTypes(c)
  <2>1. /\ orders \in [c.orders -> BuyOrder(c) \cup {Gone}]
        /\ receipts \in [c.receipts -> BuyReceipt(c) \cup {Gone}]
        /\ returns \in [c.returns -> BuyReturn(c) \cup {Gone}]
        /\ invoices \in [c.invoices -> [order : c.orders] \cup {Gone}]
        /\ txn \in [Workers -> BuyWork(c) \cup {Still}]
    BY BuyShapes
  <2>2. /\ DOMAIN c.opening \subseteq DOMAIN stock /\ DOMAIN stock \subseteq c.items \X c.warehouses
        /\ stock \in [DOMAIN stock -> Int] /\ trail \in [c.orders \cup c.returns -> Seq(Entry)]
    BY DEF Bought, Buy!PurchaseAssumption, Buy!Places
  <2> QED
    BY <2>1, <2>2 DEF BuyTypes
<1>2. /\ \A o \in c.orders : orders[o] = Gone /\ trail[o] = <<>>
      /\ \A w \in Workers : txn[w] = Still
      /\ Received = {} /\ Settled = {}
  BY BuyShapes DEF Received, Settled
<1>3. BuyLocks(c) /\ BuyPending(c) /\ BuyApproved(c) /\ BuyHistory(c)
  BY <1>2 DEF BuyLocks, BuyPending, BuyApproved, BuyHistory, Received
<1>4. BuyPosted(c)
  BY <1>2, FS_EmptySet DEF BuyPosted
<1>5. BuyStock(c)
  <2>1. \A p : TotalCame(p) = 0 /\ TotalWent(p) = 0
    BY <1>2, SumEmpty DEF TotalCame, TotalWent
  <2>2. \A t \in c.returns : returns[t] = Gone
    BY BuyShapes
  <2>3. ASSUME NEW p \in DOMAIN c.opening PROVE stock[p] = c.opening[p] + TotalCame(p) - TotalWent(p)
    <3>1. stock[p] \in Int /\ stock[p] = c.opening[p]
      BY <1>1 DEF BuyTypes
    <3> QED
      BY <2>1, <3>1
  <2> QED
    BY <1>2, <2>2, <2>3, FS_EmptySet DEF BuyStock
<1> QED
  BY <1>1, <1>3, <1>4, <1>5 DEF BuyInv

-----------------------------------------------------------------------------
(* The steps that Buy can take, by what they change. *)

OrderCreated(c, o, x, e) ==
    /\ orders[o] = Gone
    /\ x.status = 0 /\ \A n \in DOMAIN x.lines :
                         x.lines[n].received = 0 /\ x.lines[n].returned = 0 /\ ~x.lines[n].closed
    /\ e.action = "created" /\ e.after = [status |-> 0]
    /\ orders' = [orders EXCEPT ![o] = x]
    /\ trail' = [trail EXCEPT ![o] = Append(@, e)]
    /\ UNCHANGED <<receipts, returns, invoices, stock, txn>>

Taken(c, w, t) ==
    /\ txn[w] = Still /\ \A v \in Workers : txn[v] # Still => txn[v].doc # t.doc
    /\ Document(c, t.doc) # Gone /\ Document(c, t.doc).status = t.before.status
    /\ t.op # "lines" /\ t.done = <<>>
    /\ txn' = [txn EXCEPT ![w] = t]
    /\ UNCHANGED <<orders, receipts, returns, invoices, stock, trail>>

\* A request goes on, and keeps its lock and what it read of its document.
WentOn(c, w, t) ==
    /\ txn[w] # Still /\ t.doc = txn[w].doc /\ t.before = txn[w].before /\ Pending(t)
    /\ txn' = [txn EXCEPT ![w] = t]
    /\ UNCHANGED <<orders, receipts, returns, invoices, stock, trail>>

OrderMoved(c, w, o, x, e) ==
    /\ txn[w] # Still /\ txn[w].doc = o
    /\ orders[o] # Gone /\ orders[o].status \notin {3, -1} /\ x.lines = orders[o].lines
    /\ e.action # "created" /\ e.before = [status |-> orders[o].status] /\ e.after = OrderView(x)
    /\ orders' = [orders EXCEPT ![o] = x]
    /\ trail' = [trail EXCEPT ![o] = Append(@, e)]
    /\ txn' = [txn EXCEPT ![w] = Still]
    /\ UNCHANGED <<receipts, returns, invoices, stock>>

GivenUp(w) ==
    /\ txn[w] # Still /\ txn' = [txn EXCEPT ![w] = Still]
    /\ UNCHANGED <<orders, receipts, returns, invoices, stock, trail>>

\* A new order has received nothing.
LEMMA OrderCreatedStep ==
    ASSUME NEW CONSTANT c, c.orders \cap c.returns = {}, BuyInv(c),
           NEW o \in c.orders, NEW x \in BuyOrder(c), NEW e \in Entry, OrderCreated(c, o, x, e)
    PROVE  BuyInv(c)'
<1> USE DEF OrderCreated
<1>1. orders'[o] = x /\ \A j \in c.orders \ {o} : orders'[j] = orders[j]
  BY DEF BuyInv, BuyTypes
<1>2. /\ trail'[o] = Append(trail[o], e) /\ trail[o] \in Seq(Entry)
      /\ \A j \in c.orders \ {o} : trail'[j] = trail[j]
  BY DEF BuyInv, BuyTypes
<1>3. BuyTypes(c)'
  <2>1. trail' \in [c.orders \cup c.returns -> Seq(Entry)]
    <3>1. Append(trail[o], e) \in Seq(Entry)
      BY <1>2
    <3> QED
      BY <3>1 DEF BuyInv, BuyTypes
  <2> QED
    BY <2>1 DEF BuyInv, BuyTypes
<1>4. BuyLocks(c)'
  <2>1. \A w \in Workers : txn[w] # Still => Document(c, txn[w].doc)' = Document(c, txn[w].doc)
    BY <1>1 DEF BuyInv, BuyLocks, Document
  <2> QED
    BY <2>1 DEF BuyInv, BuyLocks
<1>10. BuyPending(c)'
  <2>1. \A v \in Workers : txn[v] # Still /\ txn[v].op = "lines" => txn[v].doc \in c.orders \ {o}
    BY OpenOrderWork DEF OrderOp
  <2>2. \A v \in Workers : txn[v] # Still /\ txn[v].op = "lines" => orders'[txn[v].doc] = orders[txn[v].doc]
    BY <1>1, <2>1
  <2> QED
    BY <2>2, PendingKept
<1>5. \A r \in c.receipts : receipts[r] # Gone => receipts[r].order \in c.orders \ {o}
  BY DEF BuyInv, BuyTypes, BuyReceipt, BuyApproved
<1>6. BuyApproved(c)'
  BY <1>1, <1>5 DEF BuyInv, BuyApproved
<1>7. BuyPosted(c)'
  <2>1. ReceivedOn(o) = {}
    BY <1>5 DEF ReceivedOn, Received, BuyInv, BuyTypes
  <2>2. \A n : TotalGot(o, n) = 0 /\ ~ Posts(o, n)
    BY <2>1, SumEmpty DEF TotalGot, Posts
  <2>3. \A n \in DOMAIN x.lines : LinePosted(x.lines[n], TotalGot(o, n), Posts(o, n))
    BY <2>2 DEF LinePosted
  <2>4. \A j \in c.orders : orders'[j] # Gone =>
          \A n \in DOMAIN orders'[j].lines : LinePosted(orders'[j].lines[n], TotalGot(j, n), Posts(j, n))
    BY <1>1, <2>3 DEF BuyInv, BuyPosted
  <2> QED
    BY <2>4, ReceiptsKept DEF BuyInv, BuyPosted, LinePosted
<1>8. BuyStock(c)'
  <2>1. ASSUME NEW n PROVE TotalBack(o, n) = 0
    <3>1. ASSUME NEW t \in Settled PROVE Back(returns[t], o, n) = 0
      <4>1. t \in c.returns /\ returns[t] # Gone
        BY DEF BuyInv, BuyTypes, Settled
      <4>2. returns[t] \in BuyReturn(c) /\ \A j \in DOMAIN returns[t].lines : Joins(returns[t].lines[j])
        BY <4>1 DEF BuyInv, BuyTypes, BuyStock
      <4>3. \A j \in DOMAIN returns[t].lines : returns[t].lines[j].receipt \in c.receipts
        <5>1. returns[t].lines \in ListsOf(1, BuyReturnLine(c))
          BY <4>2 DEF BuyReturn
        <5>2. 1 \in Nat /\ \A j \in DOMAIN returns[t].lines : returns[t].lines[j] \in BuyReturnLine(c)
          BY <5>1, ListShape
        <5> QED
          BY <5>2 DEF BuyReturnLine
      <4>4. BackOn(returns[t].lines, o, n) = {}
        BY <1>5, <4>2, <4>3 DEF BackOn, Joins
      <4> QED
        BY <4>4, MoveNothing DEF Back
    <3>2. IsFiniteSet(Settled)
      BY DEF BuyInv, BuyStock
    <3> DEFINE f == [t \in Settled |-> Back(returns[t], o, n)]
    <3>3. \A t \in Settled : f[t] = 0
      BY <3>1
    <3> HIDE DEF f
    <3>4. SumFunctionOnSet(f, Settled) = 0
      BY <3>2, <3>3, SumZero
    <3> QED
      BY <3>4 DEF TotalBack, f
  <2>2. \A j \in c.orders : orders'[j] # Gone =>
          \A n \in DOMAIN orders'[j].lines : orders'[j].lines[n].returned = TotalBack(j, n)'
    BY <1>1, <2>1, ReturnsKept DEF BuyInv, BuyStock
  <2>3. \A p \in DOMAIN c.opening : stock'[p] = c.opening[p] + TotalCame(p)' - TotalWent(p)'
    BY ReceiptsKept, ReturnsKept DEF BuyInv, BuyStock
  <2>4. \A t \in c.returns : returns'[t] # Gone =>
          \A j \in DOMAIN returns'[t].lines : Joins(returns[t].lines[j])'
    BY DEF BuyInv, BuyStock, Joins
  <2>5. IsFiniteSet(Received') /\ IsFiniteSet(Settled')
    BY ReceiptsKept, ReturnsKept DEF BuyInv, BuyStock
  <2> QED
    BY <2>2, <2>3, <2>4, <2>5 DEF BuyStock
<1>9. BuyHistory(c)'
  <2>1. x # Gone /\ OrderView(x) = e.after
    BY BuyShapes DEF OrderView
  <2>2. Tells(trail'[o], OrderView(x))
    BY <1>2, <2>1, TellsFirst DEF BuyInv, BuyHistory
  <2> QED
    BY <1>1, <1>2, <2>1, <2>2 DEF BuyInv, BuyHistory
<1> QED
  BY <1>3, <1>4, <1>6, <1>7, <1>8, <1>9, <1>10 DEF BuyInv

\* A request takes a lock that nobody has.
LEMMA TakenStep ==
    ASSUME NEW CONSTANT c, BuyInv(c), NEW w \in Workers, NEW t \in BuyWork(c), Taken(c, w, t)
    PROVE  BuyInv(c)'
<1> USE DEF Taken
<1>1. BuyTypes(c)'
  BY DEF BuyInv, BuyTypes
<1>2. BuyLocks(c)'
  <2>1. txn'[w] = t /\ \A v \in Workers \ {w} : txn'[v] = txn[v]
    BY DEF BuyInv, BuyTypes
  <2>2. \A d : Document(c, d)' = Document(c, d)
    BY DEF Document
  <2> QED
    BY <2>1, <2>2 DEF BuyInv, BuyLocks
<1>3. BuyApproved(c)' /\ BuyHistory(c)'
  BY DEF BuyInv, BuyApproved, BuyHistory
<1>4. BuyPending(c)'
  <2>1. txn'[w] = t /\ \A v \in Workers \ {w} : txn'[v] = txn[v]
    BY DEF BuyInv, BuyTypes
  <2>2. ASSUME NEW v \in Workers, (txn[v] # Still)' PROVE Pending(txn[v])'
    <3>1. CASE v = w
      BY <2>1, <3>1 DEF Pending
    <3>2. CASE v # w
      <4>1. txn'[v] = txn[v] /\ Pending(txn[v])
        BY <2>1, <2>2, <3>2 DEF BuyInv, BuyPending
      <4> QED
        BY <4>1 DEF Pending
    <3> QED
      BY <3>1, <3>2
  <2> QED
    BY <2>2 DEF BuyPending
<1> QED
  BY <1>1, <1>2, <1>3, <1>4, StatusMoved DEF BuyInv

\* A request goes on with what it has read.
LEMMA WentOnStep ==
    ASSUME NEW CONSTANT c, BuyInv(c), NEW w \in Workers, NEW t \in BuyWork(c), WentOn(c, w, t)
    PROVE  BuyInv(c)'
<1> USE DEF WentOn
<1>0. txn'[w] = t /\ t # Still /\ \A v \in Workers \ {w} : txn'[v] = txn[v]
  BY BuyShapes DEF BuyInv, BuyTypes
<1>1. BuyTypes(c)'
  BY DEF BuyInv, BuyTypes
<1>2. BuyLocks(c)'
  <2>1. \A d : Document(c, d)' = Document(c, d)
    BY DEF Document
  <2>2. \A v \in Workers : txn'[v] # Still => txn[v] # Still /\ txn'[v].doc = txn[v].doc /\ txn'[v].before = txn[v].before
    BY <1>0
  <2> QED
    BY <2>1, <2>2 DEF BuyInv, BuyLocks
<1>3. BuyApproved(c)' /\ BuyHistory(c)'
  BY DEF BuyInv, BuyApproved, BuyHistory
<1>4. BuyPending(c)'
  BY <1>0 DEF BuyInv, BuyPending, Pending
<1> QED
  BY <1>1, <1>2, <1>3, <1>4, StatusMoved DEF BuyInv

\* An error or a crash gives the lock up and leaves the tables as they are.
LEMMA GivenUpStep ==
    ASSUME NEW CONSTANT c, BuyInv(c), NEW w \in Workers, GivenUp(w)
    PROVE  BuyInv(c)'
<1> USE DEF GivenUp
<1>1. BuyTypes(c)'
  BY DEF BuyInv, BuyTypes
<1>2. BuyLocks(c)'
  <2>1. txn'[w] = Still /\ \A v \in Workers \ {w} : txn'[v] = txn[v]
    BY DEF BuyInv, BuyTypes
  <2>2. \A d : Document(c, d)' = Document(c, d)
    BY DEF Document
  <2> QED
    BY <2>1, <2>2 DEF BuyInv, BuyLocks
<1>3. BuyApproved(c)' /\ BuyHistory(c)'
  BY DEF BuyInv, BuyApproved, BuyHistory
<1>4. BuyPending(c)'
  <2>1. \A v \in Workers : txn'[v] # Still => txn'[v] = txn[v]
    BY DEF BuyInv, BuyTypes
  <2> QED
    BY <2>1, PendingKept
<1> QED
  BY <1>1, <1>2, <1>3, <1>4, StatusMoved DEF BuyInv

\* The status of a locked order moves, with a change record.
LEMMA OrderMovedStep ==
    ASSUME NEW CONSTANT c, BuyInv(c), c.orders \cap c.returns = {}, NEW w \in Workers, NEW o \in c.orders,
           NEW x \in BuyOrder(c), NEW e \in Entry, OrderMoved(c, w, o, x, e)
    PROVE  BuyInv(c)'
<1> USE DEF OrderMoved
<1>1. orders'[o] = x /\ x # Gone /\ \A j \in c.orders \ {o} : orders'[j] = orders[j]
  BY BuyShapes DEF BuyInv, BuyTypes
<1>2. /\ trail'[o] = Append(trail[o], e) /\ trail[o] \in Seq(Entry)
      /\ \A j \in c.orders \ {o} : trail'[j] = trail[j]
  BY DEF BuyInv, BuyTypes
<1>3. BuyTypes(c)'
  <2>1. trail' \in [c.orders \cup c.returns -> Seq(Entry)]
    <3>1. Append(trail[o], e) \in Seq(Entry)
      BY <1>2
    <3> QED
      BY <3>1 DEF BuyInv, BuyTypes
  <2> QED
    BY <2>1 DEF BuyInv, BuyTypes
<1>4. BuyLocks(c)'
  <2>1. \A v \in Workers : txn'[v] # Still => v # w /\ txn'[v] = txn[v] /\ txn[v].doc # o
    BY DEF BuyInv, BuyTypes, BuyLocks
  <2>2. \A v \in Workers : txn'[v] # Still => Document(c, txn[v].doc)' = Document(c, txn[v].doc)
    BY <1>1, <2>1 DEF Document
  <2> QED
    BY <2>1, <2>2 DEF BuyInv, BuyLocks
<1>7. BuyPending(c)'
  <2>1. \A v \in Workers : txn'[v] # Still => txn'[v] = txn[v] /\ txn[v] # Still /\ txn[v].doc # o
    BY DEF BuyInv, BuyTypes, BuyLocks
  <2>2. \A v \in Workers : txn'[v] # Still /\ txn[v].op = "lines" => txn[v].doc \in c.orders
    BY <2>1, OpenOrderWork DEF OrderOp
  <2>3. \A v \in Workers : txn'[v] # Still /\ txn[v].op = "lines" => orders'[txn[v].doc] = orders[txn[v].doc]
    BY <1>1, <2>1, <2>2
  <2> QED
    BY <2>1, <2>3, PendingKept
<1>5. BuyApproved(c)'
  <2>1. \A r \in c.receipts : receipts[r] # Gone => receipts[r].order \in c.orders \ {o}
    BY DEF BuyInv, BuyTypes, BuyReceipt, BuyApproved
  <2> QED
    BY <1>1, <2>1 DEF BuyInv, BuyApproved
<1>6. BuyHistory(c)'
  <2>1. Tells(trail[o], e.before)
    BY DEF BuyInv, BuyHistory, OrderView
  <2>2. Tells(trail'[o], OrderView(x))
    BY <1>2, <2>1, TellsMore
  <2> QED
    BY <1>1, <1>2, <2>2 DEF BuyInv, BuyHistory
<1> QED
  BY <1>1, <1>3, <1>4, <1>5, <1>6, <1>7, StatusMoved DEF BuyInv

-----------------------------------------------------------------------------
(* Receipts and returns of Buy. *)

\* A receipt r of order o: the lines of o count it, and its goods are in stock.
ReceiptPosted(c, w, o, r, x, y) ==
    /\ txn[w] # Still /\ txn[w].doc = o
    /\ orders[o] # Gone /\ orders[o].status = 3
    /\ receipts[r] = Gone /\ x.order = o
    /\ y.status = 3 /\ DOMAIN y.lines = DOMAIN orders[o].lines
    /\ \A n \in DOMAIN y.lines :
         LET l == orders[o].lines[n]  k == y.lines[n] IN
         /\ k.returned = l.returned /\ k.quantity = l.quantity
         /\ k.received = l.received + Got(x, n)
         /\ IF OfLine(x.lines, n) = {} THEN k.closed = l.closed
            ELSE k.received <= k.quantity /\ k.closed = (k.received >= k.quantity)
    /\ orders' = [orders EXCEPT ![o] = y]
    /\ receipts' = [receipts EXCEPT ![r] = x]
    /\ DOMAIN stock \subseteq DOMAIN stock' /\ DOMAIN stock' \subseteq c.items \X c.warehouses
    /\ stock' \in [DOMAIN stock' -> Int]
    /\ \A p \in DOMAIN c.opening : stock'[p] = stock[p] + Came(x, p)
    /\ txn' = [txn EXCEPT ![w] = Still]
    /\ UNCHANGED <<returns, invoices, trail>>

\* Return t is saved as y, by a request that had its lock or created it.
ReturnSaved(c, t, y) ==
    /\ returns' = [returns EXCEPT ![t] = y]
    /\ returns[t] # Gone => returns[t].status # 3
    /\ txn' \in [Workers -> BuyWork(c) \cup {Still}]
    /\ \A v \in Workers : txn'[v] # Still => txn'[v] = txn[v] /\ txn[v].doc # t
    /\ trail' \in [c.orders \cup c.returns -> Seq(Entry)] /\ \A o \in c.orders : trail'[o] = trail[o]
    /\ UNCHANGED <<receipts, invoices>>

\* If that does not approve it, nothing is counted.
ReturnUnsettled(y) ==
    /\ y.status # 3 /\ \A j \in DOMAIN y.lines : Joins(y.lines[j])
    /\ UNCHANGED <<orders, stock>>

\* Approving it takes its goods out of stock and counts them on order lines.
ReturnSettled(c, t, y) ==
    /\ returns[t] # Gone /\ y.status = 3 /\ y.lines = returns[t].lines
    /\ DOMAIN stock \subseteq DOMAIN stock' /\ DOMAIN stock' \subseteq c.items \X c.warehouses
    /\ stock' \in [DOMAIN stock' -> Int]
    /\ \A p \in DOMAIN c.opening : stock'[p] = stock[p] - Went(y, p)
    /\ orders' \in [c.orders -> BuyOrder(c) \cup {Gone}]
    /\ \A o \in c.orders :
         /\ orders'[o] # Gone <=> orders[o] # Gone
         /\ orders[o] # Gone =>
              /\ orders'[o].status = orders[o].status
              /\ DOMAIN orders'[o].lines = DOMAIN orders[o].lines
              /\ \A n \in DOMAIN orders[o].lines :
                   LET l == orders[o].lines[n]  k == orders'[o].lines[n] IN
                   /\ k.received = l.received /\ k.quantity = l.quantity /\ k.closed = l.closed
                   /\ k.returned = l.returned + Back(y, o, n)

\* A receipt line moves an integer.
LEMMA ReceiptMoves ==
    ASSUME NEW CONSTANT c, NEW x \in BuyReceipt(c)
    PROVE  (\A n : Got(x, n) \in Int) /\ (\A p : Came(x, p) \in Int)
<1>1. x.lines \in Seq(BuyReceiptLine(c)) /\ \A l \in BuyReceiptLine(c) : l.quantity \in Int
  BY DEF BuyReceipt, BuyReceiptLine
<1>2. IsFiniteSet(DOMAIN x.lines) /\ \A j \in DOMAIN x.lines : x.lines[j].quantity \in Int
  BY <1>1, Listed
<1>4. ASSUME NEW n PROVE Got(x, n) \in Int
  <2>1. OfLine(x.lines, n) \in SUBSET DOMAIN x.lines
    BY DEF OfLine
  <2> QED
    BY <1>2, <2>1, MoveInt DEF Got
<1>5. ASSUME NEW p PROVE Came(x, p) \in Int
  <2>1. PlacedAt(x.lines, p) \in SUBSET DOMAIN x.lines
    BY DEF PlacedAt
  <2> QED
    BY <1>2, <2>1, MoveInt DEF Came
<1> QED
  BY <1>4, <1>5

\* So does a return line.
LEMMA ReturnMoves ==
    ASSUME NEW CONSTANT c, NEW x \in BuyReturn(c)
    PROVE  (\A o, n : Back(x, o, n) \in Int) /\ (\A p : Went(x, p) \in Int)
<1>1. x.lines \in ListsOf(1, BuyReturnLine(c)) /\ 1 \in Nat
  BY DEF BuyReturn
<1>2. IsFiniteSet(DOMAIN x.lines) /\ \A j \in DOMAIN x.lines : x.lines[j] \in BuyReturnLine(c)
  BY <1>1, ListShape
<1>3. \A j \in DOMAIN x.lines : x.lines[j].quantity \in Int
  BY <1>2 DEF BuyReturnLine
<1>4. ASSUME NEW o, NEW n PROVE Back(x, o, n) \in Int
  <2>1. BackOn(x.lines, o, n) \in SUBSET DOMAIN x.lines
    BY DEF BackOn
  <2> QED
    BY <1>2, <1>3, <2>1, MoveInt DEF Back
<1>5. ASSUME NEW p PROVE Went(x, p) \in Int
  <2>1. BackTo(x.lines, p) \in SUBSET DOMAIN x.lines
    BY DEF BackTo
  <2> QED
    BY <1>2, <1>3, <2>1, MoveInt DEF Went
<1> QED
  BY <1>4, <1>5

\* What the returns move does not change when a receipt is added.
LEMMA ReturnsStand ==
    ASSUME NEW CONSTANT c, BuyTypes(c), BuyStock(c), returns' = returns,
           \A r \in c.receipts : receipts[r] # Gone => receipts'[r] = receipts[r]
    PROVE  /\ Settled' = Settled
           /\ \A t \in c.returns : returns'[t] # Gone =>
                \A j \in DOMAIN returns'[t].lines : Joins(returns[t].lines[j])'
           /\ \A p : TotalWent(p)' = TotalWent(p)
           /\ \A o, n : TotalBack(o, n)' = TotalBack(o, n)
<1>1. ASSUME NEW t \in c.returns, returns[t] # Gone, NEW j \in DOMAIN returns[t].lines
      PROVE  /\ receipts'[returns[t].lines[j].receipt] = receipts[returns[t].lines[j].receipt]
             /\ receipts[returns[t].lines[j].receipt] # Gone
             /\ returns[t].lines[j].line \in DOMAIN receipts[returns[t].lines[j].receipt].lines
  <2>1. returns[t].lines \in ListsOf(1, BuyReturnLine(c)) /\ 1 \in Nat
    BY <1>1 DEF BuyTypes, BuyReturn
  <2>2. returns[t].lines[j] \in BuyReturnLine(c)
    BY <2>1, ListShape
  <2> QED
    BY <1>1, <2>2 DEF BuyReturnLine, BuyStock, Joins
<1>2. \A t \in Settled : t \in c.returns /\ returns[t] # Gone
  BY DEF Settled, BuyTypes
<1>3. Settled' = Settled
  BY DEF Settled
<1>4. ASSUME NEW p PROVE TotalWent(p)' = TotalWent(p)
  <2>1. ASSUME NEW t \in Settled PROVE BackTo(returns[t].lines, p)' = BackTo(returns[t].lines, p)
    BY <1>1, <1>2 DEF BackTo, Joined
  <2>2. ASSUME NEW t \in Settled PROVE Went(returns[t], p)' = Went(returns[t], p)
    BY <2>1 DEF Went
  <2> QED
    BY <1>3, <2>2 DEF TotalWent
<1>5. ASSUME NEW o, NEW n PROVE TotalBack(o, n)' = TotalBack(o, n)
  <2>1. ASSUME NEW t \in Settled PROVE BackOn(returns[t].lines, o, n)' = BackOn(returns[t].lines, o, n)
    BY <1>1, <1>2 DEF BackOn, Joined
  <2>2. ASSUME NEW t \in Settled PROVE Back(returns[t], o, n)' = Back(returns[t], o, n)
    BY <2>1 DEF Back
  <2> QED
    BY <1>3, <2>2 DEF TotalBack
<1> QED
  BY <1>1, <1>3, <1>4, <1>5 DEF Joins

\* What settled returns took is an integer.
LEMMA SettledSums ==
    ASSUME NEW CONSTANT c, BuyTypes(c), BuyStock(c)
    PROVE  (\A p : TotalWent(p) \in Int) /\ (\A o, n : TotalBack(o, n) \in Int)
<1>1. IsFiniteSet(Settled) /\ \A t \in Settled : returns[t] \in BuyReturn(c)
  BY DEF Settled, BuyTypes, BuyStock
<1>2. ASSUME NEW p PROVE TotalWent(p) \in Int
  <2> DEFINE f == [t \in Settled |-> Went(returns[t], p)]
  <2>1. \A t \in Settled : f[t] \in Int
    BY <1>1, ReturnMoves
  <2> HIDE DEF f
  <2>2. SumFunctionOnSet(f, Settled) \in Int
    BY <1>1, <2>1, SumInt
  <2> QED
    BY <2>2 DEF TotalWent, f
<1>3. ASSUME NEW o, NEW n PROVE TotalBack(o, n) \in Int
  <2> DEFINE f == [t \in Settled |-> Back(returns[t], o, n)]
  <2>1. \A t \in Settled : f[t] \in Int
    BY <1>1, ReturnMoves
  <2> HIDE DEF f
  <2>2. SumFunctionOnSet(f, Settled) \in Int
    BY <1>1, <2>1, SumInt
  <2> QED
    BY <2>2 DEF TotalBack, f
<1> QED
  BY <1>2, <1>3

\* What receipts brought is an integer.
LEMMA ReceivedSums ==
    ASSUME NEW CONSTANT c, BuyTypes(c), IsFiniteSet(Received)
    PROVE  \A p : TotalCame(p) \in Int
<1>1. \A r \in Received : receipts[r] \in BuyReceipt(c)
  BY DEF Received, BuyTypes
<1>2. ASSUME NEW p PROVE TotalCame(p) \in Int
  <2> DEFINE f == [r \in Received |-> Came(receipts[r], p)]
  <2>1. \A r \in Received : f[r] \in Int
    BY <1>1, ReceiptMoves
  <2> HIDE DEF f
  <2>2. SumFunctionOnSet(f, Received) \in Int
    BY <2>1, SumInt
  <2> QED
    BY <2>2 DEF TotalCame, f
<1> QED
  BY <1>2

\* A receipt is posted: order lines, stock and invoice follow.
LEMMA ReceiptPostedStep ==
    ASSUME NEW CONSTANT c, Bought(c), BuyInv(c), NEW w \in Workers, NEW o \in c.orders, NEW r \in c.receipts,
           NEW x \in BuyReceipt(c), NEW y \in BuyOrder(c), ReceiptPosted(c, w, o, r, x, y)
    PROVE  BuyInv(c)'
<1>0. c.orders \cap c.returns = {} /\ x # Gone /\ y # Gone
  BY BuyShapes DEF Bought, Buy!PurchaseAssumption
<1> USE DEF ReceiptPosted
<1>1. orders'[o] = y /\ \A j \in c.orders \ {o} : orders'[j] = orders[j]
  BY DEF BuyInv, BuyTypes
<1>2. receipts'[r] = x /\ \A q \in c.receipts \ {r} : receipts'[q] = receipts[q]
  BY DEF BuyInv, BuyTypes
<1>3. BuyTypes(c)'
  <2>1. DOMAIN c.opening \subseteq DOMAIN stock'
    BY DEF BuyInv, BuyTypes
  <2> QED
    BY <2>1 DEF BuyInv, BuyTypes
<1>4. BuyLocks(c)'
  <2>1. \A v \in Workers : txn'[v] # Still => v # w /\ txn'[v] = txn[v] /\ txn[v].doc # o
    BY DEF BuyInv, BuyTypes, BuyLocks
  <2>2. \A v \in Workers : txn'[v] # Still => Document(c, txn[v].doc)' = Document(c, txn[v].doc)
    BY <1>1, <2>1 DEF Document
  <2> QED
    BY <2>1, <2>2 DEF BuyInv, BuyLocks
<1>13. BuyPending(c)'
  <2>1. \A v \in Workers : txn'[v] # Still => txn'[v] = txn[v] /\ txn[v] # Still /\ txn[v].doc # o
    BY DEF BuyInv, BuyTypes, BuyLocks
  <2>2. \A v \in Workers : txn'[v] # Still /\ txn[v].op = "lines" => txn[v].doc \in c.orders
    BY <2>1, OpenOrderWork DEF OrderOp
  <2>3. \A v \in Workers : txn'[v] # Still /\ txn[v].op = "lines" => orders'[txn[v].doc] = orders[txn[v].doc]
    BY <1>1, <2>1, <2>2
  <2> QED
    BY <2>1, <2>3, PendingKept
<1>5. BuyApproved(c)'
  <2>1. ASSUME NEW q \in c.receipts, receipts'[q] # Gone
        PROVE  orders'[receipts'[q].order] # Gone /\ orders'[receipts'[q].order].status = 3
    <3>1. CASE q = r
      BY <1>0, <1>1, <1>2, <3>1
    <3>2. CASE q # r
      <4>1. receipts'[q] = receipts[q] /\ receipts[q].order \in c.orders
        BY <1>2, <2>1, <3>2 DEF BuyInv, BuyTypes, BuyReceipt
      <4> QED
        BY <1>0, <1>1, <2>1, <4>1 DEF BuyInv, BuyApproved
    <3> QED
      BY <3>1, <3>2
  <2> QED
    BY <2>1 DEF BuyApproved
<1>6. /\ Received' = Received \cup {r} /\ r \notin Received /\ Received \in SUBSET c.receipts
      /\ \A q \in Received : receipts'[q] = receipts[q] /\ receipts[q] \in BuyReceipt(c)
      /\ IsFiniteSet(Received) /\ IsFiniteSet(Received \cup {r})
  <2>1. Received' = Received \cup {r} /\ r \notin Received /\ Received \in SUBSET c.receipts
    BY <1>0, <1>2 DEF BuyInv, BuyTypes, Received
  <2>2. \A q \in Received : receipts'[q] = receipts[q] /\ receipts[q] \in BuyReceipt(c)
    BY <1>2, <2>1 DEF BuyInv, BuyTypes, Received
  <2>3. IsFiniteSet(Received) /\ IsFiniteSet(Received \cup {r})
    BY FS_AddElement DEF BuyInv, BuyPosted
  <2> QED
    BY <2>1, <2>2, <2>3
<1>7. ASSUME NEW j \in c.orders, j # o, NEW n PROVE TotalGot(j, n)' = TotalGot(j, n)
  <2>1. ReceivedOn(j)' = ReceivedOn(j)
    BY <1>2, <1>6, <1>7 DEF ReceivedOn
  <2>2. [q \in ReceivedOn(j) |-> Got(receipts[q], n)]' = [q \in ReceivedOn(j) |-> Got(receipts[q], n)]
    BY <1>6, <2>1 DEF ReceivedOn
  <2> QED
    BY <2>1, <2>2 DEF TotalGot
<1>14. ASSUME NEW j \in c.orders, NEW n
       PROVE  Posts(j, n)' <=> Posts(j, n) \/ (j = o /\ OfLine(x.lines, n) # {})
  <2>1. ReceivedOn(j)' = IF j = o THEN ReceivedOn(j) \cup {r} ELSE ReceivedOn(j)
    BY <1>2, <1>6 DEF ReceivedOn
  <2>2. \A q \in ReceivedOn(j) : receipts'[q] = receipts[q]
    BY <1>6 DEF ReceivedOn
  <2>3. Posts(j, n)' <=> \E q \in ReceivedOn(j)' : OfLine(receipts'[q].lines, n) # {}
    BY DEF Posts, OfLine
  <2> HIDE DEF ReceiptPosted
  <2> QED
    BY <1>2, <2>1, <2>2, <2>3 DEF Posts
<1>8. ASSUME NEW n PROVE TotalGot(o, n)' = TotalGot(o, n) + Got(x, n) /\ TotalGot(o, n) \in Int
  <2>1. /\ ReceivedOn(o)' = ReceivedOn(o) \cup {r} /\ r \notin ReceivedOn(o)
        /\ ReceivedOn(o) \in SUBSET Received /\ IsFiniteSet(ReceivedOn(o))
    <3>1. ReceivedOn(o)' = ReceivedOn(o) \cup {r} /\ r \notin ReceivedOn(o)
      BY <1>2, <1>6 DEF ReceivedOn
    <3>2. ReceivedOn(o) \in SUBSET Received
      BY DEF ReceivedOn
    <3> QED
      BY <1>6, <3>1, <3>2, FS_Subset
  <2> DEFINE f == [q \in ReceivedOn(o) |-> Got(receipts[q], n)]
             e == [q \in ReceivedOn(o) \cup {r} |-> Got(receipts'[q], n)]
  <2>2. (\A q \in ReceivedOn(o) : f[q] \in Int /\ e[q] = f[q]) /\ e[r] = Got(x, n) /\ Got(x, n) \in Int
    BY <1>2, <1>6, <2>1, ReceiptMoves
  <2>3. TotalGot(o, n) = SumFunctionOnSet(f, ReceivedOn(o))
    BY DEF TotalGot
  <2>4. TotalGot(o, n)' = SumFunctionOnSet(e, ReceivedOn(o) \cup {r})
    BY <2>1 DEF TotalGot
  <2> HIDE DEF f, e, ReceiptPosted
  <2>5. SumFunctionOnSet(f, ReceivedOn(o)) \in Int
    BY <2>1, <2>2, SumInt
  <2>6. SumFunctionOnSet(e, ReceivedOn(o) \cup {r}) = SumFunctionOnSet(f, ReceivedOn(o)) + e[r]
    <3>1. /\ IsFiniteSet(ReceivedOn(o)) /\ r \notin ReceivedOn(o) /\ e[r] \in Int
          /\ \A q \in ReceivedOn(o) : f[q] \in Int /\ e[q] = f[q]
      BY <2>1, <2>2
    <3> QED
      BY <3>1, SumExtended
  <2> QED
    BY <2>2, <2>3, <2>4, <2>5, <2>6
<1>9. BuyPosted(c)'
  <2>1. ASSUME NEW n \in DOMAIN y.lines PROVE LinePosted(y.lines[n], TotalGot(o, n)', Posts(o, n)')
    <3>1. LinePosted(orders[o].lines[n], TotalGot(o, n), Posts(o, n))
      BY DEF BuyInv, BuyPosted
    <3>2. OfLine(x.lines, n) = {} => Got(x, n) = 0
      BY MoveNothing DEF Got
    <3>3. Got(x, n) \in Int /\ TotalGot(o, n) \in Int /\ TotalGot(o, n)' = TotalGot(o, n) + Got(x, n)
      BY <1>8, ReceiptMoves
    <3>4. y.lines[n].quantity \in Int /\ y.lines[n].received \in Int
      <4>1. y.lines \in ListsOf(c.lines, Buy(c)!OrderLine) /\ c.lines \in Nat
        BY DEF BuyOrder, Bought, Buy!PurchaseAssumption
      <4>2. y.lines[n] \in Buy(c)!OrderLine
        BY <4>1, ListShape
      <4> QED
        BY <4>2 DEF Buy!OrderLine
    <3>7. Posts(o, n)' <=> Posts(o, n) \/ OfLine(x.lines, n) # {}
      BY <1>14
    <3>8. orders[o].lines[n].received = TotalGot(o, n)
      BY <3>1 DEF LinePosted
    <3>9. y.lines[n].received = TotalGot(o, n)'
      BY <3>3, <3>8
    <3>5. CASE OfLine(x.lines, n) = {}
      <4>1. y.lines[n].received = orders[o].lines[n].received
        BY <3>2, <3>3, <3>5, <3>8, <3>9
      <4>2. y.lines[n].closed = orders[o].lines[n].closed /\ y.lines[n].quantity = orders[o].lines[n].quantity
        BY <3>5
      <4> HIDE DEF ReceiptPosted
      <4> QED
        BY <3>1, <3>5, <3>7, <3>9, <4>1, <4>2 DEF LinePosted
    <3>6. CASE OfLine(x.lines, n) # {}
      <4>1. y.lines[n].received <= y.lines[n].quantity /\ y.lines[n].closed = (y.lines[n].received >= y.lines[n].quantity)
        BY <3>6
      <4> HIDE DEF ReceiptPosted
      <4>2. y.lines[n].closed <=> y.lines[n].received = y.lines[n].quantity
        <5>1. CASE y.lines[n].received >= y.lines[n].quantity
          <6>1. y.lines[n].received = y.lines[n].quantity
            BY <3>4, <4>1, <5>1
          <6>2. y.lines[n].closed
            BY <4>1, <5>1, Zenon
          <6> QED
            BY <6>1, <6>2
        <5>2. CASE ~(y.lines[n].received >= y.lines[n].quantity)
          <6>1. y.lines[n].received # y.lines[n].quantity
            BY <3>4, <5>2
          <6>2. ~ y.lines[n].closed
            BY <4>1, <5>2, Zenon
          <6> QED
            BY <6>1, <6>2
        <5> QED
          BY <5>1, <5>2
      <4> QED
        BY <3>6, <3>7, <3>9, <4>1, <4>2 DEF LinePosted
    <3> QED
      BY <3>5, <3>6
  <2>2. ASSUME NEW j \in c.orders, orders'[j] # Gone, NEW n \in DOMAIN orders'[j].lines
        PROVE  LinePosted(orders'[j].lines[n], TotalGot(j, n)', Posts(j, n)')
    <3>1. CASE j = o
      BY <1>1, <2>1, <2>2, <3>1
    <3>2. CASE j # o
      <4>1. TotalGot(j, n)' = TotalGot(j, n) /\ (Posts(j, n)' <=> Posts(j, n))
        BY <1>7, <1>14, <3>2
      <4>2. LinePosted(orders'[j].lines[n], TotalGot(j, n), Posts(j, n))
        BY <1>1, <2>2, <3>2 DEF BuyInv, BuyPosted
      <4> HIDE DEF ReceiptPosted
      <4> QED
        BY <4>1, <4>2 DEF LinePosted
    <3> QED
      BY <3>1, <3>2
  <2> QED
    BY <1>6, <2>2 DEF BuyPosted, LinePosted
<1>10. ASSUME NEW p PROVE TotalCame(p)' = TotalCame(p) + Came(x, p) /\ TotalCame(p) \in Int
  <2> DEFINE f == [q \in Received |-> Came(receipts[q], p)]
             e == [q \in Received \cup {r} |-> Came(receipts'[q], p)]
  <2>1. (\A q \in Received : f[q] \in Int /\ e[q] = f[q]) /\ e[r] = Came(x, p) /\ Came(x, p) \in Int
    BY <1>2, <1>6, ReceiptMoves
  <2>2. TotalCame(p) = SumFunctionOnSet(f, Received)
    BY DEF TotalCame
  <2>3. TotalCame(p)' = SumFunctionOnSet(e, Received \cup {r})
    BY <1>6 DEF TotalCame
  <2> HIDE DEF f, e, ReceiptPosted
  <2>4. SumFunctionOnSet(f, Received) \in Int
    BY <1>6, <2>1, SumInt
  <2>5. SumFunctionOnSet(e, Received \cup {r}) = SumFunctionOnSet(f, Received) + e[r]
    <3>1. /\ IsFiniteSet(Received) /\ r \notin Received /\ e[r] \in Int
          /\ \A q \in Received : f[q] \in Int /\ e[q] = f[q]
      BY <1>6, <2>1
    <3> QED
      BY <3>1, SumExtended
  <2> QED
    BY <2>1, <2>2, <2>3, <2>4, <2>5
<1>11. BuyStock(c)'
  <2>1. /\ Settled' = Settled
        /\ \A t \in c.returns : returns'[t] # Gone =>
             \A j \in DOMAIN returns'[t].lines : Joins(returns[t].lines[j])'
        /\ \A p : TotalWent(p)' = TotalWent(p)
        /\ \A j, n : TotalBack(j, n)' = TotalBack(j, n)
    BY <1>2, ReturnsStand DEF BuyInv
  <2>2. ASSUME NEW p \in DOMAIN c.opening
        PROVE  stock'[p] = c.opening[p] + TotalCame(p)' - TotalWent(p)'
    <3>1. /\ stock'[p] = stock[p] + Came(x, p) /\ stock[p] = c.opening[p] + TotalCame(p) - TotalWent(p)
          /\ c.opening[p] \in Int
      BY DEF BuyInv, BuyStock, Bought, Buy!PurchaseAssumption
    <3>2. TotalWent(p) \in Int
      BY SettledSums DEF BuyInv
    <3> QED
      BY <1>10, <2>1, <3>1, <3>2, ReceiptMoves
  <2>3. \A j \in c.orders : orders'[j] # Gone =>
          \A n \in DOMAIN orders'[j].lines : orders'[j].lines[n].returned = TotalBack(j, n)'
    BY <1>0, <1>1, <2>1 DEF BuyInv, BuyStock
  <2>4. IsFiniteSet(Received') /\ IsFiniteSet(Settled')
    BY <1>6, <2>1 DEF BuyInv, BuyStock
  <2> QED
    BY <2>1, <2>2, <2>3, <2>4 DEF BuyStock
<1>12. BuyHistory(c)'
  <2>1. OrderView(y) = OrderView(orders[o])
    BY DEF OrderView
  <2> QED
    BY <1>0, <1>1, <2>1 DEF BuyInv, BuyHistory
<1> QED
  BY <1>3, <1>4, <1>5, <1>9, <1>11, <1>12, <1>13 DEF BuyInv

\* The locks, and the rows they protect, while return t is saved.
LEMMA ReturnSavedLocks ==
    ASSUME NEW CONSTANT c, Bought(c), BuyInv(c), NEW t \in c.returns, NEW y \in BuyReturn(c),
           ReturnSaved(c, t, y),
           \A o \in c.orders : /\ orders'[o] # Gone <=> orders[o] # Gone
                               /\ orders[o] # Gone => orders'[o].status = orders[o].status
    PROVE  BuyLocks(c)' /\ BuyApproved(c)' /\ BuyHistory(c)'
<1> USE DEF ReturnSaved
<1>1. returns'[t] = y /\ \A s \in c.returns \ {t} : returns'[s] = returns[s]
  BY DEF BuyInv, BuyTypes
<1>2. ASSUME NEW v \in Workers, txn'[v] # Still
      PROVE  /\ txn[v].doc \in c.orders =>
                  /\ orders'[txn[v].doc] # Gone
                  /\ orders'[txn[v].doc].status = txn[v].before.status
             /\ txn[v].doc \notin c.orders =>
                  /\ returns'[txn[v].doc] # Gone
                  /\ returns'[txn[v].doc].status = txn[v].before.status
  <2>1. txn'[v] = txn[v] /\ txn[v].doc # t /\ txn[v].doc \in c.orders \cup c.returns
    BY <1>2 DEF BuyInv, BuyTypes, BuyWork, OrderWork, ReturnWork
  <2>2. Document(c, txn[v].doc) # Gone /\ Document(c, txn[v].doc).status = txn[v].before.status
    BY <1>2, <2>1 DEF BuyInv, BuyLocks
  <2>3. CASE txn[v].doc \in c.orders
    BY <2>1, <2>2, <2>3 DEF Document
  <2>4. CASE txn[v].doc \notin c.orders
    BY <1>1, <2>1, <2>2, <2>4 DEF Document
  <2> QED
    BY <2>3, <2>4
<1>3. BuyLocks(c)'
  <2>1. \A v, w \in Workers : txn'[v] # Still /\ txn'[w] # Still /\ txn'[v].doc = txn'[w].doc => v = w
    BY DEF BuyInv, BuyLocks
  <2> QED
    BY <1>2, <2>1 DEF BuyLocks, Document
<1>4. BuyApproved(c)'
  <2>1. \A r \in c.receipts : receipts[r] # Gone => receipts[r].order \in c.orders
    BY DEF BuyInv, BuyTypes, BuyReceipt
  <2> QED
    BY <2>1 DEF BuyInv, BuyApproved
<1>5. BuyHistory(c)'
  BY DEF BuyInv, BuyHistory, OrderView
<1> QED
  BY <1>3, <1>4, <1>5

\* A return that is not settled moves no goods.
LEMMA ReturnUnsettledStep ==
    ASSUME NEW CONSTANT c, Bought(c), BuyInv(c), NEW t \in c.returns, NEW y \in BuyReturn(c),
           ReturnSaved(c, t, y), ReturnUnsettled(y)
    PROVE  BuyInv(c)'
<1> USE DEF ReturnSaved, ReturnUnsettled
<1>1. returns'[t] = y /\ \A s \in c.returns \ {t} : returns'[s] = returns[s]
  BY DEF BuyInv, BuyTypes
<1>2. BuyTypes(c)'
  BY DEF BuyInv, BuyTypes
<1>3. BuyLocks(c)' /\ BuyApproved(c)' /\ BuyHistory(c)'
  <2> HIDE DEF ReturnSaved
  <2> QED
    BY ReturnSavedLocks
<1>8. BuyPending(c)'
  BY PendingKept
<1>4. BuyPosted(c)'
  BY ReceiptsKept DEF BuyInv, BuyPosted, LinePosted
<1>5. Settled' = Settled /\ \A s \in Settled : returns'[s] = returns[s]
  BY <1>1 DEF Settled, BuyInv, BuyTypes
<1>6. /\ \A p : TotalWent(p)' = TotalWent(p)
      /\ \A o, n : TotalBack(o, n)' = TotalBack(o, n)
  <2>0. ASSUME NEW s \in Settled
        PROVE  returns'[s].lines = returns[s].lines /\ UNCHANGED receipts
    BY <1>5
  <2> HIDE DEF ReturnSaved, ReturnUnsettled
  <2>1. ASSUME NEW p PROVE TotalWent(p)' = TotalWent(p)
    <3>1. ASSUME NEW s \in Settled PROVE BackTo(returns[s].lines, p)' = BackTo(returns[s].lines, p)
      BY <2>0 DEF BackTo, Joined
    <3>2. ASSUME NEW s \in Settled PROVE Went(returns[s], p)' = Went(returns[s], p)
      BY <1>5, <3>1 DEF Went
    <3> QED
      BY <1>5, <3>2 DEF TotalWent
  <2>2. ASSUME NEW o, NEW n PROVE TotalBack(o, n)' = TotalBack(o, n)
    <3>1. ASSUME NEW s \in Settled PROVE BackOn(returns[s].lines, o, n)' = BackOn(returns[s].lines, o, n)
      BY <2>0 DEF BackOn, Joined
    <3>2. ASSUME NEW s \in Settled PROVE Back(returns[s], o, n)' = Back(returns[s], o, n)
      BY <1>5, <3>1 DEF Back
    <3> QED
      BY <1>5, <3>2 DEF TotalBack
  <2> QED
    BY <2>1, <2>2
<1>7. BuyStock(c)'
  <2>1. ASSUME NEW s \in c.returns, returns'[s] # Gone, NEW j \in DOMAIN returns'[s].lines
        PROVE  Joins(returns[s].lines[j])'
    BY <1>1, <2>1 DEF BuyInv, BuyStock, Joins
  <2>2. \A p \in DOMAIN c.opening : stock'[p] = c.opening[p] + TotalCame(p)' - TotalWent(p)'
    BY <1>6, ReceiptsKept DEF BuyInv, BuyStock
  <2>3. \A o \in c.orders : orders'[o] # Gone =>
          \A n \in DOMAIN orders'[o].lines : orders'[o].lines[n].returned = TotalBack(o, n)'
    BY <1>6 DEF BuyInv, BuyStock
  <2>4. IsFiniteSet(Received') /\ IsFiniteSet(Settled')
    BY <1>5, ReceiptsKept DEF BuyInv, BuyStock
  <2> QED
    BY <2>1, <2>2, <2>3, <2>4 DEF BuyStock
<1> QED
  BY <1>2, <1>3, <1>4, <1>7, <1>8 DEF BuyInv

\* A return is settled: its goods leave the stock once.
LEMMA ReturnSettledStep ==
    ASSUME NEW CONSTANT c, Bought(c), BuyInv(c), NEW t \in c.returns, NEW y \in BuyReturn(c),
           ReturnSaved(c, t, y), ReturnSettled(c, t, y)
    PROVE  BuyInv(c)'
<1> USE DEF ReturnSaved, ReturnSettled
<1>1. returns'[t] = y /\ y # Gone /\ \A s \in c.returns \ {t} : returns'[s] = returns[s]
  BY BuyShapes DEF BuyInv, BuyTypes
<1>2. BuyTypes(c)'
  <2>1. DOMAIN c.opening \subseteq DOMAIN stock'
    BY DEF BuyInv, BuyTypes
  <2> QED
    BY <2>1 DEF BuyInv, BuyTypes
<1>3. BuyLocks(c)' /\ BuyApproved(c)' /\ BuyHistory(c)'
  <2>1. \A o \in c.orders : /\ orders'[o] # Gone <=> orders[o] # Gone
                            /\ orders[o] # Gone => orders'[o].status = orders[o].status
    OBVIOUS
  <2> HIDE DEF ReturnSaved, ReturnSettled
  <2> QED
    BY <2>1, ReturnSavedLocks
<1>6. BuyPending(c)'
  <2>1. \A v \in Workers : txn'[v] # Still => txn'[v] = txn[v] /\ txn[v] # Still
    OBVIOUS
  <2>2. ASSUME NEW v \in Workers, txn'[v] # Still, txn[v].op = "lines"
        PROVE  txn[v].doc \in c.orders /\ orders[txn[v].doc] # Gone
    BY <2>1, <2>2, OpenOrderWork DEF OrderOp
  <2> QED
    BY <2>1, <2>2, PendingKept
<1>4. BuyPosted(c)'
  <2>1. ASSUME NEW o \in c.orders, orders'[o] # Gone, NEW n \in DOMAIN orders'[o].lines
        PROVE  LinePosted(orders'[o].lines[n], TotalGot(o, n), Posts(o, n))
    <3>1. orders[o] # Gone /\ n \in DOMAIN orders[o].lines
      BY <2>1
    <3>2. LinePosted(orders[o].lines[n], TotalGot(o, n), Posts(o, n))
      BY <3>1 DEF BuyInv, BuyPosted
    <3> QED
      BY <3>1, <3>2 DEF LinePosted
  <2>2. IsFiniteSet(Received') /\ \A o, n : TotalGot(o, n)' = TotalGot(o, n) /\ (Posts(o, n)' <=> Posts(o, n))
    BY ReceiptsKept DEF BuyInv, BuyPosted
  <2> QED
    BY <2>1, <2>2 DEF BuyPosted, LinePosted
<1>5. /\ Settled' = Settled \cup {t} /\ t \notin Settled /\ IsFiniteSet(Settled)
      /\ \A s \in Settled : returns'[s] = returns[s] /\ returns[s] \in BuyReturn(c)
  <2>1. Settled' = Settled \cup {t} /\ t \notin Settled
    BY <1>1 DEF Settled, BuyInv, BuyTypes
  <2>2. \A s \in Settled : returns'[s] = returns[s] /\ returns[s] \in BuyReturn(c)
    BY <1>1, <2>1 DEF Settled, BuyInv, BuyTypes
  <2> QED
    BY <2>1, <2>2 DEF BuyInv, BuyStock
<1>7. ASSUME NEW p PROVE TotalWent(p)' = TotalWent(p) + Went(y, p)
  <2> DEFINE f == [s \in Settled |-> Went(returns[s], p)]
             e == [s \in Settled \cup {t} |-> Went(returns'[s], p)]
  <2>1. (\A s \in Settled : f[s] \in Int /\ e[s] = f[s]) /\ e[t] = Went(y, p) /\ Went(y, p) \in Int
    BY <1>1, <1>5, ReturnMoves
  <2>2. TotalWent(p) = SumFunctionOnSet(f, Settled)
    BY DEF TotalWent
  <2>3. TotalWent(p)' = SumFunctionOnSet(e, Settled \cup {t})
    <3>1. ASSUME NEW s PROVE BackTo(returns[s].lines, p)' = BackTo(returns'[s].lines, p)
      BY DEF BackTo, Joined
    <3>2. ASSUME NEW s PROVE Went(returns[s], p)' = Went(returns'[s], p)
      BY <3>1 DEF Went
    <3> HIDE DEF ReturnSaved, ReturnSettled
    <3> QED
      BY <1>5, <3>2 DEF TotalWent
  <2> HIDE DEF f, e, ReturnSaved, ReturnSettled
  <2>4. SumFunctionOnSet(e, Settled \cup {t}) = SumFunctionOnSet(f, Settled) + e[t]
    BY <1>5, <2>1, SumExtended
  <2> QED
    BY <2>1, <2>2, <2>3, <2>4
<1>8. ASSUME NEW o, NEW n PROVE TotalBack(o, n)' = TotalBack(o, n) + Back(y, o, n)
  <2> DEFINE f == [s \in Settled |-> Back(returns[s], o, n)]
             e == [s \in Settled \cup {t} |-> Back(returns'[s], o, n)]
  <2>1. (\A s \in Settled : f[s] \in Int /\ e[s] = f[s]) /\ e[t] = Back(y, o, n) /\ Back(y, o, n) \in Int
    BY <1>1, <1>5, ReturnMoves
  <2>2. TotalBack(o, n) = SumFunctionOnSet(f, Settled)
    BY DEF TotalBack
  <2>3. TotalBack(o, n)' = SumFunctionOnSet(e, Settled \cup {t})
    <3>1. ASSUME NEW s PROVE BackOn(returns[s].lines, o, n)' = BackOn(returns'[s].lines, o, n)
      BY DEF BackOn, Joined
    <3>2. ASSUME NEW s PROVE Back(returns[s], o, n)' = Back(returns'[s], o, n)
      BY <3>1 DEF Back
    <3> QED
      BY <1>5, <3>2 DEF TotalBack
  <2> HIDE DEF f, e, ReturnSaved, ReturnSettled
  <2>4. SumFunctionOnSet(e, Settled \cup {t}) = SumFunctionOnSet(f, Settled) + e[t]
    BY <1>5, <2>1, SumExtended
  <2> QED
    BY <2>1, <2>2, <2>3, <2>4
<1>9. BuyStock(c)'
  <2>1. ASSUME NEW s \in c.returns, returns'[s] # Gone, NEW j \in DOMAIN returns'[s].lines
        PROVE  Joins(returns[s].lines[j])'
    BY <1>1, <2>1 DEF BuyInv, BuyStock, Joins
  <2>2. ASSUME NEW p \in DOMAIN c.opening
        PROVE  stock'[p] = c.opening[p] + TotalCame(p)' - TotalWent(p)'
    <3>1. /\ stock'[p] = stock[p] - Went(y, p) /\ stock[p] = c.opening[p] + TotalCame(p) - TotalWent(p)
          /\ c.opening[p] \in Int
      BY DEF BuyInv, BuyStock, Bought, Buy!PurchaseAssumption
    <3>2. TotalWent(p) \in Int /\ Went(y, p) \in Int
      BY SettledSums, ReturnMoves DEF BuyInv
    <3>3. TotalCame(p)' = TotalCame(p)
      BY ReceiptsKept
    <3>4. TotalCame(p) \in Int
      BY ReceivedSums DEF BuyInv, BuyStock
    <3> HIDE DEF ReturnSaved, ReturnSettled
    <3> QED
      BY <1>7, <3>1, <3>2, <3>3, <3>4
  <2>3. ASSUME NEW o \in c.orders, orders'[o] # Gone, NEW n \in DOMAIN orders'[o].lines
        PROVE  orders'[o].lines[n].returned = TotalBack(o, n)'
    <3>1. /\ orders[o] # Gone /\ n \in DOMAIN orders[o].lines
          /\ orders'[o].lines[n].returned = orders[o].lines[n].returned + Back(y, o, n)
      BY <2>3
    <3>2. orders[o].lines[n].returned = TotalBack(o, n)
      BY <3>1 DEF BuyInv, BuyStock
    <3> HIDE DEF ReturnSaved, ReturnSettled
    <3> QED
      BY <1>8, <3>1, <3>2
  <2>4. IsFiniteSet(Received') /\ IsFiniteSet(Settled')
    BY <1>5, ReceiptsKept, FS_AddElement DEF BuyInv, BuyStock
  <2> QED
    BY <2>1, <2>2, <2>3, <2>4 DEF BuyStock
<1> QED
  BY <1>2, <1>3, <1>4, <1>6, <1>9 DEF BuyInv

-----------------------------------------------------------------------------
(* The actions of Buy take these steps. *)

LEMMA BuyMoved == ASSUME NEW CONSTANT c PROVE \A ls, K : Buy(c)!Moved(ls, K) = Move(ls, K)
<1>1. \A f, S : Buy(c)!SumFunctionOnSet(f, S) = SumFunctionOnSet(f, S)
  BY DEF Buy!SumFunctionOnSet, SumFunctionOnSet, Buy!FoldFunctionOnSet, FoldFunctionOnSet,
         Buy!MapThenFoldSet, MapThenFoldSet
<1> QED
  BY <1>1 DEF Buy!Moved, Move

\* The statuses that the two flows lead to.
LEMMA BuyFlows ==
    ASSUME NEW CONSTANT c, NEW s \in 0..4 \cup {-1}
    PROVE  /\ Buy(c)!SubmitStatus(Buy(c)!PO_FLOW, s) = IF s = 0 THEN 1 ELSE 99
           /\ Buy(c)!SubmitStatus(Buy(c)!RET_FLOW, s) = IF s = 0 THEN 1 ELSE 99
           /\ Buy(c)!ApproveStatus(Buy(c)!PO_FLOW, s) = IF s = 1 THEN 2 ELSE IF s = 2 THEN 3 ELSE 99
           /\ Buy(c)!ApproveStatus(Buy(c)!RET_FLOW, s) = IF s = 1 THEN 3 ELSE 99
           /\ Buy(c)!RejectStatus(Buy(c)!PO_FLOW, s) = IF s \in {1, 2} THEN 4 ELSE 99
           /\ Buy(c)!Invalid = 99
<1> USE DEF Buy!PO_FLOW, Buy!RET_FLOW, Buy!Draft, Buy!Submitted, Buy!PendingSupervisor, Buy!Approved,
            Buy!Rejected, Buy!Invalid
<1>1. /\ Buy(c)!SubmitStatus(Buy(c)!PO_FLOW, s) = IF s = 0 THEN 1 ELSE 99
      /\ Buy(c)!SubmitStatus(Buy(c)!RET_FLOW, s) = IF s = 0 THEN 1 ELSE 99
      /\ Buy(c)!RejectStatus(Buy(c)!PO_FLOW, s) = IF s \in {1, 2} THEN 4 ELSE 99
      /\ Buy(c)!Invalid = 99
  BY DEF Buy!SubmitStatus, Buy!RejectStatus
<1>2. Buy(c)!ApproveStatus(Buy(c)!PO_FLOW, s) = IF s = 1 THEN 2 ELSE IF s = 2 THEN 3 ELSE 99
  <2> DEFINE ladder == << <<1, 2>>, <<2, 3>> >>
             hits == {k \in DOMAIN ladder : ladder[k][1] = s}
  <2>1. /\ DOMAIN ladder = {1, 2} /\ ladder[1][1] = 1 /\ ladder[1][2] = 2
        /\ ladder[2][1] = 2 /\ ladder[2][2] = 3
    OBVIOUS
  <2>2. Buy(c)!ApproveStatus(Buy(c)!PO_FLOW, s)
          = IF hits = {} THEN 99 ELSE ladder[CHOOSE k \in hits : \A j \in hits : k <= j][2]
    BY DEF Buy!ApproveStatus
  <2> HIDE DEF ladder
  <2>3. CASE s = 1
    <3>1. hits = {1}
      BY <2>1, <2>3
    <3> QED
      BY <2>1, <2>2, <2>3, <3>1
  <2>4. CASE s = 2
    <3>1. hits = {2}
      BY <2>1, <2>4
    <3> QED
      BY <2>1, <2>2, <2>4, <3>1
  <2>5. CASE s \notin {1, 2}
    <3>1. hits = {}
      BY <2>1, <2>5
    <3> QED
      BY <2>2, <2>5, <3>1
  <2> QED
    BY <2>3, <2>4, <2>5
<1>3. Buy(c)!ApproveStatus(Buy(c)!RET_FLOW, s) = IF s = 1 THEN 3 ELSE 99
  <2> DEFINE ladder == << <<1, 3>> >>
             hits == {k \in DOMAIN ladder : ladder[k][1] = s}
  <2>1. DOMAIN ladder = {1} /\ ladder[1][1] = 1 /\ ladder[1][2] = 3
    OBVIOUS
  <2>2. Buy(c)!ApproveStatus(Buy(c)!RET_FLOW, s)
          = IF hits = {} THEN 99 ELSE ladder[CHOOSE k \in hits : \A j \in hits : k <= j][2]
    BY DEF Buy!ApproveStatus
  <2> HIDE DEF ladder
  <2>3. CASE s = 1
    <3>1. hits = {1}
      BY <2>1, <2>3
    <3> QED
      BY <2>1, <2>2, <2>3, <3>1
  <2>4. CASE s # 1
    <3>1. hits = {}
      BY <2>1, <2>4
    <3> QED
      BY <2>2, <2>4, <3>1
  <2> QED
    BY <2>3, <2>4
<1> QED
  BY <1>1, <1>2, <1>3

\* create_order has the effect of an order created.
LEMMA BuyCreateOrder ==
    ASSUME NEW CONSTANT c, Bought(c), BuyInv(c), NEW o \in c.orders, Buy(c)!CreateOrder(o)
    PROVE  BuyInv(c)'
<1>1. PICK ls \in Buy(c)!Lines([item : c.items, quantity : c.quantities]) :
        orders' = [orders EXCEPT ![o] =
           [status |-> Buy(c)!Draft,
            lines |-> [n \in DOMAIN ls |->
                        [item |-> ls[n].item, quantity |-> ls[n].quantity,
                         received |-> 0, returned |-> 0, closed |-> FALSE]]]]
  BY DEF Buy!CreateOrder
<1> DEFINE zero == [n \in DOMAIN ls |-> [item |-> ls[n].item, quantity |-> ls[n].quantity,
                                         received |-> 0, returned |-> 0, closed |-> FALSE]]
<1>2. PICK m \in 1..c.lines : ls \in [1..m -> [item : c.items, quantity : c.quantities]]
  BY <1>1 DEF Buy!Lines
<1>3. zero \in [1..m -> Buy(c)!OrderLine]
  <2>1. ASSUME NEW n \in 1..m PROVE ls[n].item \in c.items /\ ls[n].quantity \in Int
    BY <1>2 DEF Bought, Buy!PurchaseAssumption
  <2> QED
    BY <1>2, <2>1 DEF Buy!OrderLine
<1>4. PICK x \in BuyOrder(c) : x = [status |-> 0, lines |-> zero]
  <2>1. zero \in ListsOf(c.lines, Buy(c)!OrderLine) /\ 0 \in 0..4 \cup {-1}
    BY <1>3 DEF ListsOf
  <2> HIDE DEF zero
  <2>2. [status |-> 0, lines |-> zero] \in BuyOrder(c)
    BY <2>1 DEF BuyOrder
  <2> QED
    BY <2>2
<1>5. PICK e \in Entry : e = [action |-> "created", before |-> Nothing, after |-> [status |-> 0]]
  <2>1. [status |-> 0] \in StatusView
    BY DEF StatusView
  <2>2. [action |-> "created", before |-> Nothing, after |-> [status |-> 0]] \in Entry
    BY <2>1 DEF Entry
  <2> QED
    BY <2>2
<1>6. OrderCreated(c, o, x, e)
  <2>1. orders[o] = Gone /\ orders' = [orders EXCEPT ![o] = x]
    BY <1>1, <1>4 DEF Buy!CreateOrder, Buy!Absent, Gone, Buy!Draft
  <2>2. /\ trail' = [trail EXCEPT ![o] = Append(@, e)]
        /\ UNCHANGED <<receipts, returns, invoices, stock, txn>>
    BY <1>5 DEF Buy!CreateOrder, Buy!RecordCreate, Buy!DraftRow, Buy!Draft, Buy!Nothing, Nothing
  <2>3. \A n \in DOMAIN x.lines : x.lines[n].received = 0 /\ x.lines[n].returned = 0 /\ ~x.lines[n].closed
    BY <1>4
  <2> QED
    BY <1>4, <1>5, <2>1, <2>2, <2>3 DEF OrderCreated
<1> QED
  BY <1>6, OrderCreatedStep DEF Bought, Buy!PurchaseAssumption

\* The statements that take a row lock have the effect of a lock taken.
LEMMA BuyLock ==
    ASSUME NEW CONSTANT c, Bought(c), BuyInv(c), NEW w \in Workers,
           \/ \E o \in c.orders : Buy(c)!LockOrder(w, o)
           \/ \E t \in c.returns : Buy(c)!LockReturn(w, t)
    PROVE  BuyInv(c)'
<1>1. ASSUME NEW op, NEW d, NEW row, Buy(c)!Lock(w, op, d, row), row = Document(c, d),
             NEW t \in BuyWork(c), op # "lines",
             t = [op |-> op, doc |-> d, before |-> [status |-> row.status],
                  todo |-> <<>>, done |-> <<>>, missed |-> {}]
      PROVE  BuyInv(c)'
  <2>1. \A v \in Workers : txn[v] # Still => txn[v].doc # d
    <3>1. \A v \in Workers : txn[v] # Still => txn[v].op # "idle"
      <4>1. /\ \A x : x \in OrderWork(c) => x.op # "idle"
            /\ \A x : x \in ReturnWork(c) => x.op # "idle"
        BY DEF OrderWork, OrderOp, ReturnWork
      <4> QED
        BY <4>1 DEF BuyInv, BuyTypes, BuyWork
    <3> QED
      BY <1>1, <3>1 DEF Buy!Lock, Buy!Free
  <2>2. Taken(c, w, t)
    BY <1>1, <2>1 DEF Taken, Buy!Lock, Buy!Snapshot, Buy!Absent, Gone, Buy!Idle, Still
  <2> QED
    BY <1>1, <2>2, TakenStep
<1>4. <<>> \in Seq(BuyReceiptLine(c)) /\ {} \in Missing(c)
  BY DEF Missing
<1>2. ASSUME NEW o \in c.orders, Buy(c)!LockOrder(w, o) PROVE BuyInv(c)'
  <2>1. PICK op \in {"submit", "approve", "reject", "delete", "receive"} : Buy(c)!Lock(w, op, o, orders[o])
    BY <1>2 DEF Buy!LockOrder, Buy!OrderOps
  <2>2. orders[o].status \in 0..4 \cup {-1}
    BY <2>1 DEF Buy!Lock, Buy!Absent, Gone, BuyInv, BuyTypes, BuyOrder
  <2>3. PICK t \in BuyWork(c) : t = [op |-> op, doc |-> o, before |-> [status |-> orders[o].status],
                                     todo |-> <<>>, done |-> <<>>, missed |-> {}]
    <3>1. [op |-> op, doc |-> o, before |-> [status |-> orders[o].status],
           todo |-> <<>>, done |-> <<>>, missed |-> {}] \in OrderWork(c)
      BY <1>4, <2>1, <2>2 DEF OrderWork, OrderOp
    <3> QED
      BY <3>1 DEF BuyWork
  <2> QED
    BY <1>1, <2>1, <2>3 DEF Document
<1>3. ASSUME NEW d \in c.returns, Buy(c)!LockReturn(w, d) PROVE BuyInv(c)'
  <2>1. PICK op \in {"submit_return", "approve_return"} : Buy(c)!Lock(w, op, d, returns[d])
    BY <1>3 DEF Buy!LockReturn
  <2>2. returns[d].status \in 0..4 \cup {-1}
    BY <2>1 DEF Buy!Lock, Buy!Absent, Gone, BuyInv, BuyTypes, BuyReturn
  <2>3. PICK t \in BuyWork(c) : t = [op |-> op, doc |-> d, before |-> [status |-> returns[d].status],
                                     todo |-> <<>>, done |-> <<>>, missed |-> {}]
    <3>1. [op |-> op, doc |-> d, before |-> [status |-> returns[d].status],
           todo |-> <<>>, done |-> <<>>, missed |-> {}] \in ReturnWork(c)
      BY <1>4, <2>1, <2>2 DEF ReturnWork
    <3> QED
      BY <3>1 DEF BuyWork
  <2>4. d \notin c.orders
    BY DEF Bought, Buy!PurchaseAssumption
  <2> QED
    BY <1>1, <2>1, <2>3, <2>4 DEF Document
<1> QED
  BY <1>2, <1>3

\* What an open request on a return has read.
LEMMA OpenReturnWork ==
    ASSUME NEW CONSTANT c, Bought(c), BuyInv(c), NEW w \in Workers,
           txn[w].op \in {"submit_return", "approve_return"}
    PROVE  /\ txn[w] # Still /\ txn[w] \in ReturnWork(c) /\ txn[w].doc \in c.returns
           /\ returns[txn[w].doc] \in BuyReturn(c)
           /\ returns[txn[w].doc].status \in 0..4 \cup {-1}
           /\ txn[w].before = [status |-> returns[txn[w].doc].status]
<1>1. txn[w] # Still /\ txn[w] \in ReturnWork(c)
  <2>1. txn[w] \in OrderWork(c) \cup ReturnWork(c) \cup {Still}
    BY DEF BuyInv, BuyTypes, BuyWork
  <2>2. /\ \A x \in OrderWork(c) : x.op \notin {"submit_return", "approve_return"}
        /\ Still.op \notin {"submit_return", "approve_return"}
    BY DEF OrderWork, OrderOp, Still
  <2> QED
    BY <2>1, <2>2
<1>2. txn[w].doc \in c.returns /\ txn[w].doc \notin c.orders
  BY <1>1 DEF ReturnWork, Bought, Buy!PurchaseAssumption
<1>3. returns[txn[w].doc] # Gone /\ returns[txn[w].doc].status = txn[w].before.status
  BY <1>1, <1>2 DEF BuyInv, BuyLocks, Document
<1>4. returns[txn[w].doc] \in BuyReturn(c)
  BY <1>2, <1>3 DEF BuyInv, BuyTypes
<1> QED
  BY <1>1, <1>2, <1>3, <1>4 DEF BuyReturn, ReturnWork

\* Submitting, approving, rejecting and deleting an order.
LEMMA BuyTransition ==
    ASSUME NEW CONSTANT c, Bought(c), BuyInv(c), NEW w \in Workers,
           Buy(c)!SubmitOrder(w) \/ Buy(c)!ApproveOrder(w) \/ Buy(c)!RejectOrder(w) \/ Buy(c)!DeleteOrder(w)
    PROVE  BuyInv(c)'
<1>1. txn[w].op \in OrderOp
  BY DEF OrderOp, Buy!SubmitOrder, Buy!ApproveOrder, Buy!RejectOrder, Buy!DeleteOrder, Buy!Transition
<1>2. PICK o \in c.orders : txn[w].doc = o
  BY <1>1, OpenOrderWork
<1>3. /\ txn[w] # Still /\ orders[o] \in BuyOrder(c) /\ orders[o].status \in 0..4 \cup {-1}
      /\ txn[w].before = [status |-> orders[o].status]
  BY <1>1, <1>2, OpenOrderWork
<1>4. ASSUME NEW s \in 0..4 \cup {-1}, orders[o].status \notin {3, -1}, NEW act \in {"updated", "deleted"},
             orders' = [orders EXCEPT ![o].status = s],
             trail' = [trail EXCEPT ![o] = Append(@, [action |-> act, before |-> txn[w].before,
                                                      after |-> IF s = -1 THEN Nothing ELSE [status |-> s]])],
             txn' = [txn EXCEPT ![w] = Still], UNCHANGED <<receipts, returns, invoices, stock>>
      PROVE  BuyInv(c)'
  <2>1. PICK x \in BuyOrder(c) : x = [orders[o] EXCEPT !.status = s]
    BY <1>3 DEF BuyOrder
  <2>2. x.status = s /\ x.lines = orders[o].lines
    BY <1>3, <2>1 DEF BuyOrder
  <2>3. PICK e \in Entry : e = [action |-> act, before |-> txn[w].before,
                                after |-> IF s = -1 THEN Nothing ELSE [status |-> s]]
    <3>1. [status |-> s] \in StatusView /\ txn[w].before \in StatusView
      BY <1>3 DEF StatusView
    <3>2. [action |-> act, before |-> txn[w].before,
           after |-> IF s = -1 THEN Nothing ELSE [status |-> s]] \in Entry
      BY <3>1 DEF Entry
    <3> QED
      BY <3>2
  <2>4. orders' = [orders EXCEPT ![o] = x]
    BY <1>4, <2>1
  <2>5. OrderMoved(c, w, o, x, e)
    BY <1>2, <1>3, <1>4, <2>2, <2>3, <2>4, BuyShapes DEF OrderMoved, OrderView
  <2> QED
    BY <2>5, OrderMovedStep DEF Bought, Buy!PurchaseAssumption
<1>5. ASSUME NEW op, NEW s, Buy(c)!Transition(w, op, s), orders[o].status \in {0, 1, 2}, s \in 1..4
      PROVE  BuyInv(c)'
  <2>1. /\ orders' = [orders EXCEPT ![o].status = s]
        /\ trail' = [trail EXCEPT ![o] = Append(@, [action |-> "updated", before |-> txn[w].before,
                                                    after |-> [status |-> s]])]
        /\ txn' = [txn EXCEPT ![w] = Still] /\ UNCHANGED <<receipts, returns, invoices, stock>>
    BY <1>2, <1>5 DEF Buy!Transition, Buy!RecordUpdated, Buy!End, Buy!Idle, Still
  <2>2. s # -1 /\ s \in 0..4 \cup {-1} /\ orders[o].status \notin {3, -1}
    BY <1>5
  <2> QED
    BY <1>4, <2>1, <2>2
<1>6. CASE Buy(c)!SubmitOrder(w)
  <2> DEFINE s == IF orders[o].status = 0 THEN 1 ELSE 99
  <2>1. txn[w].before.status = orders[o].status
    BY <1>3
  <2>2. Buy(c)!SubmitStatus(Buy(c)!PO_FLOW, txn[w].before.status) = s
    BY <1>3, <2>1, BuyFlows
  <2>3. Buy(c)!Transition(w, "submit", s) /\ s # 99
    BY <1>6, <2>2, BuyFlows DEF Buy!SubmitOrder, Buy!Transition
  <2>4. orders[o].status \in {0, 1, 2} /\ s \in 1..4
    BY <2>3
  <2> QED
    BY <1>5, <2>3, <2>4
<1>7. CASE Buy(c)!ApproveOrder(w)
  <2> DEFINE s == IF orders[o].status = 1 THEN 2 ELSE IF orders[o].status = 2 THEN 3 ELSE 99
  <2>1. txn[w].before.status = orders[o].status
    BY <1>3
  <2>2. Buy(c)!ApproveStatus(Buy(c)!PO_FLOW, txn[w].before.status) = s
    BY <1>3, <2>1, BuyFlows
  <2>3. Buy(c)!Transition(w, "approve", s) /\ s # 99
    BY <1>7, <2>2, BuyFlows DEF Buy!ApproveOrder, Buy!Transition
  <2>4. orders[o].status \in {0, 1, 2} /\ s \in 1..4
    BY <2>3
  <2> QED
    BY <1>5, <2>3, <2>4
<1>8. CASE Buy(c)!RejectOrder(w)
  <2> DEFINE s == IF orders[o].status \in {1, 2} THEN 4 ELSE 99
  <2>1. txn[w].before.status = orders[o].status
    BY <1>3
  <2>2. Buy(c)!RejectStatus(Buy(c)!PO_FLOW, txn[w].before.status) = s
    BY <1>3, <2>1, BuyFlows
  <2>3. Buy(c)!Transition(w, "reject", s) /\ s # 99
    BY <1>8, <2>2, BuyFlows DEF Buy!RejectOrder, Buy!Transition
  <2>4. orders[o].status \in {0, 1, 2} /\ s \in 1..4
    BY <2>3
  <2> QED
    BY <1>5, <2>3, <2>4
<1>9. CASE Buy(c)!DeleteOrder(w)
  <2>1. /\ orders' = [orders EXCEPT ![o].status = -1]
        /\ trail' = [trail EXCEPT ![o] = Append(@, [action |-> "deleted", before |-> txn[w].before,
                                                    after |-> Nothing])]
        /\ txn' = [txn EXCEPT ![w] = Still] /\ UNCHANGED <<receipts, returns, invoices, stock>>
    BY <1>2, <1>9
    DEF Buy!DeleteOrder, Buy!RecordDeleted, Buy!End, Buy!Idle, Still, Buy!Deleted, Buy!Nothing, Nothing
  <2>2. orders[o].status = 0
    BY <1>3, <1>9 DEF Buy!DeleteOrder, Buy!Draft
  <2>3. -1 \in 0..4 \cup {-1} /\ orders[o].status \notin {3, -1}
    BY <2>2
  <2> QED
    BY <1>4, <2>1, <2>3
<1> QED
  BY <1>6, <1>7, <1>8, <1>9

\* A receipt starts: none of its lines is taken yet.
LEMMA BuyStartReceipt ==
    ASSUME NEW CONSTANT c, Bought(c), BuyInv(c), NEW w \in Workers, Buy(c)!StartReceipt(w)
    PROVE  BuyInv(c)'
<1>1. txn[w].op = "receive" /\ txn[w].before.status = 3
  BY DEF Buy!StartReceipt, Buy!Approved
<1>2. /\ txn[w] # Still /\ txn[w] \in OrderWork(c) /\ orders[txn[w].doc] \in BuyOrder(c)
      /\ txn[w].done = <<>>
  BY <1>1, OpenOrderWork DEF OrderOp, Pending
<1>3. PICK ls \in {<<>>} \cup Buy(c)!Lines([line : DOMAIN orders[txn[w].doc].lines, item : c.items,
                                           warehouse : c.warehouses, quantity : c.moves]) :
         txn' = [txn EXCEPT ![w].op = "lines", ![w].todo = ls]
  BY DEF Buy!StartReceipt
<1>4. ls \in Seq(BuyReceiptLine(c))
  <2>1. c.lines \in Nat /\ c.moves \subseteq Int /\ orders[txn[w].doc].lines \in ListsOf(c.lines, Buy(c)!OrderLine)
    BY <1>2 DEF Bought, Buy!PurchaseAssumption, BuyOrder
  <2>2. DOMAIN orders[txn[w].doc].lines \in SUBSET (1..c.lines)
    BY <2>1, ListShape
  <2>3. ASSUME ls # <<>> PROVE ls \in Seq(BuyReceiptLine(c))
    <3>1. PICK m \in 1..c.lines :
            ls \in [1..m -> [line : DOMAIN orders[txn[w].doc].lines, item : c.items,
                             warehouse : c.warehouses, quantity : c.moves]]
      BY <1>3, <2>3 DEF Buy!Lines
    <3>2. ls \in [1..m -> BuyReceiptLine(c)]
      BY <2>1, <2>2, <3>1 DEF BuyReceiptLine
    <3>3. ls \in ListsOf(c.lines, BuyReceiptLine(c))
      BY <3>2 DEF ListsOf
    <3> QED
      BY <2>1, <3>3, ListShape
  <2>4. <<>> \in Seq(BuyReceiptLine(c))
    OBVIOUS
  <2> QED
    BY <2>3, <2>4
<1>5. PICK t \in BuyWork(c) : t = [txn[w] EXCEPT !.op = "lines", !.todo = ls]
  <2>1. [txn[w] EXCEPT !.op = "lines", !.todo = ls] \in OrderWork(c)
    BY <1>2, <1>4 DEF OrderWork, OrderOp
  <2> QED
    BY <2>1 DEF BuyWork
<1>6. t.op = "lines" /\ t.doc = txn[w].doc /\ t.before = txn[w].before /\ t.done = <<>>
  BY <1>2, <1>5 DEF OrderWork
<1>7. Pending(t)
  <2>1. DOMAIN t.done = {} /\ \A n : OfLine(t.done, n) = {}
    BY <1>6 DEF OfLine
  <2> QED
    BY <1>1, <1>6, <2>1 DEF Pending
<1>8. txn' = [txn EXCEPT ![w] = t]
  BY <1>3, <1>5
<1>9. WentOn(c, w, t)
  BY <1>2, <1>6, <1>7, <1>8 DEF WentOn, Buy!StartReceipt
<1> QED
  BY <1>9, WentOnStep

\* A place without a row is noted; it was none of those at the start.
LEMMA BuyMiss ==
    ASSUME NEW CONSTANT c, BuyInv(c), NEW w \in Workers, txn[w] # Still,
           NEW p \in c.items \X c.warehouses, Buy(c)!Miss(w, p)
    PROVE  BuyInv(c)'
<1>1. p \notin DOMAIN stock /\ p \notin DOMAIN c.opening
  BY DEF Buy!Miss, BuyInv, BuyTypes
<1>2. txn[w] \in OrderWork(c) \cup ReturnWork(c) /\ Pending(txn[w])
  BY DEF BuyInv, BuyTypes, BuyWork, BuyPending
<1>3. txn[w].missed \cup {p} \in Missing(c)
  BY <1>1, <1>2 DEF OrderWork, ReturnWork, Missing
<1>4. PICK t \in BuyWork(c) : t = [txn[w] EXCEPT !.missed = txn[w].missed \cup {p}]
  <2>1. [txn[w] EXCEPT !.missed = txn[w].missed \cup {p}] \in OrderWork(c) \cup ReturnWork(c)
    BY <1>2, <1>3 DEF OrderWork, ReturnWork
  <2> QED
    BY <2>1 DEF BuyWork
<1>5. /\ t.op = txn[w].op /\ t.doc = txn[w].doc /\ t.before = txn[w].before /\ t.done = txn[w].done
      /\ txn[w].missed \subseteq t.missed
  BY <1>2, <1>4 DEF OrderWork, ReturnWork
<1>6. Pending(t)
  BY <1>2, <1>5 DEF Pending
<1>7. txn' = [txn EXCEPT ![w] = t]
  BY <1>4 DEF Buy!Miss
<1>8. WentOn(c, w, t)
  BY <1>5, <1>6, <1>7 DEF WentOn, Buy!Miss
<1> QED
  BY <1>8, WentOnStep

\* What a receipt in work has before it.
LEMMA OpenReceipt ==
    ASSUME NEW CONSTANT c, BuyInv(c), NEW w \in Workers, txn[w].op = "lines"
    PROVE  /\ txn[w] # Still /\ txn[w] \in OrderWork(c) /\ txn[w].doc \in c.orders
           /\ orders[txn[w].doc] # Gone /\ orders[txn[w].doc] \in BuyOrder(c)
           /\ orders[txn[w].doc].status = 3 /\ Pending(txn[w])
           /\ txn[w].todo \in Seq(BuyReceiptLine(c)) /\ txn[w].done \in Seq(BuyReceiptLine(c))
           /\ txn[w].missed \in Missing(c)
<1>1. /\ txn[w] # Still /\ txn[w] \in OrderWork(c) /\ txn[w].doc \in c.orders
      /\ orders[txn[w].doc] # Gone /\ orders[txn[w].doc] \in BuyOrder(c) /\ Pending(txn[w])
      /\ txn[w].before = [status |-> orders[txn[w].doc].status]
  BY OpenOrderWork DEF OrderOp
<1> QED
  BY <1>1 DEF Pending, OrderWork

\* A line of a receipt whose place has no row.
LEMMA BuyMissReceived ==
    ASSUME NEW CONSTANT c, BuyInv(c), NEW w \in Workers, Buy(c)!MissReceived(w)
    PROVE  BuyInv(c)'
<1>1. txn[w].op = "lines" /\ txn[w].todo # <<>>
  BY DEF Buy!MissReceived
<1>2. txn[w] # Still /\ Head(txn[w].todo) \in BuyReceiptLine(c)
  BY <1>1, OpenReceipt
<1>3. Buy(c)!Place(Head(txn[w].todo)) \in c.items \X c.warehouses
  BY <1>2 DEF Buy!Place, BuyReceiptLine
<1> QED
  BY <1>2, <1>3, BuyMiss DEF Buy!MissReceived

\* A line of a receipt that its order still has open.
LEMMA BuyReceiveLine ==
    ASSUME NEW CONSTANT c, Bought(c), BuyInv(c), NEW w \in Workers, Buy(c)!ReceiveLine(w)
    PROVE  BuyInv(c)'
<1>1. txn[w].op = "lines" /\ txn[w].todo # <<>>
  BY DEF Buy!ReceiveLine
<1>2. PICK o \in c.orders : o = txn[w].doc
  BY <1>1, OpenReceipt
<1>3. /\ txn[w] # Still /\ txn[w] \in OrderWork(c) /\ orders[o] \in BuyOrder(c) /\ Pending(txn[w])
      /\ txn[w].todo \in Seq(BuyReceiptLine(c)) /\ txn[w].done \in Seq(BuyReceiptLine(c))
  BY <1>1, <1>2, OpenReceipt
<1>4. PICK l \in BuyReceiptLine(c), rest \in Seq(BuyReceiptLine(c)), done \in Seq(BuyReceiptLine(c)) :
        /\ l = Head(txn[w].todo) /\ rest = Tail(txn[w].todo) /\ done = txn[w].done
  <2>1. \A s \in Seq(BuyReceiptLine(c)) : s # <<>> =>
          Head(s) \in BuyReceiptLine(c) /\ Tail(s) \in Seq(BuyReceiptLine(c))
    OBVIOUS
  <2> QED
    BY <1>1, <1>3, <2>1
<1>5. /\ Buy(c)!Within(w, l) /\ Buy(c)!Known(w, <<l.item, l.warehouse>>)
      /\ txn' = [txn EXCEPT ![w].todo = Tail(@), ![w].done = Append(@, l)]
      /\ UNCHANGED <<orders, receipts, returns, invoices, stock, trail>>
  BY <1>4 DEF Buy!ReceiveLine, Buy!Place
<1>6. Append(done, l) \in Seq(BuyReceiptLine(c)) /\ \A k \in DOMAIN Append(done, l) :
        (k \in DOMAIN done /\ Append(done, l)[k] = done[k]) \/ Append(done, l)[k] = l
  OBVIOUS
<1>7. PICK t \in BuyWork(c) : t = [txn[w] EXCEPT !.todo = rest, !.done = Append(done, l)]
  <2>1. [txn[w] EXCEPT !.todo = rest, !.done = Append(done, l)] \in OrderWork(c)
    BY <1>3, <1>4, <1>6 DEF OrderWork
  <2> QED
    BY <2>1 DEF BuyWork
<1>8. /\ t.op = "lines" /\ t.doc = o /\ t.before = txn[w].before /\ t.done = Append(done, l)
      /\ t.missed = txn[w].missed
  BY <1>1, <1>2, <1>3, <1>7 DEF OrderWork
<1>9. txn' = [txn EXCEPT ![w] = t]
  BY <1>4, <1>5, <1>7
<1>10. Pending(t)
  <2>1. (\A x \in BuyReceiptLine(c) : x.quantity \in Int) /\ l.quantity \in Int
    BY DEF BuyReceiptLine
  <2>2. ASSUME NEW n \in DOMAIN orders[o].lines, OfLine(t.done, n) # {}
        PROVE  orders[o].lines[n].received + ForLine(t.done, n) <= orders[o].lines[n].quantity
    <3>1. /\ ForLine(t.done, n) = ForLine(done, n) + IF l.line = n THEN l.quantity ELSE 0
          /\ l.line # n => OfLine(t.done, n) = OfLine(done, n)
      BY <1>8, <2>1, ListedMore
    <3>2. ForLine(done, n) \in Int
      BY <2>1, Listed
    <3>3. orders[o].lines[n].received \in Int
      <4>1. c.lines \in Nat /\ orders[o].lines \in ListsOf(c.lines, Buy(c)!OrderLine)
        BY <1>3 DEF Bought, Buy!PurchaseAssumption, BuyOrder
      <4>2. orders[o].lines[n] \in Buy(c)!OrderLine
        BY <4>1, ListShape
      <4> QED
        BY <4>2 DEF Buy!OrderLine
    <3>4. CASE l.line = n
      <4>1. Buy(c)!Moved(done, Buy(c)!OnLine(done, n)) = ForLine(done, n)
        BY BuyMoved DEF Buy!OnLine, ForLine, OfLine
      <4>2. orders[o].lines[n].received + ForLine(done, n) + l.quantity <= orders[o].lines[n].quantity
        BY <1>2, <1>4, <1>5, <3>4, <4>1 DEF Buy!Within
      <4>3. ForLine(t.done, n) = ForLine(done, n) + l.quantity
        BY <3>1, <3>4
      <4> QED
        BY <2>1, <3>2, <3>3, <4>2, <4>3
    <3>5. CASE l.line # n
      <4>1. ForLine(t.done, n) = ForLine(done, n)
        BY <3>1, <3>2, <3>5
      <4>2. OfLine(done, n) # {}
        BY <2>2, <3>1, <3>5
      <4> QED
        BY <1>1, <1>2, <1>3, <1>4, <4>1, <4>2 DEF Pending
    <3> QED
      BY <3>4, <3>5
  <2>3. ASSUME NEW k \in DOMAIN t.done
        PROVE  <<t.done[k].item, t.done[k].warehouse>> \in DOMAIN stock \cup t.missed
    <3>1. CASE k \in DOMAIN done /\ t.done[k] = done[k]
      BY <1>1, <1>3, <1>4, <1>8, <3>1 DEF Pending
    <3>2. CASE t.done[k] = l
      BY <1>5, <1>8, <3>2 DEF Buy!Known
    <3> QED
      BY <1>6, <1>8, <2>3, <3>1, <3>2
  <2>4. t.before.status = 3
    BY <1>1, <1>3, <1>8 DEF Pending
  <2> QED
    BY <1>8, <2>2, <2>3, <2>4 DEF Pending
<1>11. WentOn(c, w, t)
  BY <1>2, <1>3, <1>5, <1>8, <1>9, <1>10 DEF WentOn
<1> QED
  BY <1>11, WentOnStep

\* commit_receipt has the effect of a receipt posted.
LEMMA BuyCommitReceipt ==
    ASSUME NEW CONSTANT c, Bought(c), BuyInv(c), NEW w \in Workers, NEW r \in c.receipts,
           Buy(c)!CommitReceipt(w, r)
    PROVE  BuyInv(c)'
<1>1. txn[w].op = "lines"
  BY DEF Buy!CommitReceipt
<1>2. PICK o \in c.orders, ls \in Seq(BuyReceiptLine(c)) : txn[w].doc = o /\ txn[w].done = ls
  BY <1>1, OpenReceipt
<1>3. /\ txn[w] # Still /\ orders[o] \in BuyOrder(c) /\ orders[o] # Gone /\ orders[o].status = 3
      /\ orders[o].lines \in ListsOf(c.lines, Buy(c)!OrderLine)
      /\ Pending(txn[w]) /\ txn[w].missed \in Missing(c)
  BY <1>1, <1>2, OpenReceipt DEF BuyOrder
<1>4. /\ receipts[r] = Buy(c)!Absent
      /\ receipts' = [receipts EXCEPT ![r] = [order |-> o, lines |-> ls]]
      /\ orders' = [orders EXCEPT ![o].lines =
                      [n \in DOMAIN @ |-> Buy(c)!AfterReceipt(@[n], n, ls)]]
      /\ stock' = [p \in DOMAIN stock \cup {Buy(c)!Place(ls[k]) : k \in DOMAIN ls} |->
                      Buy(c)!Base(w, p) + Buy(c)!Moved(ls, Buy(c)!AtPlace(ls, p))]
  BY <1>2 DEF Buy!CommitReceipt
<1>5. c.lines \in Nat
  BY DEF Bought, Buy!PurchaseAssumption
<1>6. DOMAIN orders[o].lines \in SUBSET (1..c.lines) /\ IsFiniteSet(DOMAIN orders[o].lines)
      /\ \A n \in DOMAIN orders[o].lines : orders[o].lines[n] \in Buy(c)!OrderLine
  BY <1>3, <1>5, ListShape
<1>7. \A k \in DOMAIN ls : ls[k] \in BuyReceiptLine(c)
  OBVIOUS
<1>8. PICK x \in BuyReceipt(c) : x = [order |-> o, lines |-> ls]
  BY DEF BuyReceipt
<1>9. ASSUME NEW n \in DOMAIN orders[o].lines
      PROVE  /\ Buy(c)!AfterReceipt(orders[o].lines[n], n, ls) \in Buy(c)!OrderLine
             /\ LET l == orders[o].lines[n]  k == Buy(c)!AfterReceipt(l, n, ls) IN
                /\ k.returned = l.returned /\ k.quantity = l.quantity
                /\ k.received = l.received + Got(x, n)
                /\ IF OfLine(x.lines, n) = {} THEN k.closed = l.closed
                   ELSE k.received <= k.quantity /\ k.closed = (k.received >= k.quantity)
  <2> DEFINE l == orders[o].lines[n]  k == Buy(c)!AfterReceipt(l, n, ls)  got == l.received + Got(x, n)
  <2>1. /\ l \in Buy(c)!OrderLine /\ l.received \in Int /\ l.quantity \in Int /\ Got(x, n) \in Int
    BY <1>6, <1>9, ReceiptMoves DEF Buy!OrderLine
  <2>2. Buy(c)!Moved(ls, Buy(c)!OnLine(ls, n)) = Got(x, n)
    BY <1>8, BuyMoved DEF Buy!OnLine, OfLine, Got
  <2>5. Buy(c)!OnLine(ls, n) = OfLine(ls, n)
    BY DEF Buy!OnLine, OfLine
  <2>3. CASE OfLine(ls, n) = {}
    <3>1. k = l
      BY <2>3, <2>5 DEF Buy!AfterReceipt
    <3>2. Got(x, n) = 0
      BY <1>8, <2>3, MoveNothing DEF Got
    <3> QED
      BY <1>8, <2>1, <2>3, <3>1, <3>2
  <2>4. CASE OfLine(ls, n) # {}
    <3>1. k = [l EXCEPT !.received = got, !.closed = (got >= l.quantity)]
      BY <2>2, <2>4, <2>5 DEF Buy!AfterReceipt
    <3>2. got \in Int
      BY <2>1
    <3>3. /\ k \in Buy(c)!OrderLine /\ k.received = got /\ k.closed = (got >= l.quantity)
          /\ k.returned = l.returned /\ k.quantity = l.quantity
      <4> HIDE DEF l, k, got
      <4>1. PICK g \in Int : g = got
        BY <3>2
      <4>5. (got >= l.quantity) \in BOOLEAN
        OBVIOUS
      <4>2. PICK u \in BOOLEAN : u = (got >= l.quantity)
        BY <4>5
      <4>3. k = [l EXCEPT !.received = g, !.closed = u]
        BY <3>1, <4>1, <4>2
      <4>4. /\ k \in Buy(c)!OrderLine /\ k.received = g /\ k.closed = u
            /\ k.returned = l.returned /\ k.quantity = l.quantity
        BY <2>1, <4>3 DEF Buy!OrderLine
      <4> QED
        BY <4>1, <4>2, <4>4
    <3>4. got <= l.quantity
      BY <1>1, <1>2, <1>3, <1>8, <1>9, <2>4 DEF Got, Pending, ForLine
    <3> QED
      BY <1>8, <2>4, <3>3, <3>4
  <2> QED
    BY <2>3, <2>4
<1> DEFINE ks == [n \in DOMAIN orders[o].lines |-> Buy(c)!AfterReceipt(orders[o].lines[n], n, ls)]
<1>10. ks \in ListsOf(c.lines, Buy(c)!OrderLine)
  <2>1. PICK m \in 1..c.lines : DOMAIN orders[o].lines = 1..m
    BY <1>3 DEF ListsOf
  <2>2. ks \in [1..m -> Buy(c)!OrderLine]
    BY <1>9, <2>1
  <2> QED
    BY <2>2 DEF ListsOf
<1>11. PICK y \in BuyOrder(c) : y = [orders[o] EXCEPT !.lines = ks]
  <2> HIDE DEF ks
  <2> QED
    BY <1>3, <1>10 DEF BuyOrder
<1>12. y.status = 3 /\ y.lines = ks
  <2> HIDE DEF ks
  <2> QED
    BY <1>3, <1>11 DEF BuyOrder
<1>13. orders' = [orders EXCEPT ![o] = y] /\ receipts' = [receipts EXCEPT ![r] = x]
  BY <1>4, <1>8, <1>11
<1>14. /\ DOMAIN stock \subseteq DOMAIN stock' /\ DOMAIN stock' \subseteq c.items \X c.warehouses
       /\ stock' \in [DOMAIN stock' -> Int]
       /\ \A p \in DOMAIN c.opening : stock'[p] = stock[p] + Came(x, p)
  <2>1. \A p : Buy(c)!Moved(ls, Buy(c)!AtPlace(ls, p)) = Came(x, p)
    BY <1>8, BuyMoved DEF Came, PlacedAt, Buy!AtPlace
  <2>2. DOMAIN stock' = DOMAIN stock \cup {Buy(c)!Place(ls[k]) : k \in DOMAIN ls}
    BY <1>4
  <2>3. \A p \in DOMAIN stock' : stock'[p] = Buy(c)!Base(w, p) + Came(x, p)
    BY <1>4, <2>1
  <2>4. \A k \in DOMAIN ls : /\ Buy(c)!Place(ls[k]) \in c.items \X c.warehouses
                             /\ Buy(c)!Place(ls[k]) \in DOMAIN stock \cup txn[w].missed
    <3>1. \A k \in DOMAIN ls : ls[k] \in BuyReceiptLine(c)
      BY <1>7
    <3> QED
      BY <1>1, <1>2, <1>3, <3>1 DEF Pending, Buy!Place, BuyReceiptLine
  <2>5. DOMAIN stock \subseteq DOMAIN stock' /\ DOMAIN stock' \subseteq c.items \X c.warehouses
    BY <2>2, <2>4 DEF BuyInv, BuyTypes
  <2>6. ASSUME NEW p \in DOMAIN stock' PROVE stock'[p] \in Int
    <3>1. p \in DOMAIN stock \cup txn[w].missed
      BY <2>2, <2>4
    <3>2. Buy(c)!Base(w, p) \in Int
      BY <3>1 DEF Buy!Base, BuyInv, BuyTypes
    <3> QED
      BY <2>3, <3>2, ReceiptMoves
  <2>7. ASSUME NEW p \in DOMAIN c.opening PROVE stock'[p] = stock[p] + Came(x, p)
    <3>1. p \notin txn[w].missed /\ p \in DOMAIN stock'
      BY <1>3, <2>5 DEF Missing, BuyInv, BuyTypes
    <3> QED
      BY <2>3, <3>1 DEF Buy!Base
  <2>8. stock' = [p \in DOMAIN stock' |-> stock'[p]]
    BY <1>4
  <2> QED
    BY <2>5, <2>6, <2>7, <2>8
<1>15. txn' = [txn EXCEPT ![w] = Still] /\ UNCHANGED <<returns, invoices, trail>>
  BY DEF Buy!CommitReceipt, Buy!End, Buy!Idle, Still
<1>16. ReceiptPosted(c, w, o, r, x, y)
  <2>1. DOMAIN y.lines = DOMAIN orders[o].lines
    BY <1>12
  <2>2. \A n \in DOMAIN y.lines : y.lines[n] = Buy(c)!AfterReceipt(orders[o].lines[n], n, ls)
    BY <1>12
  <2>3. receipts[r] = Gone /\ x.order = o
    BY <1>4, <1>8, BuyShapes
  <2> HIDE DEF ks
  <2>4. \A n \in DOMAIN y.lines :
         LET l == orders[o].lines[n]  k == y.lines[n] IN
         /\ k.returned = l.returned /\ k.quantity = l.quantity
         /\ k.received = l.received + Got(x, n)
         /\ IF OfLine(x.lines, n) = {} THEN k.closed = l.closed
            ELSE k.received <= k.quantity /\ k.closed = (k.received >= k.quantity)
    BY <1>9, <2>1, <2>2
  <2> QED
    BY <1>2, <1>3, <1>12, <1>13, <1>14, <1>15, <2>1, <2>3, <2>4 DEF ReceiptPosted
<1> QED
  BY <1>16, ReceiptPostedStep

\* create_return has the effect of a return not yet settled.
LEMMA BuyCreateReturn ==
    ASSUME NEW CONSTANT c, Bought(c), BuyInv(c), NEW t \in c.returns, Buy(c)!CreateReturn(t)
    PROVE  BuyInv(c)'
<1>1. PICK o \in Buy(c)!Rows(orders), r \in Buy(c)!Rows(receipts), i \in c.items, q \in c.moves :
        \E n \in DOMAIN receipts[r].lines :
           returns' = [returns EXCEPT ![t] =
             [order |-> o, status |-> Buy(c)!Draft,
              lines |-> <<[receipt |-> r, line |-> n, item |-> i, quantity |-> q]>>]]
  BY DEF Buy!CreateReturn
<1>2. PICK n \in DOMAIN receipts[r].lines :
        returns' = [returns EXCEPT ![t] =
          [order |-> o, status |-> Buy(c)!Draft,
           lines |-> <<[receipt |-> r, line |-> n, item |-> i, quantity |-> q]>>]]
  BY <1>1
<1>3. o \in c.orders /\ r \in c.receipts /\ receipts[r] # Gone /\ receipts[r] \in BuyReceipt(c)
  BY BuyShapes DEF Buy!Rows, BuyInv, BuyTypes
<1>4. n \in Nat \ {0} /\ q \in Int
  <2>1. receipts[r].lines \in Seq(BuyReceiptLine(c))
    BY <1>3 DEF BuyReceipt
  <2>2. n \in Nat \ {0}
    BY <1>2, <2>1
  <2> QED
    BY <1>2, <2>2 DEF Bought, Buy!PurchaseAssumption
<1>5. PICK l \in BuyReturnLine(c) : l = [receipt |-> r, line |-> n, item |-> i, quantity |-> q]
  BY <1>3, <1>4 DEF BuyReturnLine
<1>6. PICK y \in BuyReturn(c) : y = [order |-> o, status |-> 0, lines |-> <<l>>]
  <2>1. <<l>> \in [1..1 -> BuyReturnLine(c)]
    OBVIOUS
  <2>2. <<l>> \in ListsOf(1, BuyReturnLine(c))
    BY <2>1 DEF ListsOf
  <2>3. [order |-> o, status |-> 0, lines |-> <<l>>] \in BuyReturn(c)
    BY <1>3, <2>2 DEF BuyReturn
  <2> QED
    BY <2>3
<1>7. ReturnUnsettled(y)
  <2>1. \A j \in DOMAIN y.lines : y.lines[j] = l
    BY <1>6
  <2>2. Joins(l)
    BY <1>2, <1>3, <1>5 DEF Joins
  <2> QED
    BY <1>6, <2>1, <2>2 DEF ReturnUnsettled, Buy!CreateReturn
<1>8. ReturnSaved(c, t, y)
  <2>1. returns' = [returns EXCEPT ![t] = y] /\ returns[t] = Gone
    BY <1>2, <1>5, <1>6, BuyShapes DEF Buy!CreateReturn, Buy!Draft
  <2>2. t \notin c.orders
    BY DEF Bought, Buy!PurchaseAssumption
  <2>3. \A v \in Workers : txn[v] # Still => txn[v].doc # t
    BY <2>1, <2>2 DEF BuyInv, BuyLocks, Document
  <2>4. PICK e \in Entry : e = [action |-> "created", before |-> Nothing, after |-> [status |-> 0]]
    <3>1. [status |-> 0] \in StatusView
      BY DEF StatusView
    <3>2. [action |-> "created", before |-> Nothing, after |-> [status |-> 0]] \in Entry
      BY <3>1 DEF Entry
    <3> QED
      BY <3>2
  <2>5. trail' = [trail EXCEPT ![t] = Append(@, e)]
    BY <2>4 DEF Buy!CreateReturn, Buy!RecordCreate, Buy!DraftRow, Buy!Draft, Buy!Nothing, Nothing
  <2>6. trail' \in [c.orders \cup c.returns -> Seq(Entry)] /\ \A j \in c.orders : trail'[j] = trail[j]
    <3>1. trail[t] \in Seq(Entry) /\ Append(trail[t], e) \in Seq(Entry)
      BY DEF BuyInv, BuyTypes
    <3> QED
      BY <2>2, <2>5, <3>1 DEF BuyInv, BuyTypes
  <2>7. txn' \in [Workers -> BuyWork(c) \cup {Still}] /\ UNCHANGED <<receipts, invoices, txn>>
    BY DEF Buy!CreateReturn, BuyInv, BuyTypes
  <2> QED
    BY <2>1, <2>3, <2>6, <2>7 DEF ReturnSaved
<1> QED
  BY <1>7, <1>8, ReturnUnsettledStep

\* What ends the request on a return and saves it.
LEMMA ReturnEnds ==
    ASSUME NEW CONSTANT c, Bought(c), BuyInv(c), NEW w \in Workers, NEW t \in c.returns, NEW y,
           txn[w] # Still, txn[w].doc = t, txn' = [txn EXCEPT ![w] = Still],
           returns' = [returns EXCEPT ![t] = y], returns[t].status # 3,
           trail' = trail \/ \E e \in Entry : trail' = [trail EXCEPT ![t] = Append(@, e)],
           UNCHANGED <<receipts, invoices>>
    PROVE  ReturnSaved(c, t, y)
<1>1. txn' \in [Workers -> BuyWork(c) \cup {Still}]
  BY DEF BuyInv, BuyTypes
<1>2. \A v \in Workers : txn'[v] # Still => txn'[v] = txn[v] /\ txn[v].doc # t
  BY DEF BuyInv, BuyTypes, BuyLocks
<1>3. trail' \in [c.orders \cup c.returns -> Seq(Entry)] /\ \A o \in c.orders : trail'[o] = trail[o]
  <2>1. CASE trail' = trail
    BY <2>1 DEF BuyInv, BuyTypes
  <2>2. ASSUME NEW e \in Entry, trail' = [trail EXCEPT ![t] = Append(@, e)]
        PROVE  trail' \in [c.orders \cup c.returns -> Seq(Entry)] /\ \A o \in c.orders : trail'[o] = trail[o]
    <3>1. trail[t] \in Seq(Entry) /\ Append(trail[t], e) \in Seq(Entry) /\ t \notin c.orders
      BY DEF BuyInv, BuyTypes, Bought, Buy!PurchaseAssumption
    <3> QED
      BY <2>2, <3>1 DEF BuyInv, BuyTypes
  <2> QED
    BY <2>1, <2>2
<1> QED
  BY <1>1, <1>2, <1>3 DEF ReturnSaved

\* submit_return has the effect of a return not yet settled.
LEMMA BuySubmitReturn ==
    ASSUME NEW CONSTANT c, Bought(c), BuyInv(c), NEW w \in Workers, Buy(c)!SubmitReturn(w)
    PROVE  BuyInv(c)'
<1>1. txn[w].op \in {"submit_return", "approve_return"}
  BY DEF Buy!SubmitReturn
<1>2. PICK t \in c.returns : txn[w].doc = t
  BY <1>1, OpenReturnWork
<1>3. /\ txn[w] # Still /\ returns[t] \in BuyReturn(c) /\ returns[t] # Gone
      /\ txn[w].before.status = returns[t].status /\ returns[t].status \in 0..4 \cup {-1}
  <2>1. /\ txn[w] # Still /\ returns[t] \in BuyReturn(c) /\ returns[t].status \in 0..4 \cup {-1}
        /\ txn[w].before = [status |-> returns[t].status]
    BY <1>1, <1>2, OpenReturnWork
  <2> QED
    BY <2>1, BuyShapes
<1>4. returns[t].status = 0 /\ returns' = [returns EXCEPT ![t].status = 1]
  <2>1. Buy(c)!SubmitStatus(Buy(c)!RET_FLOW, txn[w].before.status) = IF returns[t].status = 0 THEN 1 ELSE 99
    BY <1>3, BuyFlows
  <2> QED
    BY <1>2, <1>3, <2>1, BuyFlows DEF Buy!SubmitReturn
<1>5. PICK y \in BuyReturn(c) : y = [returns[t] EXCEPT !.status = 1]
  <2>1. 1 \in 0..4 \cup {-1}
    OBVIOUS
  <2> QED
    BY <1>3, <2>1 DEF BuyReturn
<1>6. y.status = 1 /\ y.lines = returns[t].lines
  BY <1>3, <1>5 DEF BuyReturn
<1>7. ReturnUnsettled(y)
  BY <1>3, <1>6 DEF ReturnUnsettled, BuyInv, BuyStock, Buy!SubmitReturn
<1>8. ReturnSaved(c, t, y)
  <2>1. /\ txn' = [txn EXCEPT ![w] = Still] /\ returns' = [returns EXCEPT ![t] = y]
        /\ UNCHANGED <<trail, receipts, invoices>>
    BY <1>4, <1>5 DEF Buy!SubmitReturn, Buy!End, Buy!Idle, Still
  <2> QED
    <3>1. returns[t].status # 3
      BY <1>4
    <3> QED
      BY <1>2, <1>3, <2>1, <3>1, ReturnEnds
<1> QED
  BY <1>7, <1>8, ReturnUnsettledStep

\* The goods of a return line leave the warehouse they were received in.
LEMMA ReturnOrigin ==
    ASSUME NEW CONSTANT c, BuyInv(c), NEW t \in c.returns, returns[t] # Gone
    PROVE  \A k \in DOMAIN returns[t].lines :
             Buy(c)!Origin(returns[t].lines[k]) \in c.items \X c.warehouses
<1>1. ASSUME NEW k \in DOMAIN returns[t].lines
      PROVE  Buy(c)!Origin(returns[t].lines[k]) \in c.items \X c.warehouses
  <2>1. returns[t].lines \in ListsOf(1, BuyReturnLine(c)) /\ 1 \in Nat
    BY DEF BuyInv, BuyTypes, BuyReturn
  <2>2. PICK l \in BuyReturnLine(c) : l = returns[t].lines[k]
    BY <2>1, ListShape
  <2>3. receipts[l.receipt] # Gone /\ l.line \in DOMAIN receipts[l.receipt].lines
    BY <2>2 DEF BuyInv, BuyStock, Joins
  <2>4. receipts[l.receipt].lines \in Seq(BuyReceiptLine(c))
    BY <2>2, <2>3 DEF BuyInv, BuyTypes, BuyReturnLine, BuyReceipt
  <2>5. receipts[l.receipt].lines[l.line] \in BuyReceiptLine(c)
    BY <2>3, <2>4
  <2> QED
    BY <2>2, <2>5 DEF Buy!Origin, Buy!Source, BuyReturnLine, BuyReceiptLine
<1> QED
  BY <1>1

\* A line of a return whose place has no row.
LEMMA BuyMissReturned ==
    ASSUME NEW CONSTANT c, Bought(c), BuyInv(c), NEW w \in Workers, Buy(c)!MissReturned(w)
    PROVE  BuyInv(c)'
<1>1. txn[w].op \in {"submit_return", "approve_return"}
  BY DEF Buy!MissReturned
<1>2. PICK t \in c.returns : txn[w].doc = t
  BY <1>1, OpenReturnWork
<1>3. txn[w] # Still /\ returns[t] # Gone
  BY <1>1, <1>2, OpenReturnWork, BuyShapes
<1>4. PICK k \in DOMAIN returns[t].lines : Buy(c)!Miss(w, Buy(c)!Origin(returns[t].lines[k]))
  BY <1>2 DEF Buy!MissReturned
<1>5. Buy(c)!Origin(returns[t].lines[k]) \in c.items \X c.warehouses
  BY <1>3, ReturnOrigin
<1> QED
  BY <1>3, <1>4, <1>5, BuyMiss

\* approve_return has the effect of a return settled.
LEMMA BuyApproveReturn ==
    ASSUME NEW CONSTANT c, Bought(c), BuyInv(c), NEW w \in Workers, Buy(c)!ApproveReturn(w)
    PROVE  BuyInv(c)'
<1>1. txn[w].op \in {"submit_return", "approve_return"}
  BY DEF Buy!ApproveReturn
<1>2. PICK t \in c.returns : txn[w].doc = t
  BY <1>1, OpenReturnWork
<1>3. /\ txn[w] # Still /\ returns[t] \in BuyReturn(c) /\ returns[t] # Gone
      /\ txn[w].before = [status |-> returns[t].status] /\ returns[t].status \in 0..4 \cup {-1}
  <2>1. /\ txn[w] # Still /\ returns[t] \in BuyReturn(c) /\ returns[t].status \in 0..4 \cup {-1}
        /\ txn[w].before = [status |-> returns[t].status]
    BY <1>1, <1>2, OpenReturnWork
  <2> QED
    BY <2>1, BuyShapes
<1>4. Buy(c)!ApproveStatus(Buy(c)!RET_FLOW, txn[w].before.status) = IF returns[t].status = 1 THEN 3 ELSE 99
  BY <1>3, BuyFlows
<1>5. /\ returns[t].status = 1 /\ returns' = [returns EXCEPT ![t].status = 3]
      /\ trail' = [trail EXCEPT ![t] = Append(@, [action |-> "updated", before |-> txn[w].before,
                                                  after |-> [status |-> 3]])]
      /\ stock' = [p \in DOMAIN stock \cup {Buy(c)!Origin(returns[t].lines[k]) : k \in DOMAIN returns[t].lines} |->
                      Buy(c)!Base(w, p) - Buy(c)!Issued(returns[t].lines, p)]
      /\ \A k \in DOMAIN returns[t].lines : Buy(c)!Known(w, Buy(c)!Origin(returns[t].lines[k]))
      /\ orders' = [o \in c.orders |->
           IF orders[o] = Buy(c)!Absent THEN Buy(c)!Absent
           ELSE [orders[o] EXCEPT !.lines =
                   [n \in DOMAIN @ |->
                     Buy(c)!AfterReturn(@[n], Buy(c)!Returned(returns[t].lines, o, n))]]]
      /\ txn' = [txn EXCEPT ![w] = Still] /\ UNCHANGED <<receipts, invoices>>
  <2>1. returns[t].status = 1
    BY <1>2, <1>4, BuyFlows DEF Buy!ApproveReturn
  <2> QED
    BY <1>2, <1>4, <2>1 DEF Buy!ApproveReturn, Buy!RecordUpdated, Buy!End, Buy!Idle, Still
<1>6. PICK y \in BuyReturn(c) : y = [returns[t] EXCEPT !.status = 3]
  <2>1. 3 \in 0..4 \cup {-1}
    OBVIOUS
  <2> QED
    BY <1>3, <2>1 DEF BuyReturn
<1>7. y.status = 3 /\ y.lines = returns[t].lines /\ returns' = [returns EXCEPT ![t] = y]
  BY <1>3, <1>5, <1>6 DEF BuyReturn
<1>8. ReturnSaved(c, t, y)
  <2>1. PICK e \in Entry : e = [action |-> "updated", before |-> txn[w].before, after |-> [status |-> 3]]
    <3>1. [status |-> 3] \in StatusView /\ txn[w].before \in StatusView
      BY <1>3 DEF StatusView
    <3>2. [action |-> "updated", before |-> txn[w].before, after |-> [status |-> 3]] \in Entry
      BY <3>1 DEF Entry
    <3> QED
      BY <3>2
  <2>2. trail' = [trail EXCEPT ![t] = Append(@, e)] /\ returns[t].status # 3
    BY <1>5, <2>1
  <2> QED
    BY <1>2, <1>3, <1>5, <1>7, <2>2, ReturnEnds
<1>9. /\ \A p : Buy(c)!Issued(returns[t].lines, p) = Went(y, p)
      /\ \A o, n : Buy(c)!Returned(returns[t].lines, o, n) = Back(y, o, n)
  BY <1>7, BuyMoved DEF Buy!Issued, Buy!Returned, Buy!Origin, Buy!Source, Went, Back, BackTo, BackOn, Joined
<1>10. /\ DOMAIN stock \subseteq DOMAIN stock' /\ DOMAIN stock' \subseteq c.items \X c.warehouses
       /\ stock' \in [DOMAIN stock' -> Int]
       /\ \A p \in DOMAIN c.opening : stock'[p] = stock[p] - Went(y, p)
  <2> DEFINE ls == returns[t].lines
  <2>1. txn[w] \in BuyWork(c) /\ txn[w].missed \in Missing(c)
    <3>1. txn[w] \in ReturnWork(c)
      BY <1>1, OpenReturnWork
    <3> QED
      BY <3>1 DEF BuyWork, ReturnWork
  <2>2. \A k \in DOMAIN ls : /\ Buy(c)!Origin(ls[k]) \in c.items \X c.warehouses
                             /\ Buy(c)!Origin(ls[k]) \in DOMAIN stock \cup txn[w].missed
    <3>1. \A k \in DOMAIN ls : Buy(c)!Origin(ls[k]) \in c.items \X c.warehouses
      BY <1>2, <1>3, ReturnOrigin
    <3> QED
      BY <1>5, <3>1 DEF Buy!Known
  <2>3. DOMAIN stock' = DOMAIN stock \cup {Buy(c)!Origin(ls[k]) : k \in DOMAIN ls}
    BY <1>5
  <2>4. \A p \in DOMAIN stock' : stock'[p] = Buy(c)!Base(w, p) - Went(y, p)
    BY <1>5, <1>9
  <2>5. DOMAIN stock \subseteq DOMAIN stock' /\ DOMAIN stock' \subseteq c.items \X c.warehouses
    BY <2>2, <2>3 DEF BuyInv, BuyTypes
  <2>6. ASSUME NEW p \in DOMAIN stock' PROVE stock'[p] \in Int
    <3>1. p \in DOMAIN stock \cup txn[w].missed
      BY <2>2, <2>3
    <3>2. Buy(c)!Base(w, p) \in Int
      BY <3>1 DEF Buy!Base, BuyInv, BuyTypes
    <3>3. Went(y, p) \in Int
      BY ReturnMoves
    <3> QED
      BY <2>4, <3>2, <3>3
  <2>7. ASSUME NEW p \in DOMAIN c.opening PROVE stock'[p] = stock[p] - Went(y, p)
    <3>1. p \notin txn[w].missed /\ p \in DOMAIN stock'
      BY <2>1, <2>5 DEF Missing, BuyInv, BuyTypes
    <3> QED
      BY <2>4, <3>1 DEF Buy!Base
  <2>8. stock' = [p \in DOMAIN stock' |-> stock'[p]]
    BY <1>5
  <2> QED
    BY <2>5, <2>6, <2>7, <2>8
<1>11. ASSUME NEW o \in c.orders, orders[o] # Gone
       PROVE  /\ orders'[o] \in BuyOrder(c) /\ orders'[o].status = orders[o].status
              /\ DOMAIN orders'[o].lines = DOMAIN orders[o].lines
              /\ \A n \in DOMAIN orders[o].lines :
                   LET l == orders[o].lines[n]  k == orders'[o].lines[n] IN
                   /\ k.received = l.received /\ k.quantity = l.quantity /\ k.closed = l.closed
                   /\ k.returned = l.returned + Back(y, o, n)
  <2>1. orders[o] \in BuyOrder(c) /\ orders[o].lines \in ListsOf(c.lines, Buy(c)!OrderLine) /\ c.lines \in Nat
    BY <1>11 DEF BuyInv, BuyTypes, BuyOrder, Bought, Buy!PurchaseAssumption
  <2> DEFINE ks == [n \in DOMAIN orders[o].lines |->
                     Buy(c)!AfterReturn(orders[o].lines[n], Back(y, o, n))]
  <2>2. orders'[o] = [orders[o] EXCEPT !.lines = ks]
    <3>1. [n \in DOMAIN orders[o].lines |->
             Buy(c)!AfterReturn(orders[o].lines[n], Buy(c)!Returned(returns[t].lines, o, n))] = ks
      BY <1>9
    <3>2. orders'[o] = [orders[o] EXCEPT !.lines = [n \in DOMAIN @ |->
                          Buy(c)!AfterReturn(@[n], Buy(c)!Returned(returns[t].lines, o, n))]]
      BY <1>5, <1>11, BuyShapes
    <3> HIDE DEF ks
    <3> QED
      BY <3>1, <3>2
  <2>3. ASSUME NEW n \in DOMAIN orders[o].lines
        PROVE  /\ ks[n] \in Buy(c)!OrderLine
               /\ LET l == orders[o].lines[n]  k == ks[n] IN
                  /\ k.received = l.received /\ k.quantity = l.quantity /\ k.closed = l.closed
                  /\ k.returned = l.returned + Back(y, o, n)
    <3>1. PICK l \in Buy(c)!OrderLine : l = orders[o].lines[n]
      BY <2>1, ListShape
    <3>2. PICK g \in Int : g = l.returned + Back(y, o, n)
      <4>1. l.returned \in Int /\ Back(y, o, n) \in Int
        BY ReturnMoves DEF Buy!OrderLine
      <4> QED
        BY <4>1
    <3>3. ks[n] = [l EXCEPT !.returned = g]
      BY <3>1, <3>2 DEF Buy!AfterReturn
    <3> HIDE DEF ks
    <3> QED
      BY <3>1, <3>2, <3>3 DEF Buy!OrderLine
  <2>4. ks \in ListsOf(c.lines, Buy(c)!OrderLine) /\ DOMAIN ks = DOMAIN orders[o].lines
    <3>1. PICK m \in 1..c.lines : DOMAIN orders[o].lines = 1..m
      BY <2>1 DEF ListsOf
    <3>2. ks \in [1..m -> Buy(c)!OrderLine]
      BY <2>3, <3>1
    <3> QED
      BY <3>1, <3>2 DEF ListsOf
  <2> HIDE DEF ks
  <2>5. orders'[o] \in BuyOrder(c) /\ orders'[o].status = orders[o].status /\ orders'[o].lines = ks
    BY <2>1, <2>2, <2>4 DEF BuyOrder
  <2> QED
    BY <2>3, <2>4, <2>5
<1>12. \A o \in c.orders : orders[o] = Gone => orders'[o] = Gone
  BY <1>5, BuyShapes
<1>13. ReturnSettled(c, t, y)
  <2>1. /\ orders' \in [c.orders -> BuyOrder(c) \cup {Gone}]
        /\ \A o \in c.orders : orders'[o] # Gone <=> orders[o] # Gone
    <3>1. DOMAIN orders' = c.orders /\ orders' = [o \in c.orders |-> orders'[o]]
      BY <1>5
    <3>2. \A o \in c.orders : orders'[o] \in BuyOrder(c) \cup {Gone}
      BY <1>11, <1>12
    <3> QED
      BY <1>11, <1>12, <3>1, <3>2, BuyShapes
  <2> QED
    BY <1>3, <1>7, <1>10, <1>11, <2>1 DEF ReturnSettled
<1> QED
  BY <1>8, <1>13, ReturnSettledStep

\* Every step of Purchase keeps the invariant.
LEMMA BuyStep ==
    ASSUME NEW CONSTANT c, Bought(c), BuyInv(c),
           Buy(c)!Next \/ UNCHANGED <<orders, receipts, returns, invoices, stock, trail, txn>>
    PROVE  BuyInv(c)'
<1>1. CASE UNCHANGED <<orders, receipts, returns, invoices, stock, trail, txn>>
  <2>1. BuyTypes(c)' /\ BuyLocks(c)' /\ BuyApproved(c)' /\ BuyHistory(c)'
    BY <1>1 DEF BuyInv, BuyTypes, BuyLocks, BuyApproved, BuyHistory, Document
  <2>2. BuyPending(c)'
    BY <1>1, PendingKept
  <2> QED
    BY <1>1, <2>1, <2>2, StatusMoved DEF BuyInv
<1>2. ASSUME NEW i \in c.invoices, Buy(c)!CreateInvoice(i) PROVE BuyInv(c)'
  <2>1. PICK o \in c.orders : invoices' = [invoices EXCEPT ![i] = [order |-> o]]
    BY <1>2 DEF Buy!CreateInvoice, Buy!Rows, BuyInv, BuyTypes
  <2>2. UNCHANGED <<orders, receipts, returns, stock, trail, txn>>
    BY <1>2 DEF Buy!CreateInvoice
  <2>3. BuyTypes(c)' /\ BuyLocks(c)' /\ BuyApproved(c)' /\ BuyHistory(c)'
    BY <2>1, <2>2 DEF BuyInv, BuyTypes, BuyLocks, BuyApproved, BuyHistory, Document
  <2>4. BuyPending(c)'
    BY <2>2, PendingKept
  <2> QED
    BY <2>2, <2>3, <2>4, StatusMoved DEF BuyInv
<1>3. ASSUME NEW w \in Workers, Buy(c)!Rollback(w) PROVE BuyInv(c)'
  <2>1. GivenUp(w)
    BY <1>3 DEF GivenUp, Buy!Rollback, Buy!End, Buy!Idle, Still
  <2> QED
    BY <2>1, GivenUpStep
<1>4. CASE Buy(c)!Read
  BY <1>1, <1>4 DEF Buy!Read, Buy!vars
<1> QED
  BY <1>1, <1>2, <1>3, <1>4, BuyCreateOrder, BuyLock, BuyTransition, BuyStartReceipt, BuyMissReceived,
     BuyReceiveLine, BuyCommitReceipt, BuyCreateReturn, BuySubmitReturn, BuyMissReturned, BuyApproveReturn
  DEF Buy!Next

-----------------------------------------------------------------------------
(* What the invariant says of the properties of Buy. *)

LEMMA BuySums ==
    ASSUME NEW CONSTANT c
    PROVE  /\ \A f, S : Buy(c)!SumFunctionOnSet(f, S) = SumFunctionOnSet(f, S)
           /\ Buy(c)!Rows(receipts) = Received
           /\ \A o, n : Buy(c)!Posted(o, n) = TotalGot(o, n) /\ (Buy(c)!Named(o, n) <=> Posts(o, n))
<1>1. \A f, S : Buy(c)!SumFunctionOnSet(f, S) = SumFunctionOnSet(f, S)
  BY DEF Buy!SumFunctionOnSet, SumFunctionOnSet, Buy!FoldFunctionOnSet, FoldFunctionOnSet,
         Buy!MapThenFoldSet, MapThenFoldSet
<1>2. Buy(c)!Rows(receipts) = Received
  BY BuyShapes DEF Buy!Rows, Received
<1>3. ASSUME NEW o, NEW n PROVE Buy(c)!Posted(o, n) = TotalGot(o, n)
  <2>1. {r \in Buy(c)!Rows(receipts) : Buy(c)!GetReceipt(r).order = o} = ReceivedOn(o)
    BY <1>2 DEF Buy!GetReceipt, ReceivedOn
  <2>2. \A r : Buy(c)!Moved(Buy(c)!GetReceipt(r).lines, Buy(c)!OnLine(Buy(c)!GetReceipt(r).lines, n))
                 = Got(receipts[r], n)
    BY BuyMoved DEF Buy!GetReceipt, Buy!OnLine, OfLine, Got
  <2> QED
    BY <1>1, <2>1, <2>2 DEF Buy!Posted, TotalGot
<1>4. \A o, n : Buy(c)!Named(o, n) <=> Posts(o, n)
  BY <1>2 DEF Buy!Named, Posts, ReceivedOn, Buy!GetReceipt, Buy!OnLine, OfLine
<1> QED
  BY <1>1, <1>2, <1>3, <1>4

\* The invariant contains the types of Purchase.
LEMMA BuyTypeOK == ASSUME NEW CONSTANT c, Bought(c), BuyInv(c) PROVE Buy(c)!TypeOK
<1>1. c.lines \in Nat /\ 1 \in Nat /\ Buy(c)!Status = 0..4 \cup {-1}
  BY DEF Bought, Buy!PurchaseAssumption, Buy!Status, Buy!Draft, Buy!Submitted, Buy!PendingSupervisor,
         Buy!Approved, Buy!Rejected, Buy!Deleted
<1>2. ASSUME NEW o \in Buy(c)!Rows(orders)
      PROVE  orders[o].status \in Buy(c)!Status /\ orders[o].lines \in Seq(Buy(c)!OrderLine)
  <2>1. orders[o] \in BuyOrder(c)
    BY <1>2 DEF Buy!Rows, Buy!Absent, Gone, BuyInv, BuyTypes
  <2> QED
    BY <1>1, <2>1, ListShape DEF BuyOrder
<1>3. ASSUME NEW r \in Buy(c)!Rows(receipts)
      PROVE  receipts[r].order \in c.orders /\ receipts[r].lines \in Seq(Buy(c)!ReceiptLine)
  <2>1. receipts[r] \in BuyReceipt(c)
    BY <1>3 DEF Buy!Rows, Buy!Absent, Gone, BuyInv, BuyTypes
  <2>2. receipts[r].order \in c.orders /\ receipts[r].lines \in Seq(BuyReceiptLine(c))
    BY <2>1 DEF BuyReceipt
  <2> QED
    BY <2>2 DEF BuyReceiptLine, Buy!ReceiptLine
<1>4. ASSUME NEW t \in Buy(c)!Rows(returns)
      PROVE  /\ returns[t].order \in c.orders /\ returns[t].status \in Buy(c)!Status
             /\ returns[t].lines \in Seq(Buy(c)!ReturnLine)
  <2>1. returns[t] \in BuyReturn(c)
    BY <1>4 DEF Buy!Rows, Buy!Absent, Gone, BuyInv, BuyTypes
  <2>2. /\ returns[t].order \in c.orders /\ returns[t].status \in Buy(c)!Status
        /\ returns[t].lines \in Seq(BuyReturnLine(c))
    BY <1>1, <2>1, ListShape DEF BuyReturn
  <2> QED
    BY <2>2 DEF BuyReturnLine, Buy!ReturnLine
<1>5. \A i \in Buy(c)!Rows(invoices) : invoices[i].order \in c.orders
  BY DEF Buy!Rows, Buy!Absent, Gone, BuyInv, BuyTypes
<1>6. DOMAIN stock \subseteq Buy(c)!Places /\ \A p \in DOMAIN stock : stock[p] \in Int
  BY DEF BuyInv, BuyTypes, Buy!Places
<1>7. ASSUME NEW w \in Workers
      PROVE  \/ txn[w] = Buy(c)!Idle
             \/ txn[w] \in [op : Buy(c)!OrderOps \cup {"lines", "submit_return", "approve_return"},
                            doc : c.orders \cup c.returns, before : [status : Buy(c)!Status],
                            todo : Seq(Buy(c)!ReceiptLine), done : Seq(Buy(c)!ReceiptLine),
                            missed : SUBSET Buy(c)!Places]
  <2>1. txn[w] \in OrderWork(c) \cup ReturnWork(c) \cup {Still}
    BY DEF BuyInv, BuyTypes, BuyWork
  <2>2. BuyReceiptLine(c) = Buy(c)!ReceiptLine /\ Missing(c) \subseteq SUBSET Buy(c)!Places
    BY DEF BuyReceiptLine, Buy!ReceiptLine, Missing, Buy!Places
  <2>3. OrderOp \subseteq Buy(c)!OrderOps \cup {"lines", "submit_return", "approve_return"}
    BY DEF OrderOp, Buy!OrderOps
  <2> QED
    BY <1>1, <2>1, <2>2, <2>3 DEF OrderWork, ReturnWork, Still, Buy!Idle
<1> QED
  BY <1>2, <1>3, <1>4, <1>5, <1>6, <1>7 DEF Buy!TypeOK

\* Order lines show what receipts posted.
LEMMA BuyReceived == ASSUME NEW CONSTANT c, Bought(c), BuyInv(c)
                     PROVE  Buy(c)!ReceivedAsPosted /\ Buy(c)!ReceivedOnApproved
<1>1. Buy(c)!ReceivedAsPosted
  <2>1. \A o \in Buy(c)!Rows(orders) : o \in c.orders /\ orders[o] # Gone
    BY BuyShapes DEF Buy!Rows, BuyInv, BuyTypes
  <2>2. ASSUME NEW o \in Buy(c)!Rows(orders), NEW n \in DOMAIN orders[o].lines
        PROVE  LinePosted(orders[o].lines[n], Buy(c)!Posted(o, n), Buy(c)!Named(o, n))
    <3>1. LinePosted(orders[o].lines[n], TotalGot(o, n), Posts(o, n))
      BY <2>1 DEF BuyInv, BuyPosted
    <3>2. Buy(c)!Posted(o, n) = TotalGot(o, n) /\ (Buy(c)!Named(o, n) <=> Posts(o, n))
      BY BuySums
    <3> QED
      BY <3>1, <3>2 DEF LinePosted
  <2> QED
    BY <2>2 DEF Buy!ReceivedAsPosted, Buy!GetOrder, LinePosted
<1>2. Buy(c)!ReceivedOnApproved
  <2>1. ASSUME NEW r \in Received PROVE receipts[r].order \in Buy(c)!SearchOrders({Buy(c)!Approved})
    <3>1. r \in c.receipts /\ receipts[r] # Gone /\ receipts[r].order \in c.orders
      BY DEF Received, BuyInv, BuyTypes, BuyReceipt
    <3>2. orders[receipts[r].order] # Gone /\ orders[receipts[r].order].status = 3
      BY <3>1 DEF BuyInv, BuyApproved
    <3> QED
      BY <3>1, <3>2, BuyShapes DEF Buy!SearchOrders, Buy!Rows, Buy!Approved, BuyInv, BuyTypes
  <2> QED
    BY <2>1, BuySums DEF Buy!ReceivedOnApproved, Buy!GetReceipt
<1> QED
  BY <1>1, <1>2

\* The stock is what receipts brought and returns took.
LEMMA BuyStocked == ASSUME NEW CONSTANT c, BuyInv(c) PROVE Buy(c)!StockAsPosted
<1> DEFINE done == {t \in Buy(c)!Rows(returns) : Buy(c)!GetReturn(t).status = Buy(c)!Approved}
<1>1. done = Settled
  BY BuyShapes DEF Buy!Rows, Buy!GetReturn, Buy!Approved, Settled
<1>2. ASSUME NEW p PROVE [r \in Buy(c)!Rows(receipts) |->
                            Buy(c)!Moved(receipts[r].lines, Buy(c)!AtPlace(receipts[r].lines, p))]
                         = [r \in Received |-> Came(receipts[r], p)]
  BY BuySums, BuyMoved DEF Buy!AtPlace, PlacedAt, Came
<1>3. ASSUME NEW p PROVE [t \in done |-> Buy(c)!Issued(returns[t].lines, p)]
                         = [t \in Settled |-> Went(returns[t], p)]
  BY <1>1, BuyMoved DEF Buy!Issued, Buy!Origin, Buy!Source, Went, BackTo, Joined
<1>4. ASSUME NEW o, NEW n PROVE [t \in done |-> Buy(c)!Returned(returns[t].lines, o, n)]
                                = [t \in Settled |-> Back(returns[t], o, n)]
  BY <1>1, BuyMoved DEF Buy!Returned, Buy!Source, Back, BackOn, Joined
<1>5. \A o \in Buy(c)!Rows(orders) : o \in c.orders /\ orders[o] # Gone
  BY BuyShapes DEF Buy!Rows, BuyInv, BuyTypes
<1> HIDE DEF done
<1>6. ASSUME NEW p \in DOMAIN c.opening
      PROVE  stock[p] = c.opening[p]
                   + Buy(c)!SumFunctionOnSet([r \in Buy(c)!Rows(receipts) |->
                     Buy(c)!Moved(receipts[r].lines, Buy(c)!AtPlace(receipts[r].lines, p))],
                     Buy(c)!Rows(receipts))
                   - Buy(c)!SumFunctionOnSet([t \in done |-> Buy(c)!Issued(returns[t].lines, p)], done)
  <2>1. Buy(c)!SumFunctionOnSet([r \in Buy(c)!Rows(receipts) |->
          Buy(c)!Moved(receipts[r].lines, Buy(c)!AtPlace(receipts[r].lines, p))], Buy(c)!Rows(receipts))
          = TotalCame(p)
    BY <1>2, BuySums DEF TotalCame
  <2>2. Buy(c)!SumFunctionOnSet([t \in done |-> Buy(c)!Issued(returns[t].lines, p)], done) = TotalWent(p)
    <3>1. Buy(c)!SumFunctionOnSet([t \in done |-> Buy(c)!Issued(returns[t].lines, p)], done)
            = SumFunctionOnSet([t \in done |-> Buy(c)!Issued(returns[t].lines, p)], done)
      BY BuySums
    <3> QED
      BY <1>1, <1>3, <3>1 DEF TotalWent
  <2> QED
    BY <2>1, <2>2 DEF BuyInv, BuyStock
<1>7. ASSUME NEW o \in Buy(c)!Rows(orders), NEW n \in DOMAIN orders[o].lines
      PROVE  orders[o].lines[n].returned
          = Buy(c)!SumFunctionOnSet([t \in done |-> Buy(c)!Returned(returns[t].lines, o, n)], done)
  <2>1. Buy(c)!SumFunctionOnSet([t \in done |-> Buy(c)!Returned(returns[t].lines, o, n)], done)
          = TotalBack(o, n)
    <3>1. Buy(c)!SumFunctionOnSet([t \in done |-> Buy(c)!Returned(returns[t].lines, o, n)], done)
            = SumFunctionOnSet([t \in done |-> Buy(c)!Returned(returns[t].lines, o, n)], done)
      BY BuySums
    <3> QED
      BY <1>1, <1>4, <3>1 DEF TotalBack
  <2> QED
    BY <1>5, <2>1 DEF BuyInv, BuyStock
<1> QED
  BY <1>6, <1>7 DEF Buy!StockAsPosted, done

\* The change records of a purchase order are a chain up to its row.
LEMMA BuyTold == ASSUME NEW CONSTANT c, BuyInv(c) PROVE Buy(c)!OrderHistory
<1>1. ASSUME NEW o \in Buy(c)!Rows(orders)
      PROVE  /\ Buy(c)!Chained(trail[o])
             /\ Buy(c)!UpToDate(trail[o], IF orders[o].status = Buy(c)!Deleted THEN Buy(c)!Nothing
                                          ELSE Buy(c)!Snapshot(orders[o]))
  <2>1. Tells(trail[o], OrderView(orders[o]))
    BY <1>1, BuyShapes DEF Buy!Rows, BuyInv, BuyTypes, BuyHistory
  <2>2. OrderView(orders[o]) = IF orders[o].status = Buy(c)!Deleted THEN Buy(c)!Nothing
                               ELSE Buy(c)!Snapshot(orders[o])
    BY DEF OrderView, Buy!Deleted, Buy!Nothing, Nothing, Buy!Snapshot
  <2> QED
    BY <2>1, <2>2 DEF Tells, Buy!Chained, Buy!UpToDate
<1> QED
  BY <1>1 DEF Buy!OrderHistory

-----------------------------------------------------------------------------
(* Sell: the row locks of orders and of places serialise the deliveries.   *)

SellLine == [quantity : Int, delivered : Int, closed : BOOLEAN]
SellOrder(c) == [status : 0..4 \cup {-1}, lines : ListsOf(c.lines, SellLine)]
TakeLine(c) == [line : 1..c.lines, place : c.places, quantity : c.quantities]
SellDelivery(c) == [order : c.orders, lines : Seq(TakeLine(c))]
SellTask(c) == [op : {"submit", "approve", "deliver"}, doc : c.orders, before : [status : 0..4 \cup {-1}]]
TakeTask(c) == [op : {"lines"}, doc : c.orders, before : [status : 0..4 \cup {-1}],
                todo : Seq(TakeLine(c)), done : Seq(TakeLine(c)), missed : SUBSET (c.places \ DOMAIN c.opening)]
BillTask(c) == [op : {"invoice"}, doc : c.invoices]
SellWork(c) == SellTask(c) \cup TakeTask(c) \cup BillTask(c)

SellTypes(c) ==
    /\ orders \in [c.orders -> SellOrder(c) \cup {Gone}]
    /\ deliveries \in [c.deliveries -> SellDelivery(c) \cup {Gone}]
    /\ \A i \in DOMAIN invoices : invoices[i] # Gone => invoices[i].order \in c.orders
    /\ DOMAIN c.opening \subseteq DOMAIN stock /\ DOMAIN stock \subseteq c.places
    /\ stock \in [DOMAIN stock -> Int]
    /\ DOMAIN trail = c.orders \cup c.invoices /\ \A o \in c.orders : trail[o] \in Seq(Entry)
    /\ txn \in [Workers -> SellWork(c) \cup {Still}]

\* What a list of delivery lines takes for order line n, and from place p.
FromPlace(ls, p) == {k \in DOMAIN ls : ls[k].place = p}
TakenFrom(ls, p) == Move(ls, FromPlace(ls, p))
Taking(ls) == {ls[k].place : k \in DOMAIN ls}

\* What request t takes from at place p, which it holds: 0 if it found no row.
Holding(t, p) == IF p \in t.missed THEN 0 ELSE stock[p]

\* What an open request read still holds; what a delivery took so far fits.
SellOpen(c, t) ==
    /\ t.op # "invoice" => orders[t.doc] # Gone /\ orders[t.doc].status = t.before.status
    /\ t.op = "lines" =>
         /\ t.before.status = 3
         /\ \A k \in DOMAIN t.todo : t.todo[k].line \in DOMAIN orders[t.doc].lines
         /\ \A k \in DOMAIN t.done : t.done[k].line \in DOMAIN orders[t.doc].lines
         /\ \A n \in DOMAIN orders[t.doc].lines : OfLine(t.done, n) # {} =>
              orders[t.doc].lines[n].delivered + ForLine(t.done, n) <= orders[t.doc].lines[n].quantity
         /\ \A p \in Taking(t.done) :
              p \in DOMAIN stock \cup t.missed /\ TakenFrom(t.done, p) <= Holding(t, p)

\* No two requests have the same order, or goods of the same place.
Apart(t, u) ==
    t # Still /\ u # Still =>
      /\ t.op # "invoice" /\ u.op # "invoice" => t.doc # u.doc
      /\ t.op = "lines" /\ u.op = "lines" =>
           \A j \in DOMAIN t.done, k \in DOMAIN u.done : t.done[j].place # u.done[k].place

SellLocks(c) ==
    /\ \A w \in Workers : txn[w] # Still => SellOpen(c, txn[w])
    /\ \A v, w \in Workers : v # w => Apart(txn[v], txn[w])

SellApproved(c) ==
    \A d \in c.deliveries : deliveries[d] # Gone =>
      orders[deliveries[d].order] # Gone /\ orders[deliveries[d].order].status = 3

Delivered == {d \in DOMAIN deliveries : deliveries[d] # Gone}
DeliveredTo(o) == {d \in Delivered : deliveries[d].order = o}
TotalFor(o, n) == SumFunctionOnSet([d \in DeliveredTo(o) |-> ForLine(deliveries[d].lines, n)], DeliveredTo(o))
TotalTaken(p) == SumFunctionOnSet([d \in Delivered |-> TakenFrom(deliveries[d].lines, p)], Delivered)

Takes(o, n) == \E d \in DeliveredTo(o) : OfLine(deliveries[d].lines, n) # {}

\* A line shows what the deliveries of its order posted; one of them names
\* it, or none.
LineTaken(l, sum, named) ==
    /\ l.delivered = sum
    /\ IF named THEN l.delivered <= l.quantity /\ (l.closed <=> l.delivered = l.quantity) ELSE ~l.closed

SellPosted(c) ==
    /\ IsFiniteSet(Delivered)
    /\ \A o \in c.orders : orders[o] # Gone =>
         \A n \in DOMAIN orders[o].lines : LineTaken(orders[o].lines[n], TotalFor(o, n), Takes(o, n))

\* A row is below zero only as it was at the start; one that was there then
\* is what it was, less what was taken.
SellStock(c) ==
    /\ \A p \in DOMAIN stock : stock[p] >= 0 \/ (p \in DOMAIN c.opening /\ stock[p] = c.opening[p])
    /\ \A p \in DOMAIN c.opening : stock[p] = c.opening[p] - TotalTaken(p)

SellHistory(c) ==
    \A o \in c.orders :
      IF orders[o] = Gone THEN trail[o] = <<>> ELSE Tells(trail[o], [status |-> orders[o].status])

SellInv(c) ==
    /\ SellTypes(c) /\ SellLocks(c) /\ SellApproved(c)
    /\ SellPosted(c) /\ SellStock(c) /\ SellHistory(c)
Sold(c) == Sell(c)!SalesAssumption

\* What the rows of the documents of Sell look like.
LEMMA SellShapes ==
    ASSUME NEW CONSTANT c
    PROVE  /\ \A x \in SellOrder(c) \cup SellDelivery(c) : x # Gone
           /\ \A x \in SellWork(c) : x # Still
           /\ Sell(c)!Absent = Gone /\ Sell(c)!Idle = Still
<1>1. \A x \in SellOrder(c) \cup SellDelivery(c) : x # Gone
  BY DEF SellOrder, SellDelivery, Gone
<1>2. /\ \A x : x \in SellTask(c) => x.op \in {"submit", "approve", "deliver"}
      /\ \A x : x \in TakeTask(c) => x.op = "lines"
      /\ \A x : x \in BillTask(c) => x.op = "invoice"
  BY DEF SellTask, TakeTask, BillTask
<1>3. Still.op = "idle"
  BY DEF Still
<1> QED
  BY <1>1, <1>2, <1>3 DEF SellWork, Gone, Still, Sell!Absent, Sell!Idle

\* The lines of a delivery take integer numbers of goods.
LEMMA TakenInt ==
    ASSUME NEW CONSTANT c, Sold(c), NEW ls \in Seq(TakeLine(c))
    PROVE  /\ IsFiniteSet(DOMAIN ls) /\ \A k \in DOMAIN ls : ls[k] \in TakeLine(c)
           /\ \A n : ForLine(ls, n) \in Int
           /\ \A p : TakenFrom(ls, p) \in Int
           /\ \A p : p \notin Taking(ls) => FromPlace(ls, p) = {} /\ TakenFrom(ls, p) = 0
<1>1. \A x \in TakeLine(c) : x.quantity \in Int
  BY DEF TakeLine, Sold, Sell!SalesAssumption
<1>2. /\ IsFiniteSet(DOMAIN ls) /\ \A k \in DOMAIN ls : ls[k] \in TakeLine(c)
      /\ \A K \in SUBSET DOMAIN ls : Move(ls, K) \in Int
      /\ \A n : ForLine(ls, n) \in Int
  BY <1>1, Listed
<1>3. \A p : FromPlace(ls, p) \in SUBSET DOMAIN ls
  BY DEF FromPlace
<1>4. \A p : p \notin Taking(ls) => FromPlace(ls, p) = {}
  BY DEF FromPlace, Taking
<1> QED
  BY <1>2, <1>3, <1>4, MoveNothing DEF TakenFrom

\* A delivery that takes a line more has taken its quantity more.
LEMMA TakeMore ==
    ASSUME NEW CONSTANT c, Sold(c), NEW ls \in Seq(TakeLine(c)), NEW l \in TakeLine(c)
    PROVE  /\ \A n : /\ ForLine(Append(ls, l), n) = ForLine(ls, n) + IF l.line = n THEN l.quantity ELSE 0
                     /\ l.line # n => OfLine(Append(ls, l), n) = OfLine(ls, n)
           /\ \A p : TakenFrom(Append(ls, l), p) = TakenFrom(ls, p) + IF l.place = p THEN l.quantity ELSE 0
           /\ Taking(Append(ls, l)) = Taking(ls) \cup {l.place}
           /\ l.quantity \in Int
<1>1. /\ DOMAIN ls = 1..Len(ls) /\ Len(ls) \in Nat /\ DOMAIN Append(ls, l) = 1..(Len(ls) + 1)
      /\ \A k \in 1..Len(ls) : Append(ls, l)[k] = ls[k]
      /\ Append(ls, l)[Len(ls) + 1] = l
  OBVIOUS
<1>2. \A x \in TakeLine(c) : x.quantity \in Int
  BY DEF TakeLine, Sold, Sell!SalesAssumption
<1>5. ASSUME NEW K \in SUBSET DOMAIN ls
      PROVE  /\ Move(Append(ls, l), K) = Move(ls, K) /\ Move(ls, K) \in Int
             /\ Move(Append(ls, l), K \cup {Len(ls) + 1}) = Move(ls, K) + l.quantity
  BY <1>2, MoveAppend
<1>3. \A n : /\ ForLine(Append(ls, l), n) = ForLine(ls, n) + IF l.line = n THEN l.quantity ELSE 0
             /\ l.line # n => OfLine(Append(ls, l), n) = OfLine(ls, n)
  BY <1>2, ListedMore
<1>4. ASSUME NEW p PROVE TakenFrom(Append(ls, l), p) = TakenFrom(ls, p) + IF l.place = p THEN l.quantity ELSE 0
  <2>1. FromPlace(ls, p) \in SUBSET DOMAIN ls
    BY DEF FromPlace
  <2>2. CASE l.place = p
    <3>1. FromPlace(Append(ls, l), p) = FromPlace(ls, p) \cup {Len(ls) + 1}
      BY <1>1, <2>2 DEF FromPlace
    <3> QED
      BY <1>5, <2>1, <2>2, <3>1 DEF TakenFrom
  <2>3. CASE l.place # p
    <3>1. FromPlace(Append(ls, l), p) = FromPlace(ls, p)
      BY <1>1, <2>3 DEF FromPlace
    <3>2. Move(Append(ls, l), FromPlace(ls, p)) = Move(ls, FromPlace(ls, p)) /\ Move(ls, FromPlace(ls, p)) \in Int
      BY <1>5, <2>1
    <3> QED
      BY <2>3, <3>1, <3>2 DEF TakenFrom
  <2> QED
    BY <2>2, <2>3
<1>6. Taking(Append(ls, l)) = Taking(ls) \cup {l.place}
  <2>1. \A k : k \in 1..(Len(ls) + 1) <=> k \in 1..Len(ls) \/ k = Len(ls) + 1
    BY <1>1
  <2> QED
    BY <1>1, <2>1 DEF Taking
<1> QED
  BY <1>2, <1>3, <1>4, <1>6

-----------------------------------------------------------------------------
(* The steps that Sell can take, by what they change. *)

LEMMA SellInit == ASSUME NEW CONSTANT c, Sold(c), Sell(c)!Init PROVE SellInv(c)
<1> USE DEF Sell!Init
<1>1. SellTypes(c)
  <2>1. /\ orders \in [c.orders -> SellOrder(c) \cup {Gone}]
        /\ deliveries \in [c.deliveries -> SellDelivery(c) \cup {Gone}]
        /\ \A i \in DOMAIN invoices : invoices[i] = Gone
        /\ txn \in [Workers -> SellWork(c) \cup {Still}]
    BY SellShapes
  <2>2. /\ DOMAIN c.opening \subseteq DOMAIN stock /\ DOMAIN stock \subseteq c.places
        /\ stock \in [DOMAIN stock -> Int] /\ \A o \in c.orders : trail[o] \in Seq(Entry)
    BY DEF Sold, Sell!SalesAssumption
  <2> QED
    BY <2>1, <2>2 DEF SellTypes
<1>2. /\ \A o \in c.orders : orders[o] = Gone /\ trail[o] = <<>>
      /\ \A w \in Workers : txn[w] = Still
      /\ Delivered = {} /\ \A d \in c.deliveries : deliveries[d] = Gone
  BY SellShapes DEF Delivered
<1>3. SellLocks(c) /\ SellApproved(c) /\ SellHistory(c)
  BY <1>2 DEF SellLocks, Apart, SellApproved, SellHistory
<1>4. SellPosted(c)
  BY <1>2, FS_EmptySet DEF SellPosted
<1>5. SellStock(c)
  <2>1. \A p : TotalTaken(p) = 0
    BY <1>2, SumEmpty DEF TotalTaken
  <2>2. stock = c.opening /\ \A p \in DOMAIN c.opening : c.opening[p] \in Int
    BY DEF Sold, Sell!SalesAssumption
  <2> QED
    BY <2>1, <2>2 DEF SellStock
<1> QED
  BY <1>1, <1>3, <1>4, <1>5 DEF SellInv

\* Deliveries that stay as they are have the same sums.
LEMMA DeliveriesKept ==
    ASSUME deliveries' = deliveries
    PROVE  /\ Delivered' = Delivered
           /\ \A o, n : TotalFor(o, n)' = TotalFor(o, n) /\ Takes(o, n)' = Takes(o, n)
           /\ \A p : TotalTaken(p)' = TotalTaken(p)
BY DEF Delivered, TotalFor, Takes, DeliveredTo, TotalTaken, ForLine, TakenFrom, OfLine, FromPlace

\* A request that only changes its own state, or an invoice and its trail.
LEMMA SellWorkStep ==
    ASSUME NEW CONSTANT c, SellInv(c), NEW w \in Workers, NEW t \in SellWork(c) \cup {Still},
           txn' = [txn EXCEPT ![w] = t],
           t # Still => SellOpen(c, t),
           \A v \in Workers \ {w} : Apart(txn[v], t) /\ Apart(t, txn[v]),
           UNCHANGED <<orders, deliveries, stock>>,
           \A i \in DOMAIN invoices' : invoices'[i] # Gone => invoices'[i].order \in c.orders,
           DOMAIN trail' = DOMAIN trail, \A o \in c.orders : trail'[o] = trail[o]
    PROVE  SellInv(c)'
<1>1. SellTypes(c)'
  BY DEF SellInv, SellTypes
<1>2. txn'[w] = t /\ \A v \in Workers \ {w} : txn'[v] = txn[v]
  BY DEF SellInv, SellTypes
<1>3. SellLocks(c)'
  <2>1. ASSUME NEW v \in Workers, txn'[v] # Still PROVE SellOpen(c, txn'[v])
    BY <1>2, <2>1 DEF SellInv, SellLocks
  <2>2. ASSUME NEW v \in Workers, NEW u \in Workers, u # v PROVE Apart(txn'[v], txn'[u])
    BY <1>2, <2>2 DEF SellInv, SellLocks
  <2>3. ASSUME NEW v \in Workers, txn'[v] # Still PROVE SellOpen(c, txn[v])'
    BY <2>1, <2>3 DEF SellOpen, Holding
  <2>4. ASSUME NEW v \in Workers, NEW u \in Workers, u # v PROVE Apart(txn[v], txn[u])'
    BY <2>2, <2>4 DEF Apart
  <2> QED
    BY <2>3, <2>4 DEF SellLocks
<1>4. SellApproved(c)' /\ SellHistory(c)'
  BY DEF SellInv, SellApproved, SellHistory
<1>5. SellPosted(c)' /\ SellStock(c)'
  BY DeliveriesKept DEF SellInv, SellPosted, LineTaken, SellStock
<1> QED
  BY <1>1, <1>3, <1>4, <1>5 DEF SellInv

\* An order is created, or its status changes; nobody else has its lock.
OrderSaved(c, o, x, e) ==
    /\ orders' = [orders EXCEPT ![o] = x]
    /\ trail' = [trail EXCEPT ![o] = Append(@, e)] /\ e.after = [status |-> x.status]
    /\ txn' \in [Workers -> SellWork(c) \cup {Still}]
    /\ \A v \in Workers : txn'[v] # Still => txn'[v] = txn[v] /\ (txn[v].op # "invoice" => txn[v].doc # o)
    /\ IF orders[o] = Gone
       THEN /\ e.action = "created"
            /\ \A n \in DOMAIN x.lines : x.lines[n].delivered = 0 /\ ~x.lines[n].closed
       ELSE /\ e.action # "created" /\ e.before = [status |-> orders[o].status]
            /\ orders[o].status # 3 /\ x.lines = orders[o].lines
    /\ UNCHANGED <<deliveries, invoices, stock>>

\* An order created, or moved to a status, under its lock keeps the invariant.
LEMMA OrderSavedStep ==
    ASSUME NEW CONSTANT c, SellInv(c), NEW o \in c.orders, NEW x \in SellOrder(c), NEW e \in Entry,
           OrderSaved(c, o, x, e)
    PROVE  SellInv(c)'
<1> USE DEF OrderSaved
<1>1. orders'[o] = x /\ x # Gone /\ \A j \in c.orders \ {o} : orders'[j] = orders[j]
  BY SellShapes DEF SellInv, SellTypes
<1>2. /\ trail'[o] = Append(trail[o], e) /\ trail[o] \in Seq(Entry)
      /\ \A j \in c.orders \ {o} : trail'[j] = trail[j]
      /\ DOMAIN trail' = DOMAIN trail
  BY DEF SellInv, SellTypes
<1>3. SellTypes(c)'
  <2>1. Append(trail[o], e) \in Seq(Entry)
    BY <1>2
  <2> QED
    BY <1>2, <2>1 DEF SellInv, SellTypes
<1>4. SellLocks(c)'
  <2>1. ASSUME NEW v \in Workers, txn'[v] # Still PROVE SellOpen(c, txn[v])'
    <3>1. txn'[v] = txn[v] /\ SellOpen(c, txn[v])
      BY <2>1 DEF SellInv, SellLocks
    <3>2. txn[v].op # "invoice" => txn[v].doc \in c.orders \ {o}
      BY <2>1, <3>1 DEF SellInv, SellTypes, SellWork, SellTask, TakeTask, BillTask
    <3>3. txn[v].op # "invoice" => orders'[txn[v].doc] = orders[txn[v].doc]
      BY <1>1, <3>2
    <3>4. txn[v].op = "lines" => txn[v].op # "invoice"
      OBVIOUS
    <3>5. stock' = stock
      OBVIOUS
    <3> HIDE DEF OrderSaved
    <3> QED
      BY <3>1, <3>3, <3>4, <3>5 DEF SellOpen, Holding
  <2>2. ASSUME NEW v \in Workers, NEW u \in Workers, u # v PROVE Apart(txn[v], txn[u])'
    BY <2>2 DEF SellInv, SellLocks, Apart
  <2> QED
    BY <2>1, <2>2 DEF SellLocks
<1>5. \A d \in c.deliveries : deliveries[d] # Gone => deliveries[d].order \in c.orders \ {o}
  BY DEF SellInv, SellTypes, SellDelivery, SellApproved
<1>6. SellApproved(c)'
  BY <1>1, <1>5 DEF SellInv, SellApproved
<1>7. SellPosted(c)'
  <2>1. ASSUME NEW n \in DOMAIN x.lines
        PROVE  LineTaken(x.lines[n], TotalFor(o, n), Takes(o, n))
    <3>1. CASE orders[o] = Gone
      <4>1. DeliveredTo(o) = {}
        BY <1>5 DEF DeliveredTo, Delivered, SellInv, SellTypes
      <4>2. TotalFor(o, n) = 0 /\ ~ Takes(o, n)
        BY <4>1, SumEmpty DEF TotalFor, Takes
      <4> QED
        BY <3>1, <4>2 DEF LineTaken
    <3>2. CASE orders[o] # Gone
      BY <3>2 DEF SellInv, SellPosted
    <3> QED
      BY <3>1, <3>2
  <2>2. \A j \in c.orders : orders'[j] # Gone => \A n \in DOMAIN orders'[j].lines :
          LineTaken(orders'[j].lines[n], TotalFor(j, n), Takes(j, n))
    BY <1>1, <2>1 DEF SellInv, SellPosted
  <2> QED
    BY <2>2, DeliveriesKept DEF SellInv, SellPosted, LineTaken
<1>8. SellStock(c)'
  BY DeliveriesKept DEF SellInv, SellStock
<1>9. SellHistory(c)'
  <2>1. Tells(trail'[o], [status |-> x.status])
    <3>1. e.after = [status |-> x.status] /\ e \in Entry
      OBVIOUS
    <3>2. CASE orders[o] = Gone
      <4>1. trail[o] = <<>> /\ e.action = "created"
        BY <3>2 DEF SellInv, SellHistory
      <4>2. Tells(Append(<<>>, e), e.after)
        BY <3>1, <4>1, TellsFirst
      <4> QED
        BY <1>2, <3>1, <4>1, <4>2
    <3>3. CASE orders[o] # Gone
      <4>1. PICK view : view = [status |-> orders[o].status]
        OBVIOUS
      <4>2. Tells(trail[o], view) /\ trail[o] \in Seq(Entry) /\ e.action # "created" /\ e.before = view
        BY <1>2, <3>3, <4>1 DEF SellInv, SellHistory
      <4>3. Tells(Append(trail[o], e), e.after)
        BY <3>1, <4>2, TellsMore
      <4> QED
        BY <1>2, <3>1, <4>3
    <3> QED
      BY <3>2, <3>3
  <2> QED
    BY <1>1, <1>2, <2>1 DEF SellInv, SellHistory
<1> QED
  BY <1>3, <1>4, <1>6, <1>7, <1>8, <1>9 DEF SellInv


\* The delivery that request w worked on is posted as d: its order becomes y.
DeliveryPosted(c, w, d, x, y) ==
    /\ txn[w].op = "lines" /\ deliveries[d] = Gone
    /\ x.order = txn[w].doc /\ x.lines = txn[w].done
    /\ y.status = 3 /\ DOMAIN y.lines = DOMAIN orders[x.order].lines
    /\ \A n \in DOMAIN y.lines :
         LET l == orders[x.order].lines[n]  k == y.lines[n] IN
         /\ k.quantity = l.quantity /\ k.delivered = l.delivered + ForLine(x.lines, n)
         /\ IF OfLine(x.lines, n) = {} THEN k.closed = l.closed ELSE k.closed = (k.delivered >= k.quantity)
    /\ orders' = [orders EXCEPT ![x.order] = y]
    /\ deliveries' = [deliveries EXCEPT ![d] = x]
    /\ stock' = [p \in DOMAIN stock \cup Taking(x.lines) |->
                    IF p \in Taking(x.lines) THEN Holding(txn[w], p) - TakenFrom(x.lines, p) ELSE stock[p]]
    /\ txn' = [txn EXCEPT ![w] = Still]
    /\ UNCHANGED <<invoices, trail>>

\* An open request knows its order.
LEMMA OpenSale ==
    ASSUME NEW CONSTANT c, SellInv(c), NEW w \in Workers,
           txn[w].op \in {"submit", "approve", "deliver", "lines"}
    PROVE  /\ txn[w] # Still /\ txn[w].doc \in c.orders
           /\ orders[txn[w].doc] \in SellOrder(c) /\ orders[txn[w].doc] # Gone
           /\ orders[txn[w].doc].status \in 0..4 \cup {-1}
           /\ txn[w].before = [status |-> orders[txn[w].doc].status]
           /\ IF txn[w].op = "lines" THEN txn[w] \in TakeTask(c) ELSE txn[w] \in SellTask(c)
           /\ SellOpen(c, txn[w])
<1>1. txn[w] \in SellWork(c) \cup {Still} /\ txn[w] # Still
  BY DEF SellInv, SellTypes, Still
<1>2. IF txn[w].op = "lines" THEN txn[w] \in TakeTask(c) ELSE txn[w] \in SellTask(c)
  BY <1>1 DEF SellWork, SellTask, TakeTask, BillTask
<1>3. txn[w].doc \in c.orders /\ txn[w].before \in [status : 0..4 \cup {-1}]
  BY <1>2 DEF SellTask, TakeTask
<1>4. SellOpen(c, txn[w]) /\ orders[txn[w].doc] # Gone /\ orders[txn[w].doc].status = txn[w].before.status
  BY <1>1 DEF SellInv, SellLocks, SellOpen
<1>5. orders[txn[w].doc] \in SellOrder(c)
  BY <1>3, <1>4 DEF SellInv, SellTypes
<1> QED
  BY <1>1, <1>2, <1>3, <1>4, <1>5 DEF SellOrder

\* Other open deliveries keep what they took: nobody else has their goods.
LEMMA DeliveryPostedLocks ==
    ASSUME NEW CONSTANT c, Sold(c), SellInv(c), NEW w \in Workers, NEW d \in c.deliveries,
           NEW x \in SellDelivery(c), NEW y \in SellOrder(c), DeliveryPosted(c, w, d, x, y)
    PROVE  SellLocks(c)'
<1>1. /\ \A v \in Workers : txn'[v] # Still => v # w /\ txn'[v] = txn[v]
      /\ x.order = txn[w].doc /\ x.lines = txn[w].done /\ txn[w].op = "lines"
      /\ orders' = [orders EXCEPT ![x.order] = y]
      /\ DOMAIN stock \subseteq DOMAIN stock' /\ \A p \in DOMAIN stock \ Taking(x.lines) : stock'[p] = stock[p]
  BY DEF DeliveryPosted, SellInv, SellTypes
<1>2. txn[w] # Still /\ SellOpen(c, txn[w]) /\ x.lines \in Seq(TakeLine(c))
  BY <1>1, OpenSale DEF SellDelivery
<1>3. ASSUME NEW v \in Workers, txn'[v] # Still PROVE SellOpen(c, txn[v])'
  <2>1. /\ v # w /\ txn'[v] = txn[v] /\ txn[v] # Still /\ SellOpen(c, txn[v]) /\ Apart(txn[w], txn[v])
        /\ txn[v] \in SellWork(c)
    BY <1>1, <1>2, <1>3 DEF SellInv, SellLocks, SellTypes
  <2>2. txn[v].op # "invoice" => txn[v].doc \in c.orders /\ orders'[txn[v].doc] = orders[txn[v].doc]
    <3>1. txn[v].op # "invoice" => txn[v].doc \in c.orders /\ txn[v].doc # x.order
      BY <1>1, <1>2, <2>1 DEF Apart, SellWork, SellTask, TakeTask, BillTask
    <3> QED
      BY <1>1, <3>1 DEF SellInv, SellTypes
  <2>3. ASSUME txn[v].op = "lines", NEW p \in Taking(txn[v].done)
        PROVE  p \in DOMAIN stock' \cup txn[v].missed /\ TakenFrom(txn[v].done, p) <= Holding(txn[v], p)'
    <3>1. p \in DOMAIN stock \cup txn[v].missed /\ TakenFrom(txn[v].done, p) <= Holding(txn[v], p)
      BY <2>1, <2>3 DEF SellOpen
    <3>2. p \notin Taking(x.lines)
      BY <1>1, <1>2, <2>1, <2>3 DEF Apart, Taking
    <3>3. p \in txn[v].missed \/ stock'[p] = stock[p]
      BY <1>1, <3>1, <3>2
    <3> QED
      BY <1>1, <2>1, <3>1, <3>3 DEF Holding
  <2> QED
    BY <2>1, <2>2, <2>3 DEF SellOpen, Holding
<1>4. ASSUME NEW v \in Workers, NEW u \in Workers, u # v PROVE Apart(txn[v], txn[u])'
  BY <1>1, <1>4 DEF SellInv, SellLocks, Apart
<1> QED
  BY <1>3, <1>4 DEF SellLocks

\* What the deliveries of an order, and of a place, add up to afterwards.
LEMMA DeliveryPostedSums ==
    ASSUME NEW CONSTANT c, Sold(c), SellInv(c), NEW w \in Workers, NEW d \in c.deliveries,
           NEW x \in SellDelivery(c), NEW y \in SellOrder(c), DeliveryPosted(c, w, d, x, y)
    PROVE  /\ IsFiniteSet(Delivered)'
           /\ \A j, n : TotalFor(j, n)' = TotalFor(j, n) + IF j = x.order THEN ForLine(x.lines, n) ELSE 0
           /\ \A j, n : TotalFor(j, n) \in Int
           /\ \A j, n : Takes(j, n)' <=> Takes(j, n) \/ (j = x.order /\ OfLine(x.lines, n) # {})
           /\ \A p : TotalTaken(p)' = TotalTaken(p) + TakenFrom(x.lines, p) /\ TotalTaken(p) \in Int
<1>0. x # Gone /\ x.lines \in Seq(TakeLine(c))
  BY SellShapes DEF SellDelivery
<1>1. deliveries[d] = Gone /\ deliveries'[d] = x /\ \A q \in c.deliveries \ {d} : deliveries'[q] = deliveries[q]
  BY DEF SellInv, SellTypes, DeliveryPosted
<1>2. DOMAIN deliveries = c.deliveries /\ DOMAIN deliveries' = c.deliveries
  BY DEF SellInv, SellTypes, DeliveryPosted
<1>3. Delivered' = Delivered \cup {d} /\ d \notin Delivered /\ Delivered \in SUBSET c.deliveries
  BY <1>0, <1>1, <1>2 DEF Delivered
<1>4. \A q \in Delivered : deliveries'[q] = deliveries[q] /\ deliveries[q].lines \in Seq(TakeLine(c))
  BY <1>1, <1>3 DEF SellInv, SellTypes, SellDelivery, Delivered
<1>5. IsFiniteSet(Delivered) /\ IsFiniteSet(Delivered \cup {d})
  BY FS_AddElement DEF SellInv, SellPosted
<1>6. ASSUME NEW p PROVE TotalTaken(p)' = TotalTaken(p) + TakenFrom(x.lines, p) /\ TotalTaken(p) \in Int
  <2> DEFINE f == [q \in Delivered |-> TakenFrom(deliveries[q].lines, p)]
             e == [q \in Delivered \cup {d} |-> TakenFrom(deliveries'[q].lines, p)]
  <2>1. (\A q \in Delivered : f[q] \in Int /\ e[q] = f[q]) /\ e[d] = TakenFrom(x.lines, p) /\ e[d] \in Int
    BY <1>0, <1>1, <1>4, TakenInt
  <2>2. TotalTaken(p) = SumFunctionOnSet(f, Delivered)
    BY DEF TotalTaken
  <2>3. TotalTaken(p)' = SumFunctionOnSet(e, Delivered \cup {d})
    BY <1>3 DEF TotalTaken, TakenFrom, FromPlace
  <2> HIDE DEF f, e
  <2>4. SumFunctionOnSet(f, Delivered) \in Int
    BY <1>5, <2>1, SumInt
  <2>5. SumFunctionOnSet(e, Delivered \cup {d}) = SumFunctionOnSet(f, Delivered) + e[d]
    <3>1. /\ IsFiniteSet(Delivered) /\ d \notin Delivered /\ e[d] \in Int
          /\ \A q \in Delivered : f[q] \in Int /\ e[q] = f[q]
      BY <1>3, <1>5, <2>1
    <3> QED
      BY <3>1, SumExtended
  <2> QED
    BY <2>1, <2>2, <2>3, <2>4, <2>5
<1>7. ASSUME NEW j, NEW n
      PROVE  /\ TotalFor(j, n)' = TotalFor(j, n) + IF j = x.order THEN ForLine(x.lines, n) ELSE 0
             /\ TotalFor(j, n) \in Int
  <2> DEFINE S == DeliveredTo(j)
             f == [q \in S |-> ForLine(deliveries[q].lines, n)]
             g == [q \in S |-> ForLine(deliveries'[q].lines, n)]
             e == [q \in S \cup {d} |-> ForLine(deliveries'[q].lines, n)]
  <2>1. S \in SUBSET Delivered /\ IsFiniteSet(S) /\ d \notin S
    <3>1. S \in SUBSET Delivered
      BY DEF DeliveredTo
    <3> QED
      BY <1>3, <1>5, <3>1, FS_Subset
  <2>2. /\ \A q \in S : f[q] \in Int /\ e[q] = f[q] /\ g[q] = f[q]
        /\ e[d] = ForLine(x.lines, n) /\ e[d] \in Int
    BY <1>0, <1>1, <1>4, <2>1, TakenInt
  <2>3. TotalFor(j, n) = SumFunctionOnSet(f, S)
    BY DEF TotalFor
  <2>4. CASE j = x.order
    <3>1. DeliveredTo(j)' = S \cup {d}
      BY <1>1, <1>3, <1>4, <2>4 DEF DeliveredTo
    <3>2. TotalFor(j, n)' = SumFunctionOnSet(e, S \cup {d})
      BY <3>1 DEF TotalFor, ForLine, OfLine
    <3> HIDE DEF f, g, e, S
    <3>3. SumFunctionOnSet(f, S) \in Int
      BY <2>1, <2>2, SumInt
    <3>4. SumFunctionOnSet(e, S \cup {d}) = SumFunctionOnSet(f, S) + e[d]
      <4>1. IsFiniteSet(S) /\ d \notin S /\ e[d] \in Int /\ \A q \in S : f[q] \in Int /\ e[q] = f[q]
        BY <2>1, <2>2
      <4> QED
        BY <4>1, SumExtended
    <3> QED
      BY <2>2, <2>3, <2>4, <3>2, <3>3, <3>4
  <2>5. CASE j # x.order
    <3>1. DeliveredTo(j)' = S
      BY <1>1, <1>3, <1>4, <2>5 DEF DeliveredTo
    <3>2. TotalFor(j, n)' = SumFunctionOnSet(g, S)
      BY <3>1 DEF TotalFor, ForLine, OfLine
    <3> HIDE DEF f, g, e, S
    <3>3. SumFunctionOnSet(f, S) \in Int /\ SumFunctionOnSet(f, S) = SumFunctionOnSet(g, S)
      BY <2>1, <2>2, SumInt, SumCongruent
    <3> QED
      BY <2>3, <2>5, <3>2, <3>3
  <2> QED
    BY <2>4, <2>5
<1>8. ASSUME NEW j, NEW n
      PROVE  Takes(j, n)' <=> Takes(j, n) \/ (j = x.order /\ OfLine(x.lines, n) # {})
  <2>1. DeliveredTo(j)' = IF j = x.order THEN DeliveredTo(j) \cup {d} ELSE DeliveredTo(j)
    BY <1>1, <1>3, <1>4 DEF DeliveredTo
  <2>2. \A q \in DeliveredTo(j) : deliveries'[q] = deliveries[q]
    BY <1>4 DEF DeliveredTo
  <2>3. Takes(j, n)' <=> \E q \in DeliveredTo(j)' : OfLine(deliveries'[q].lines, n) # {}
    BY DEF Takes, OfLine
  <2> QED
    BY <1>1, <2>1, <2>2, <2>3 DEF Takes
<1> QED
  BY <1>3, <1>5, <1>6, <1>7, <1>8

\* A delivery is posted: order lines and stock follow.
LEMMA DeliveryPostedStep ==
    ASSUME NEW CONSTANT c, Sold(c), SellInv(c), NEW w \in Workers, NEW d \in c.deliveries,
           NEW x \in SellDelivery(c), NEW y \in SellOrder(c), DeliveryPosted(c, w, d, x, y)
    PROVE  SellInv(c)'
<1>1. txn[w].op = "lines" /\ x.order = txn[w].doc /\ x.lines = txn[w].done /\ y # Gone /\ x # Gone
  BY SellShapes DEF DeliveryPosted
<1>2. /\ txn[w] # Still /\ SellOpen(c, txn[w]) /\ x.order \in c.orders /\ x.lines \in Seq(TakeLine(c))
      /\ orders[x.order] # Gone /\ orders[x.order].status = 3
      /\ txn[w].missed \in SUBSET (c.places \ DOMAIN c.opening)
  BY <1>1, OpenSale DEF SellDelivery, SellOpen, TakeTask
<1>3. orders'[x.order] = y /\ \A j \in c.orders \ {x.order} : orders'[j] = orders[j]
  BY <1>2 DEF DeliveryPosted, SellInv, SellTypes
<1>4. deliveries'[d] = x /\ \A q \in c.deliveries \ {d} : deliveries'[q] = deliveries[q]
  BY DEF DeliveryPosted, SellInv, SellTypes
<1>11. /\ DOMAIN stock' = DOMAIN stock \cup Taking(x.lines)
       /\ \A p \in DOMAIN stock' : stock'[p] = IF p \in Taking(x.lines)
                                               THEN Holding(txn[w], p) - TakenFrom(x.lines, p) ELSE stock[p]
  BY DEF DeliveryPosted
<1>12. ASSUME NEW p \in Taking(x.lines)
       PROVE  /\ p \in c.places /\ stock'[p] = Holding(txn[w], p) - TakenFrom(x.lines, p)
              /\ Holding(txn[w], p) \in Int /\ TakenFrom(x.lines, p) \in Int
              /\ TakenFrom(x.lines, p) <= Holding(txn[w], p)
  <2>1. p \in DOMAIN stock \cup txn[w].missed /\ TakenFrom(x.lines, p) <= Holding(txn[w], p)
    BY <1>1, <1>2 DEF SellOpen
  <2>2. Holding(txn[w], p) \in Int
    BY <2>1 DEF Holding, SellInv, SellTypes
  <2>3. p \in c.places
    BY <1>2, <2>1 DEF SellInv, SellTypes
  <2> QED
    BY <1>2, <1>11, <2>1, <2>2, <2>3, TakenInt
<1>5. SellTypes(c)'
  <2>1. /\ DOMAIN c.opening \subseteq DOMAIN stock' /\ DOMAIN stock' \subseteq c.places
        /\ \A p \in DOMAIN stock' : stock'[p] \in Int
    BY <1>11, <1>12 DEF SellInv, SellTypes
  <2>2. stock' = [p \in DOMAIN stock' |-> stock'[p]]
    BY DEF DeliveryPosted
  <2>3. stock' \in [DOMAIN stock' -> Int]
    BY <2>1, <2>2
  <2>4. /\ orders' \in [c.orders -> SellOrder(c) \cup {Gone}]
        /\ deliveries' \in [c.deliveries -> SellDelivery(c) \cup {Gone}]
        /\ txn' \in [Workers -> SellWork(c) \cup {Still}] /\ invoices' = invoices /\ trail' = trail
    BY DEF DeliveryPosted, SellInv, SellTypes
  <2> QED
    BY <2>1, <2>3, <2>4 DEF SellInv, SellTypes
<1>6. SellLocks(c)'
  BY DeliveryPostedLocks
<1>7. SellApproved(c)'
  <2>1. ASSUME NEW q \in c.deliveries, deliveries'[q] # Gone
        PROVE  orders'[deliveries'[q].order] # Gone /\ orders'[deliveries'[q].order].status = 3
    <3>1. y.status = 3
      BY DEF DeliveryPosted
    <3>2. CASE q = d
      BY <1>1, <1>3, <1>4, <3>1, <3>2
    <3>3. CASE q # d
      <4>1. deliveries'[q] = deliveries[q] /\ deliveries[q].order \in c.orders
        BY <1>4, <2>1, <3>3 DEF SellInv, SellTypes, SellDelivery
      <4> QED
        BY <1>1, <1>3, <2>1, <3>1, <4>1 DEF SellInv, SellApproved
    <3> QED
      BY <3>2, <3>3
  <2> QED
    BY <2>1 DEF SellApproved
<1>8. SellPosted(c)'
  <2>1. ASSUME NEW n \in DOMAIN y.lines
        PROVE  LineTaken(y.lines[n], TotalFor(x.order, n)', Takes(x.order, n)')
    <3> DEFINE l == orders[x.order].lines[n]  k == y.lines[n]
    <3>1. /\ DOMAIN y.lines = DOMAIN orders[x.order].lines
          /\ k.quantity = l.quantity /\ k.delivered = l.delivered + ForLine(x.lines, n)
          /\ IF OfLine(x.lines, n) = {} THEN k.closed = l.closed ELSE k.closed = (k.delivered >= k.quantity)
      BY DEF DeliveryPosted
    <3>2. LineTaken(l, TotalFor(x.order, n), Takes(x.order, n)) /\ l.delivered = TotalFor(x.order, n)
      BY <1>2, <3>1 DEF SellInv, SellPosted, LineTaken
    <3>3. OfLine(x.lines, n) # {} => l.delivered + ForLine(x.lines, n) <= l.quantity
      BY <1>1, <1>2, <3>1 DEF SellOpen
    <3>4. TotalFor(x.order, n)' = TotalFor(x.order, n) + ForLine(x.lines, n) /\ TotalFor(x.order, n) \in Int
      BY DeliveryPostedSums
    <3>5. ForLine(x.lines, n) \in Int /\ (OfLine(x.lines, n) = {} => ForLine(x.lines, n) = 0)
      BY <1>2, TakenInt, MoveNothing DEF ForLine
    <3>6. k.quantity \in Int /\ k.delivered \in Int
      <4>1. PICK m \in 1..c.lines : y.lines \in [1..m -> SellLine]
        BY DEF SellOrder, ListsOf
      <4> QED
        BY <4>1 DEF SellLine
    <3>7. Takes(x.order, n)' <=> Takes(x.order, n) \/ OfLine(x.lines, n) # {}
      BY DeliveryPostedSums
    <3>11. SUFFICES LineTaken(k, TotalFor(x.order, n)', Takes(x.order, n)')
      OBVIOUS
    <3> HIDE DEF l, k
    <3>8. k.delivered = TotalFor(x.order, n)'
      BY <3>1, <3>2, <3>4
    <3>9. CASE OfLine(x.lines, n) = {}
      <4>1. k.delivered = l.delivered /\ k.closed = l.closed /\ k.quantity = l.quantity
        BY <3>1, <3>2, <3>4, <3>5, <3>9
      <4> QED
        BY <3>2, <3>7, <3>8, <3>9, <4>1 DEF LineTaken
    <3>10. CASE OfLine(x.lines, n) # {}
      <4>1. k.delivered <= k.quantity /\ k.closed = (k.delivered >= k.quantity)
        BY <3>1, <3>3, <3>10
      <4>2. CASE k.delivered >= k.quantity
        <5>1. k.delivered = k.quantity
          BY <3>6, <4>1, <4>2
        <5>2. k.closed
          BY <4>1, <4>2, Zenon
        <5> QED
          BY <3>7, <3>8, <3>10, <4>1, <5>1, <5>2 DEF LineTaken
      <4>3. CASE ~(k.delivered >= k.quantity)
        <5>1. k.delivered # k.quantity
          BY <3>6, <4>3
        <5>2. ~k.closed
          BY <4>1, <4>3, Zenon
        <5> QED
          BY <3>7, <3>8, <3>10, <4>1, <5>1, <5>2 DEF LineTaken
      <4> QED
        BY <4>2, <4>3
    <3> QED
      BY <3>9, <3>10
  <2>2. ASSUME NEW j \in c.orders, orders'[j] # Gone, NEW n \in DOMAIN orders'[j].lines
        PROVE  LineTaken(orders'[j].lines[n], TotalFor(j, n)', Takes(j, n)')
    <3>1. CASE j = x.order
      BY <1>3, <2>1, <2>2, <3>1
    <3>2. CASE j # x.order
      <4>1. TotalFor(j, n)' = TotalFor(j, n) /\ (Takes(j, n)' <=> Takes(j, n))
        BY <3>2, DeliveryPostedSums
      <4>2. LineTaken(orders'[j].lines[n], TotalFor(j, n), Takes(j, n))
        BY <1>3, <2>2, <3>2 DEF SellInv, SellPosted
      <4> QED
        BY <4>1, <4>2 DEF LineTaken
    <3> QED
      BY <3>1, <3>2
  <2> QED
    BY <2>2, DeliveryPostedSums DEF SellPosted, LineTaken
<1>9. SellStock(c)'
  <2>1. ASSUME NEW p \in DOMAIN stock'
        PROVE  stock'[p] >= 0 \/ (p \in DOMAIN c.opening /\ stock'[p] = c.opening[p])
    <3>1. CASE p \in Taking(x.lines)
      <4>1. /\ stock'[p] = Holding(txn[w], p) - TakenFrom(x.lines, p)
            /\ Holding(txn[w], p) \in Int /\ TakenFrom(x.lines, p) \in Int
            /\ TakenFrom(x.lines, p) <= Holding(txn[w], p)
        BY <1>12, <3>1
      <4> QED
        BY <4>1
    <3>2. CASE p \notin Taking(x.lines)
      <4>1. stock'[p] = stock[p] /\ p \in DOMAIN stock
        BY <1>11, <3>2
      <4> QED
        BY <4>1 DEF SellInv, SellStock
    <3> QED
      BY <3>1, <3>2
  <2>2. ASSUME NEW p \in DOMAIN c.opening PROVE stock'[p] = c.opening[p] - TotalTaken(p)'
    <3>1. /\ stock[p] = c.opening[p] - TotalTaken(p) /\ p \in DOMAIN stock /\ stock[p] \in Int
          /\ c.opening[p] \in Int
      BY DEF SellInv, SellStock, SellTypes, Sold, Sell!SalesAssumption
    <3>2. TotalTaken(p)' = TotalTaken(p) + TakenFrom(x.lines, p) /\ TotalTaken(p) \in Int
      BY DeliveryPostedSums
    <3>3. TakenFrom(x.lines, p) \in Int /\ (p \notin Taking(x.lines) => TakenFrom(x.lines, p) = 0)
      BY <1>2, TakenInt
    <3>4. Holding(txn[w], p) = stock[p]
      BY <1>2 DEF Holding
    <3>5. stock'[p] = stock[p] - TakenFrom(x.lines, p)
      BY <1>11, <3>1, <3>3, <3>4
    <3> QED
      BY <3>1, <3>2, <3>3, <3>5
  <2> QED
    BY <2>1, <2>2 DEF SellStock
<1>10. SellHistory(c)'
  <2>1. y.status = orders[x.order].status /\ trail' = trail
    BY <1>2 DEF DeliveryPosted
  <2>2. \A j \in c.orders : IF orders[j] = Gone THEN trail[j] = <<>> ELSE Tells(trail[j], [status |-> orders[j].status])
    BY DEF SellInv, SellHistory
  <2> QED
    BY <1>1, <1>2, <1>3, <2>1, <2>2 DEF SellHistory
<1> QED
  BY <1>5, <1>6, <1>7, <1>8, <1>9, <1>10 DEF SellInv


-----------------------------------------------------------------------------
(* The actions of Sell. *)

LEMMA SellMoved ==
    ASSUME NEW CONSTANT c
    PROVE  /\ \A f, S : Sell(c)!SumFunctionOnSet(f, S) = SumFunctionOnSet(f, S)
           /\ \A ls, n : Sell(c)!OnLine(ls, n) = ForLine(ls, n)
           /\ \A ls, p : Sell(c)!OutOf(ls, p) = TakenFrom(ls, p)
<1>1. \A f, S : Sell(c)!SumFunctionOnSet(f, S) = SumFunctionOnSet(f, S)
  BY DEF Sell!SumFunctionOnSet, SumFunctionOnSet, Sell!FoldFunctionOnSet, FoldFunctionOnSet,
         Sell!MapThenFoldSet, MapThenFoldSet
<1>2. \A ls, K : Sell(c)!Moved(ls, K) = Move(ls, K)
  BY <1>1 DEF Sell!Moved, Move
<1> QED
  BY <1>1, <1>2 DEF Sell!OnLine, Sell!OutOf, ForLine, TakenFrom, OfLine, FromPlace

\* Where the approval flow of sales orders moves a status.
LEMMA SellFlows ==
    ASSUME NEW CONSTANT c, NEW s \in 0..4 \cup {-1}
    PROVE  /\ Sell(c)!SubmitStatus(Sell(c)!SO_FLOW, s) = IF s = 0 THEN 1 ELSE 99
           /\ Sell(c)!ApproveStatus(Sell(c)!SO_FLOW, s) = IF s = 1 THEN 2 ELSE IF s = 2 THEN 3 ELSE 99
           /\ Sell(c)!Invalid = 99
<1> USE DEF Sell!SO_FLOW, Sell!Draft, Sell!Submitted, Sell!PendingSupervisor, Sell!Approved, Sell!Invalid
<1>1. (Sell(c)!SubmitStatus(Sell(c)!SO_FLOW, s) = IF s = 0 THEN 1 ELSE 99) /\ Sell(c)!Invalid = 99
  BY DEF Sell!SubmitStatus
<1>2. Sell(c)!ApproveStatus(Sell(c)!SO_FLOW, s) = IF s = 1 THEN 2 ELSE IF s = 2 THEN 3 ELSE 99
  <2> DEFINE ladder == << <<1, 2>>, <<2, 3>> >>
             hits == {k \in DOMAIN ladder : ladder[k][1] = s}
  <2>1. /\ DOMAIN ladder = {1, 2} /\ ladder[1][1] = 1 /\ ladder[1][2] = 2
        /\ ladder[2][1] = 2 /\ ladder[2][2] = 3
    OBVIOUS
  <2>2. Sell(c)!ApproveStatus(Sell(c)!SO_FLOW, s)
          = IF hits = {} THEN 99 ELSE ladder[CHOOSE k \in hits : \A j \in hits : k <= j][2]
    BY DEF Sell!ApproveStatus
  <2> HIDE DEF ladder
  <2>3. CASE s = 1
    <3>1. hits = {1}
      BY <2>1, <2>3
    <3> QED
      BY <2>1, <2>2, <2>3, <3>1
  <2>4. CASE s = 2
    <3>1. hits = {2}
      BY <2>1, <2>4
    <3> QED
      BY <2>1, <2>2, <2>4, <3>1
  <2>5. CASE s \notin {1, 2}
    <3>1. hits = {}
      BY <2>1, <2>5
    <3> QED
      BY <2>2, <2>5, <3>1
  <2> QED
    BY <2>3, <2>4, <2>5
<1> QED
  BY <1>1, <1>2

\* create_order has the effect of an order saved.
LEMMA SellCreateOrder ==
    ASSUME NEW CONSTANT c, Sold(c), SellInv(c), NEW o \in c.orders, Sell(c)!CreateOrder(o)
    PROVE  SellInv(c)'
<1>1. PICK ls \in Sell(c)!Lines(c.quantities) :
        orders' = [orders EXCEPT ![o] =
           [status |-> Sell(c)!Draft,
            lines |-> [n \in DOMAIN ls |-> [quantity |-> ls[n], delivered |-> 0, closed |-> FALSE]]]]
  BY DEF Sell!CreateOrder
<1> DEFINE zero == [n \in DOMAIN ls |-> [quantity |-> ls[n], delivered |-> 0, closed |-> FALSE]]
<1>2. PICK m \in 1..c.lines : ls \in [1..m -> c.quantities]
  BY <1>1 DEF Sell!Lines
<1>3. zero \in [1..m -> SellLine]
  <2>1. ASSUME NEW n \in 1..m PROVE ls[n] \in Int
    BY <1>2 DEF Sold, Sell!SalesAssumption
  <2> QED
    BY <1>2, <2>1 DEF SellLine
<1>4. PICK x \in SellOrder(c) : x = [status |-> 0, lines |-> zero]
  <2>1. zero \in ListsOf(c.lines, SellLine) /\ 0 \in 0..4 \cup {-1}
    BY <1>3 DEF ListsOf
  <2> HIDE DEF zero
  <2>2. [status |-> 0, lines |-> zero] \in SellOrder(c)
    BY <2>1 DEF SellOrder
  <2> QED
    BY <2>2
<1>5. PICK e \in Entry : e = [action |-> "created", before |-> Nothing, after |-> [status |-> 0]]
  <2>1. [status |-> 0] \in StatusView
    BY DEF StatusView
  <2>2. [action |-> "created", before |-> Nothing, after |-> [status |-> 0]] \in Entry
    BY <2>1 DEF Entry
  <2> QED
    BY <2>2
<1>6. OrderSaved(c, o, x, e)
  <2>1. orders[o] = Gone /\ orders' = [orders EXCEPT ![o] = x]
    BY <1>1, <1>4, SellShapes DEF Sell!CreateOrder, Sell!Draft
  <2>2. /\ trail' = [trail EXCEPT ![o] = Append(@, e)]
        /\ UNCHANGED <<deliveries, invoices, stock, txn>>
    BY <1>5 DEF Sell!CreateOrder, Sell!RecordCreate, Sell!Draft, Sell!Nothing, Nothing
  <2>3. \A n \in DOMAIN x.lines : x.lines[n].delivered = 0 /\ ~x.lines[n].closed
    BY <1>4
  <2>4. txn \in [Workers -> SellWork(c) \cup {Still}]
    BY DEF SellInv, SellTypes
  <2>5. \A v \in Workers : txn[v] # Still /\ txn[v].op # "invoice" => txn[v].doc # o
    BY <2>1 DEF SellInv, SellLocks, SellOpen
  <2> HIDE DEF zero
  <2> QED
    BY <1>4, <1>5, <2>1, <2>2, <2>3, <2>4, <2>5 DEF OrderSaved
<1> QED
  BY <1>6, OrderSavedStep

\* The statements that take a row lock have the effect of a lock taken.
LEMMA SellLock ==
    ASSUME NEW CONSTANT c, Sold(c), SellInv(c), NEW w \in Workers, NEW o \in c.orders,
           NEW op \in {"submit", "approve", "deliver"}, Sell(c)!Lock(w, op, o)
    PROVE  SellInv(c)'
<1>1. orders[o] # Gone /\ orders[o] \in SellOrder(c)
  BY SellShapes DEF Sell!Lock, SellInv, SellTypes
<1>2. PICK t \in SellWork(c) : t = [op |-> op, doc |-> o, before |-> [status |-> orders[o].status]]
  BY <1>1 DEF SellOrder, SellWork, SellTask
<1>3. txn' = [txn EXCEPT ![w] = t] /\ UNCHANGED <<orders, deliveries, invoices, stock, trail>>
  BY <1>2 DEF Sell!Lock, Sell!Become, Sell!Snapshot
<1>4. SellOpen(c, t)
  BY <1>1, <1>2 DEF SellOpen
<1>5. \A v \in Workers \ {w} : Apart(txn[v], t) /\ Apart(t, txn[v])
  <2>1. \A v \in Workers : txn[v] # Still => txn[v].doc # o
    <3>1. \A v \in Workers : txn[v] # Still => txn[v].op # "idle"
      BY DEF SellInv, SellTypes, SellWork, SellTask, TakeTask, BillTask
    <3> QED
      BY <3>1 DEF Sell!Lock, Sell!Free
  <2> QED
    BY <1>2, <2>1 DEF Apart
<1> QED
  BY <1>3, <1>4, <1>5, SellWorkStep DEF SellInv, SellTypes

\* submit, approve and reject have the effect of an order saved.
LEMMA SellTransition ==
    ASSUME NEW CONSTANT c, Sold(c), SellInv(c), NEW w \in Workers,
           Sell(c)!SubmitOrder(w) \/ Sell(c)!ApproveOrder(w)
    PROVE  SellInv(c)'
<1>1. txn[w].op \in {"submit", "approve", "deliver", "lines"} /\ txn[w].op # "invoice"
  BY DEF Sell!SubmitOrder, Sell!ApproveOrder, Sell!Transition
<1>2. PICK o \in c.orders : txn[w].doc = o
  BY <1>1, OpenSale
<1>3. /\ txn[w] # Still /\ orders[o] \in SellOrder(c) /\ orders[o] # Gone /\ orders[o].status \in 0..4 \cup {-1}
      /\ txn[w].before = [status |-> orders[o].status]
  BY <1>1, <1>2, OpenSale
<1>4. ASSUME NEW op, NEW s, Sell(c)!Transition(w, op, s), s \in 1..4, orders[o].status # 3
      PROVE  SellInv(c)'
  <2>1. PICK x \in SellOrder(c) : x = [orders[o] EXCEPT !.status = s]
    <3>1. s \in 0..4 \cup {-1}
      BY <1>4
    <3>2. [orders[o] EXCEPT !.status = s] \in SellOrder(c)
      BY <1>3, <3>1 DEF SellOrder
    <3> QED
      BY <3>2
  <2>2. x.status = s /\ x.lines = orders[o].lines
    BY <1>3, <2>1 DEF SellOrder
  <2>3. PICK e \in Entry : e = [action |-> "updated", before |-> txn[w].before, after |-> [status |-> s]]
    <3>1. [status |-> s] \in StatusView /\ txn[w].before \in StatusView
      BY <1>3, <1>4 DEF StatusView
    <3>2. [action |-> "updated", before |-> txn[w].before, after |-> [status |-> s]] \in Entry
      BY <3>1 DEF Entry
    <3> QED
      BY <3>2
  <2>4. /\ orders' = [orders EXCEPT ![o] = x]
        /\ trail' = [trail EXCEPT ![o] = Append(@, e)]
        /\ txn' = [txn EXCEPT ![w] = Still] /\ UNCHANGED <<deliveries, invoices, stock>>
    BY <1>2, <1>4, <2>1, <2>3, SellShapes DEF Sell!Transition, Sell!RecordUpdated, Sell!End, Sell!Become
  <2>5. txn' \in [Workers -> SellWork(c) \cup {Still}]
    BY <2>4 DEF SellInv, SellTypes
  <2>6. \A v \in Workers : txn'[v] # Still => txn'[v] = txn[v] /\ (txn[v].op # "invoice" => txn[v].doc # o)
    <3>1. \A v \in Workers : txn'[v] # Still => v # w /\ txn'[v] = txn[v]
      BY <2>4 DEF SellInv, SellTypes
    <3> QED
      BY <1>1, <1>2, <1>3, <3>1 DEF SellInv, SellLocks, Apart
  <2>7. OrderSaved(c, o, x, e)
    BY <1>3, <1>4, <2>2, <2>3, <2>4, <2>5, <2>6 DEF OrderSaved
  <2> QED
    BY <2>7, OrderSavedStep
<1>5. txn[w].before.status = orders[o].status
  BY <1>3
<1>6. CASE Sell(c)!SubmitOrder(w)
  <2> DEFINE s == IF orders[o].status = 0 THEN 1 ELSE 99
  <2>1. Sell(c)!SubmitStatus(Sell(c)!SO_FLOW, txn[w].before.status) = s
    BY <1>3, <1>5, SellFlows
  <2>2. Sell(c)!Transition(w, "submit", s) /\ s # 99
    BY <1>6, <2>1, SellFlows DEF Sell!SubmitOrder, Sell!Transition
  <2>3. orders[o].status # 3 /\ s \in 1..4
    BY <2>2
  <2> QED
    BY <1>4, <2>2, <2>3
<1>7. CASE Sell(c)!ApproveOrder(w)
  <2> DEFINE s == IF orders[o].status = 1 THEN 2 ELSE IF orders[o].status = 2 THEN 3 ELSE 99
  <2>1. Sell(c)!ApproveStatus(Sell(c)!SO_FLOW, txn[w].before.status) = s
    BY <1>3, <1>5, SellFlows
  <2>2. Sell(c)!Transition(w, "approve", s) /\ s # 99
    BY <1>7, <2>1, SellFlows DEF Sell!ApproveOrder, Sell!Transition
  <2>3. orders[o].status # 3 /\ s \in 1..4
    BY <2>2
  <2> QED
    BY <1>4, <2>2, <2>3
<1> QED
  BY <1>6, <1>7

\* A delivery starts with nothing taken.
LEMMA SellStartDelivery ==
    ASSUME NEW CONSTANT c, Sold(c), SellInv(c), NEW w \in Workers, Sell(c)!StartDelivery(w)
    PROVE  SellInv(c)'
<1>1. txn[w].op = "deliver" /\ txn[w].before.status = 3
  BY DEF Sell!StartDelivery, Sell!Approved
<1>2. /\ txn[w] # Still /\ txn[w].doc \in c.orders /\ orders[txn[w].doc] \in SellOrder(c)
      /\ orders[txn[w].doc] # Gone /\ orders[txn[w].doc].status = 3
      /\ txn[w] \in SellTask(c)
  BY <1>1, OpenSale, SellShapes DEF SellOpen
<1>3. PICK ls \in {<<>>} \cup Sell(c)!Lines([line : DOMAIN orders[txn[w].doc].lines, place : c.places,
                                            quantity : c.quantities]) :
         txn' = [txn EXCEPT ![w] = [op |-> "lines", doc |-> txn[w].doc, before |-> txn[w].before,
                                    todo |-> ls, done |-> <<>>, missed |-> {}]]
  BY DEF Sell!StartDelivery, Sell!Become
<1>4. DOMAIN orders[txn[w].doc].lines \in SUBSET (1..c.lines) /\ c.lines \in Nat
  <2>1. c.lines \in Nat /\ orders[txn[w].doc].lines \in ListsOf(c.lines, SellLine)
    BY <1>2 DEF Sold, Sell!SalesAssumption, SellOrder
  <2> QED
    BY <2>1, ListShape
<1>5. /\ ls \in Seq(TakeLine(c)) /\ <<>> \in Seq(TakeLine(c))
      /\ \A k \in DOMAIN ls : ls[k].line \in DOMAIN orders[txn[w].doc].lines
  <2>1. CASE ls = <<>>
    BY <2>1
  <2>2. CASE ls # <<>>
    <3>1. PICK m \in 1..c.lines :
            ls \in [1..m -> [line : DOMAIN orders[txn[w].doc].lines, place : c.places, quantity : c.quantities]]
      BY <1>3, <2>2 DEF Sell!Lines
    <3>2. ls \in [1..m -> TakeLine(c)] /\ m \in Nat
      BY <1>4, <3>1 DEF TakeLine
    <3>3. ls \in ListsOf(c.lines, TakeLine(c))
      BY <3>2 DEF ListsOf
    <3>4. ls \in Seq(TakeLine(c))
      BY <1>4, <3>3, ListShape
    <3> QED
      BY <3>1, <3>4
  <2> QED
    BY <2>1, <2>2
<1>6. PICK t \in SellWork(c) : t = [op |-> "lines", doc |-> txn[w].doc, before |-> txn[w].before,
                                     todo |-> ls, done |-> <<>>, missed |-> {}]
  <2>1. [op |-> "lines", doc |-> txn[w].doc, before |-> txn[w].before, todo |-> ls, done |-> <<>>,
         missed |-> {}] \in TakeTask(c)
    BY <1>2, <1>5 DEF SellTask, TakeTask
  <2> QED
    BY <2>1 DEF SellWork
<1>7. /\ t.op = "lines" /\ t.doc = txn[w].doc /\ t.before = txn[w].before /\ t.todo = ls
      /\ t.done = <<>> /\ DOMAIN t.done = {}
  BY <1>6
<1>8. SellOpen(c, t)
  <2>1. (\A n : OfLine(t.done, n) = {}) /\ Taking(t.done) = {}
    BY <1>7 DEF OfLine, Taking
  <2> QED
    BY <1>1, <1>2, <1>5, <1>7, <2>1 DEF SellOpen
<1>9. \A v \in Workers \ {w} : Apart(txn[v], t) /\ Apart(t, txn[v])
  BY <1>1, <1>2, <1>7 DEF SellInv, SellLocks, Apart
<1> QED
  BY <1>3, <1>6, <1>8, <1>9, SellWorkStep DEF Sell!StartDelivery, SellInv, SellTypes

\* The next line is for a place without a row; the delivery notes it.
LEMMA SellMissRow ==
    ASSUME NEW CONSTANT c, Sold(c), SellInv(c), NEW w \in Workers, Sell(c)!MissRow(w)
    PROVE  SellInv(c)'
<1>1. txn[w].op = "lines" /\ txn[w].todo # <<>>
  BY DEF Sell!MissRow
<1>2. txn[w] # Still /\ txn[w] \in TakeTask(c) /\ SellOpen(c, txn[w])
  BY <1>1, OpenSale
<1>3. PICK l \in TakeLine(c) : l = Head(txn[w].todo)
  BY <1>1, <1>2 DEF TakeTask
<1>4. l.place \in c.places \ DOMAIN c.opening /\ l.place \notin DOMAIN stock \cup txn[w].missed
  BY <1>3 DEF Sell!MissRow, TakeLine, SellInv, SellTypes
<1>5. PICK t \in SellWork(c) : t = [txn[w] EXCEPT !.missed = txn[w].missed \cup {l.place}]
  <2>1. [txn[w] EXCEPT !.missed = txn[w].missed \cup {l.place}] \in TakeTask(c)
    BY <1>2, <1>4 DEF TakeTask
  <2> QED
    BY <2>1 DEF SellWork
<1>6. /\ t.op = txn[w].op /\ t.doc = txn[w].doc /\ t.before = txn[w].before
      /\ t.todo = txn[w].todo /\ t.done = txn[w].done /\ t.missed = txn[w].missed \cup {l.place}
  BY <1>2, <1>5 DEF TakeTask
<1>7. txn' = [txn EXCEPT ![w] = t] /\ UNCHANGED <<orders, deliveries, invoices, stock, trail>>
  BY <1>3, <1>5 DEF Sell!MissRow, Sell!Become
<1>8. SellOpen(c, t)
  <2>1. ASSUME NEW p \in Taking(t.done)
        PROVE  p \in DOMAIN stock \cup t.missed /\ TakenFrom(t.done, p) <= Holding(t, p)
    <3>1. p \in DOMAIN stock \cup txn[w].missed /\ TakenFrom(t.done, p) <= Holding(txn[w], p)
      BY <1>1, <1>2, <1>6 DEF SellOpen
    <3>2. Holding(t, p) = Holding(txn[w], p)
      BY <1>4, <1>6, <3>1 DEF Holding
    <3> QED
      BY <1>6, <3>1, <3>2
  <2> QED
    BY <1>2, <1>6, <2>1 DEF SellOpen
<1>9. ASSUME NEW v \in Workers \ {w} PROVE Apart(txn[v], t) /\ Apart(t, txn[v])
  <2>1. Apart(txn[v], txn[w]) /\ Apart(txn[w], txn[v]) /\ txn[w] # Still
    BY <1>2 DEF SellInv, SellLocks
  <2>2. t.op = txn[w].op /\ t.doc = txn[w].doc /\ t.done = txn[w].done
    BY <1>6
  <2> QED
    BY <2>1, <2>2 DEF Apart
<1> QED
  BY <1>7, <1>8, <1>9, SellWorkStep DEF SellInv, SellTypes


\* A delivery takes a line that its order still has open and the stock covers.
LEMMA SellDeliverLine ==
    ASSUME NEW CONSTANT c, Sold(c), SellInv(c), NEW w \in Workers, Sell(c)!DeliverLine(w)
    PROVE  SellInv(c)'
<1>1. txn[w].op = "lines" /\ txn[w].todo # <<>>
  BY DEF Sell!DeliverLine
<1>2. txn[w] # Still /\ txn[w] \in TakeTask(c) /\ SellOpen(c, txn[w]) /\ orders[txn[w].doc] \in SellOrder(c)
  BY <1>1, OpenSale
<1>3. PICK l : l = Head(txn[w].todo)
  OBVIOUS
<1>4. /\ l \in TakeLine(c) /\ Tail(txn[w].todo) \in Seq(TakeLine(c))
      /\ txn[w].done \in Seq(TakeLine(c)) /\ Append(txn[w].done, l) \in Seq(TakeLine(c))
      /\ l.line \in DOMAIN orders[txn[w].doc].lines
      /\ \A k \in DOMAIN Tail(txn[w].todo) : Tail(txn[w].todo)[k].line \in DOMAIN orders[txn[w].doc].lines
      /\ \A k \in DOMAIN Append(txn[w].done, l) :
           Append(txn[w].done, l)[k].line \in DOMAIN orders[txn[w].doc].lines
  <2>1. txn[w].todo \in Seq(TakeLine(c)) /\ txn[w].done \in Seq(TakeLine(c))
    BY <1>2 DEF TakeTask
  <2>2. \A k \in 1..Len(txn[w].todo) : txn[w].todo[k].line \in DOMAIN orders[txn[w].doc].lines
    BY <1>1, <1>2, <2>1 DEF SellOpen
  <2>3. \A k \in 1..Len(txn[w].done) : txn[w].done[k].line \in DOMAIN orders[txn[w].doc].lines
    BY <1>1, <1>2, <2>1 DEF SellOpen
  <2>4. /\ l = txn[w].todo[1] /\ 1 \in 1..Len(txn[w].todo) /\ l \in TakeLine(c)
        /\ Tail(txn[w].todo) \in Seq(TakeLine(c))
        /\ DOMAIN Tail(txn[w].todo) = 1..(Len(txn[w].todo) - 1) /\ Len(txn[w].todo) \in Nat
        /\ \A k \in 1..(Len(txn[w].todo) - 1) : Tail(txn[w].todo)[k] = txn[w].todo[k + 1]
    BY <1>1, <1>3, <2>1
  <2>5. /\ Append(txn[w].done, l) \in Seq(TakeLine(c)) /\ DOMAIN Append(txn[w].done, l) = 1..(Len(txn[w].done) + 1)
        /\ \A k \in 1..Len(txn[w].done) : Append(txn[w].done, l)[k] = txn[w].done[k]
        /\ Append(txn[w].done, l)[Len(txn[w].done) + 1] = l /\ Len(txn[w].done) \in Nat
    BY <2>1, <2>4
  <2>6. l.line \in DOMAIN orders[txn[w].doc].lines
    BY <2>2, <2>4
  <2>7. \A k \in 1..(Len(txn[w].todo) - 1) : k + 1 \in 1..Len(txn[w].todo)
    BY <2>4
  <2>8. \A k \in DOMAIN Append(txn[w].done, l) : k \in 1..Len(txn[w].done) \/ k = Len(txn[w].done) + 1
    BY <2>5
  <2> QED
    BY <2>1, <2>2, <2>3, <2>4, <2>5, <2>6, <2>7, <2>8
<1>5. PICK t \in SellWork(c) : t = [txn[w] EXCEPT !.todo = Tail(txn[w].todo), !.done = Append(txn[w].done, l)]
  <2>1. [txn[w] EXCEPT !.todo = Tail(txn[w].todo), !.done = Append(txn[w].done, l)] \in TakeTask(c)
    BY <1>2, <1>4 DEF TakeTask
  <2> QED
    BY <2>1 DEF SellWork
<1>6. /\ t.op = "lines" /\ t.doc = txn[w].doc /\ t.before = txn[w].before
      /\ t.todo = Tail(txn[w].todo) /\ t.done = Append(txn[w].done, l) /\ t.missed = txn[w].missed
  BY <1>1, <1>2, <1>5 DEF TakeTask
<1>7. txn' = [txn EXCEPT ![w] = t] /\ UNCHANGED <<orders, deliveries, invoices, stock, trail>>
  BY <1>3, <1>5 DEF Sell!DeliverLine, Sell!Become
<1>8. /\ orders[t.doc].lines[l.line].delivered + ForLine(txn[w].done, l.line) + l.quantity
           <= orders[t.doc].lines[l.line].quantity
      /\ l.place \in DOMAIN stock \cup txn[w].missed
      /\ Holding(txn[w], l.place) - TakenFrom(txn[w].done, l.place) >= l.quantity
      /\ \A v \in Workers \ {w} : ~ Sell(c)!Holds(v, l.place)
  <2>1. /\ Sell(c)!Within(w, l) /\ Sell(c)!Covered(w, l) /\ \A v \in Workers \ {w} : ~ Sell(c)!Holds(v, l.place)
        /\ l.place \in DOMAIN stock \cup txn[w].missed
    BY <1>3 DEF Sell!DeliverLine
  <2>2. /\ Sell(c)!OnLine(txn[w].done, l.line) = ForLine(txn[w].done, l.line)
        /\ Sell(c)!OutOf(txn[w].done, l.place) = TakenFrom(txn[w].done, l.place)
    BY SellMoved
  <2>3. orders[t.doc].lines[l.line].delivered + ForLine(txn[w].done, l.line) + l.quantity
           <= orders[t.doc].lines[l.line].quantity
    BY <1>6, <2>1, <2>2 DEF Sell!Within
  <2>4. Holding(txn[w], l.place) - TakenFrom(txn[w].done, l.place) >= l.quantity
    BY <2>1, <2>2 DEF Sell!Covered, Sell!Base, Holding
  <2> QED
    BY <2>1, <2>3, <2>4
<1>9. /\ \A n : /\ ForLine(t.done, n) = ForLine(txn[w].done, n) + IF l.line = n THEN l.quantity ELSE 0
                /\ l.line # n => OfLine(t.done, n) = OfLine(txn[w].done, n)
      /\ \A p : TakenFrom(t.done, p) = TakenFrom(txn[w].done, p) + IF l.place = p THEN l.quantity ELSE 0
      /\ Taking(t.done) = Taking(txn[w].done) \cup {l.place}
      /\ l.quantity \in Int
      /\ \A n : ForLine(txn[w].done, n) \in Int
      /\ \A p : TakenFrom(txn[w].done, p) \in Int
  BY <1>4, <1>6, TakeMore, TakenInt
<1>10. SellOpen(c, t)
  <2>1. ASSUME NEW n \in DOMAIN orders[t.doc].lines, OfLine(t.done, n) # {}
        PROVE  orders[t.doc].lines[n].delivered + ForLine(t.done, n) <= orders[t.doc].lines[n].quantity
    <3>1. orders[t.doc].lines[n].delivered \in Int /\ ForLine(txn[w].done, n) \in Int
      <4>1. PICK m \in 1..c.lines : orders[t.doc].lines \in [1..m -> SellLine]
        BY <1>2, <1>6 DEF SellOrder, ListsOf
      <4> QED
        BY <1>9, <4>1 DEF SellLine
    <3>2. CASE l.line = n
      <4>1. ForLine(t.done, n) = ForLine(txn[w].done, n) + l.quantity
        BY <1>9, <3>2
      <4> QED
        BY <1>8, <1>9, <3>1, <3>2, <4>1
    <3>3. CASE l.line # n
      <4>1. ForLine(t.done, n) = ForLine(txn[w].done, n)
        BY <1>9, <3>1, <3>3
      <4>2. OfLine(txn[w].done, n) # {}
        BY <1>9, <2>1, <3>3
      <4> QED
        BY <1>1, <1>2, <1>6, <4>1, <4>2 DEF SellOpen
    <3> QED
      BY <3>2, <3>3
  <2>2. ASSUME NEW p \in Taking(t.done)
        PROVE  p \in DOMAIN stock \cup t.missed /\ TakenFrom(t.done, p) <= Holding(t, p)
    <3>1. Holding(t, p) = Holding(txn[w], p) /\ t.missed = txn[w].missed
      BY <1>6 DEF Holding
    <3>2. CASE p = l.place
      <4>1. TakenFrom(t.done, p) = TakenFrom(txn[w].done, p) + l.quantity
        BY <1>9, <3>2
      <4>2. Holding(txn[w], p) \in Int
        BY <1>8, <3>2 DEF Holding, SellInv, SellTypes
      <4>3. TakenFrom(txn[w].done, p) \in Int /\ l.quantity \in Int
        BY <1>9
      <4>4. Holding(txn[w], p) - TakenFrom(txn[w].done, p) >= l.quantity
        BY <1>8, <3>2
      <4>5. TakenFrom(t.done, p) <= Holding(txn[w], p)
        BY <4>1, <4>2, <4>3, <4>4
      <4> QED
        BY <1>8, <3>1, <3>2, <4>5
    <3>3. CASE p # l.place
      <4>1. TakenFrom(t.done, p) = TakenFrom(txn[w].done, p)
        BY <1>9, <3>3
      <4>2. p \in Taking(txn[w].done)
        BY <1>9, <3>3
      <4> QED
        BY <1>1, <1>2, <3>1, <4>1, <4>2 DEF SellOpen
    <3> QED
      BY <3>2, <3>3
  <2> QED
    BY <1>1, <1>2, <1>4, <1>6, <2>1, <2>2 DEF SellOpen
<1>11. ASSUME NEW v \in Workers \ {w}, txn[v] # Still PROVE Apart(txn[v], t) /\ Apart(t, txn[v])
  <2>1. Apart(txn[v], txn[w]) /\ Apart(txn[w], txn[v])
    BY DEF SellInv, SellLocks
  <2>2. \A k \in DOMAIN t.done : (k \in DOMAIN txn[w].done /\ t.done[k] = txn[w].done[k]) \/ t.done[k] = l
    BY <1>4, <1>6
  <2>3. txn[v].op = "lines" => \A k \in DOMAIN txn[v].done : txn[v].done[k].place # l.place
    BY <1>8 DEF Sell!Holds, Sell!PlacesOf
  <2> QED
    BY <1>1, <1>2, <1>6, <2>1, <2>2, <2>3 DEF Apart
<1>12. \A v \in Workers \ {w} : Apart(txn[v], t) /\ Apart(t, txn[v])
  BY <1>11 DEF Apart
<1> QED
  BY <1>7, <1>10, <1>12, SellWorkStep DEF SellInv, SellTypes

\* A delivery commits with the effect of a delivery posted.
LEMMA SellCommitDelivery ==
    ASSUME NEW CONSTANT c, Sold(c), SellInv(c), NEW w \in Workers, NEW d \in c.deliveries,
           Sell(c)!CommitDelivery(w, d)
    PROVE  SellInv(c)'
<1>1. txn[w].op = "lines" /\ deliveries[d] = Gone
  BY SellShapes DEF Sell!CommitDelivery
<1>2. /\ txn[w] \in TakeTask(c) /\ SellOpen(c, txn[w]) /\ orders[txn[w].doc] \in SellOrder(c)
      /\ txn[w].doc \in c.orders /\ txn[w].done \in Seq(TakeLine(c))
      /\ orders[txn[w].doc].status = 3
  BY <1>1, OpenSale DEF TakeTask, SellOpen
<1>3. PICK o \in c.orders, ls \in Seq(TakeLine(c)) : o = txn[w].doc /\ ls = txn[w].done
  BY <1>2
<1>4. /\ deliveries' = [deliveries EXCEPT ![d] = [order |-> o, lines |-> ls]]
      /\ orders' = [orders EXCEPT ![o].lines = [n \in DOMAIN @ |-> Sell(c)!AfterDelivery(@[n], n, ls)]]
      /\ stock' = [p \in DOMAIN stock \cup Sell(c)!PlacesOf(ls) |->
                      IF p \in Sell(c)!PlacesOf(ls) THEN Sell(c)!Base(w, p) - Sell(c)!OutOf(ls, p) ELSE stock[p]]
      /\ txn' = [txn EXCEPT ![w] = Still] /\ UNCHANGED <<invoices, trail>>
  BY <1>3, SellShapes DEF Sell!CommitDelivery, Sell!End, Sell!Become
<1>5. PICK x \in SellDelivery(c) : x = [order |-> o, lines |-> ls]
  BY DEF SellDelivery
<1> DEFINE ks == [n \in DOMAIN orders[o].lines |-> Sell(c)!AfterDelivery(orders[o].lines[n], n, ls)]
<1>6. PICK m \in 1..c.lines : orders[o].lines \in [1..m -> SellLine]
  BY <1>2, <1>3 DEF SellOrder, ListsOf
<1>7. ASSUME NEW n \in DOMAIN orders[o].lines
      PROVE  /\ Sell(c)!AfterDelivery(orders[o].lines[n], n, ls) \in SellLine
             /\ LET l == orders[o].lines[n]  k == Sell(c)!AfterDelivery(l, n, ls) IN
                /\ k.quantity = l.quantity /\ k.delivered = l.delivered + ForLine(ls, n)
                /\ IF OfLine(ls, n) = {} THEN k.closed = l.closed ELSE k.closed = (k.delivered >= k.quantity)
  <2> DEFINE l == orders[o].lines[n]  k == Sell(c)!AfterDelivery(l, n, ls)  got == l.delivered + ForLine(ls, n)
  <2>1. l \in SellLine /\ l.delivered \in Int /\ l.quantity \in Int /\ ForLine(ls, n) \in Int
    BY <1>6, <1>7, TakenInt DEF SellLine
  <2>2. Sell(c)!OnLine(ls, n) = ForLine(ls, n)
    BY SellMoved
  <2>3. CASE OfLine(ls, n) = {}
    <3>1. k = l
      BY <2>3 DEF Sell!AfterDelivery, OfLine
    <3>2. ForLine(ls, n) = 0
      BY <2>3, MoveNothing DEF ForLine
    <3> QED
      BY <2>1, <2>3, <3>1, <3>2
  <2>4. CASE OfLine(ls, n) # {}
    <3>1. k = [l EXCEPT !.delivered = got, !.closed = (got >= l.quantity)]
      BY <2>2, <2>4 DEF Sell!AfterDelivery, OfLine
    <3>2. got \in Int
      BY <2>1
    <3>3. /\ k \in SellLine /\ k.delivered = got /\ k.closed = (got >= l.quantity) /\ k.quantity = l.quantity
      <4> HIDE DEF l, k, got
      <4>1. PICK g \in Int : g = got
        BY <3>2
      <4>5. (got >= l.quantity) \in BOOLEAN
        OBVIOUS
      <4>2. PICK u \in BOOLEAN : u = (got >= l.quantity)
        BY <4>5
      <4>3. k = [l EXCEPT !.delivered = g, !.closed = u]
        BY <3>1, <4>1, <4>2
      <4>4. k \in SellLine /\ k.delivered = g /\ k.closed = u /\ k.quantity = l.quantity
        BY <2>1, <4>3 DEF SellLine
      <4> QED
        BY <4>1, <4>2, <4>4
    <3> QED
      BY <2>4, <3>3
  <2> QED
    BY <2>3, <2>4
<1>8. ks \in ListsOf(c.lines, SellLine)
  <2>1. ks \in [1..m -> SellLine]
    BY <1>6, <1>7
  <2> QED
    BY <2>1 DEF ListsOf
<1>9. PICK y \in SellOrder(c) : y = [orders[o] EXCEPT !.lines = ks]
  <2> HIDE DEF ks
  <2> QED
    BY <1>2, <1>3, <1>8 DEF SellOrder
<1>10. y.status = 3 /\ y.lines = ks
  <2> HIDE DEF ks
  <2> QED
    BY <1>2, <1>3, <1>9 DEF SellOrder
<1>11. DeliveryPosted(c, w, d, x, y)
  <2>1. x.order = o /\ x.lines = ls
    BY <1>5
  <2>2. orders' = [orders EXCEPT ![o] = y] /\ deliveries' = [deliveries EXCEPT ![d] = x]
    BY <1>4, <1>5, <1>9
  <2>3. stock' = [p \in DOMAIN stock \cup Taking(ls) |->
                    IF p \in Taking(ls) THEN Holding(txn[w], p) - TakenFrom(ls, p) ELSE stock[p]]
    <3>1. Sell(c)!PlacesOf(ls) = Taking(ls) /\ \A p : Sell(c)!Base(w, p) = Holding(txn[w], p)
      BY DEF Sell!PlacesOf, Taking, Sell!Base, Holding
    <3> QED
      BY <1>4, <3>1, SellMoved
  <2>4. DOMAIN y.lines = DOMAIN orders[o].lines
    BY <1>10
  <2>5. \A n \in DOMAIN y.lines : y.lines[n] = Sell(c)!AfterDelivery(orders[o].lines[n], n, ls)
    BY <1>10
  <2> HIDE DEF ks
  <2>6. \A n \in DOMAIN y.lines :
         LET l == orders[o].lines[n]  k == y.lines[n] IN
         /\ k.quantity = l.quantity /\ k.delivered = l.delivered + ForLine(ls, n)
         /\ IF OfLine(ls, n) = {} THEN k.closed = l.closed ELSE k.closed = (k.delivered >= k.quantity)
    BY <1>7, <2>4, <2>5
  <2> QED
    BY <1>1, <1>3, <1>4, <1>10, <2>1, <2>2, <2>3, <2>4, <2>6 DEF DeliveryPosted
<1> QED
  BY <1>11, DeliveryPostedStep

\* Steps that only end or open a request, and invoices.
LEMMA SellAside ==
    ASSUME NEW CONSTANT c, Sold(c), SellInv(c), NEW w \in Workers,
           \/ Sell(c)!Rollback(w) \/ Sell(c)!RecordInvoice(w) \/ Sell(c)!LoseInvoice(w)
           \/ \E i \in c.invoices : Sell(c)!InsertInvoice(w, i)
    PROVE  SellInv(c)'
<1>0. \A v \in Workers : Apart(txn[v], Still) /\ Apart(Still, txn[v])
  BY DEF Apart
<1>1. CASE Sell(c)!Rollback(w) \/ Sell(c)!LoseInvoice(w)
  <2>1. txn' = [txn EXCEPT ![w] = Still] /\ UNCHANGED <<orders, deliveries, invoices, stock, trail>>
    BY <1>1, SellShapes DEF Sell!Rollback, Sell!LoseInvoice, Sell!End, Sell!Become
  <2> QED
    BY <1>0, <2>1, SellWorkStep DEF SellInv, SellTypes
<1>2. CASE Sell(c)!RecordInvoice(w)
  <2>1. /\ txn' = [txn EXCEPT ![w] = Still] /\ UNCHANGED <<orders, deliveries, invoices, stock>>
        /\ DOMAIN trail' = DOMAIN trail /\ \A o \in DOMAIN trail \ {txn[w].doc} : trail'[o] = trail[o]
    BY <1>2, SellShapes DEF Sell!RecordInvoice, Sell!End, Sell!Become
  <2>2. txn[w].doc \notin c.orders
    <3>1. txn[w] \in BillTask(c)
      <4>1. txn[w] \in SellTask(c) \cup TakeTask(c) \cup BillTask(c) \cup {Still}
        BY DEF SellInv, SellTypes, SellWork
      <4>2. (\A x \in SellTask(c) \cup TakeTask(c) : x.op # "invoice") /\ Still.op # "invoice"
        BY DEF SellTask, TakeTask, Still
      <4> QED
        BY <1>2, <4>1, <4>2 DEF Sell!RecordInvoice
    <3> QED
      BY <3>1 DEF BillTask, Sold, Sell!SalesAssumption
  <2>3. \A o \in c.orders : trail'[o] = trail[o]
    BY <2>1, <2>2 DEF SellInv, SellTypes
  <2> QED
    BY <1>0, <2>1, <2>3, SellWorkStep DEF SellInv, SellTypes
<1>3. ASSUME NEW i \in c.invoices, Sell(c)!InsertInvoice(w, i) PROVE SellInv(c)'
  <2>1. PICK o \in Sell(c)!Rows(orders) : invoices' = [invoices EXCEPT ![i] = [order |-> o, status |-> Sell(c)!Draft]]
    BY <1>3 DEF Sell!InsertInvoice
  <2>2. o \in c.orders
    BY DEF Sell!Rows, SellInv, SellTypes
  <2>3. \A k \in DOMAIN invoices' : invoices'[k] # Gone => invoices'[k].order \in c.orders
    BY <2>1, <2>2 DEF SellInv, SellTypes
  <2>4. PICK t \in SellWork(c) : t = [op |-> "invoice", doc |-> i]
    BY DEF SellWork, BillTask
  <2>5. txn' = [txn EXCEPT ![w] = t] /\ UNCHANGED <<orders, deliveries, stock, trail>>
    BY <1>3, <2>4 DEF Sell!InsertInvoice, Sell!Become
  <2>6. SellOpen(c, t) /\ \A v \in Workers : Apart(txn[v], t) /\ Apart(t, txn[v])
    BY <2>4 DEF SellOpen, Apart
  <2> QED
    BY <2>3, <2>5, <2>6, SellWorkStep
<1> QED
  BY <1>1, <1>2, <1>3

\* Every step of Sales keeps the invariant.
LEMMA SellStep ==
    ASSUME NEW CONSTANT c, Sold(c), SellInv(c),
           Sell(c)!Next \/ UNCHANGED <<orders, deliveries, invoices, stock, trail, txn>>
    PROVE  SellInv(c)'
<1>1. CASE UNCHANGED <<orders, deliveries, invoices, stock, trail, txn>>
  <2>1. SellTypes(c)' /\ SellApproved(c)' /\ SellHistory(c)'
    BY <1>1 DEF SellInv, SellTypes, SellApproved, SellHistory
  <2>2. SellPosted(c)' /\ SellStock(c)'
    BY <1>1, DeliveriesKept DEF SellInv, SellPosted, LineTaken, SellStock
  <2>3. ASSUME NEW w \in Workers, txn[w] # Still PROVE SellOpen(c, txn[w])'
    <3>1. SellOpen(c, txn[w])
      BY <2>3 DEF SellInv, SellLocks
    <3> QED
      BY <1>1, <3>1 DEF SellOpen, Holding
  <2>4. ASSUME NEW v \in Workers, NEW w \in Workers, v # w PROVE Apart(txn[v], txn[w])'
    <3>1. Apart(txn[v], txn[w])
      BY <2>4 DEF SellInv, SellLocks
    <3> QED
      BY <1>1, <3>1 DEF Apart
  <2>5. SellLocks(c)'
    BY <1>1, <2>3, <2>4 DEF SellLocks
  <2> QED
    BY <2>1, <2>2, <2>5 DEF SellInv
<1>2. CASE Sell(c)!Read
  BY <1>1, <1>2 DEF Sell!Read, Sell!vars
<1> QED
  BY <1>1, <1>2, SellCreateOrder, SellLock, SellTransition, SellStartDelivery, SellMissRow, SellDeliverLine,
     SellCommitDelivery, SellAside
  DEF Sell!Next

-----------------------------------------------------------------------------
(* What the invariant says of the properties of Sell. *)

LEMMA SellSums ==
    ASSUME NEW CONSTANT c, SellInv(c)
    PROVE  /\ Sell(c)!Rows(deliveries) = Delivered
           /\ \A o, n : Sell(c)!Delivered(o, n) = TotalFor(o, n) /\ (Sell(c)!Named(o, n) <=> Takes(o, n))
           /\ \A p : Sell(c)!SumFunctionOnSet([d \in Sell(c)!Rows(deliveries) |->
                        Sell(c)!OutOf(deliveries[d].lines, p)], Sell(c)!Rows(deliveries)) = TotalTaken(p)
<1>1. Sell(c)!Rows(deliveries) = Delivered
  BY SellShapes DEF Sell!Rows, Delivered
<1>2. ASSUME NEW o, NEW n PROVE Sell(c)!Delivered(o, n) = TotalFor(o, n)
  <2>1. {d \in Sell(c)!Rows(deliveries) : deliveries[d].order = o} = DeliveredTo(o)
    BY <1>1 DEF DeliveredTo
  <2> QED
    BY <2>1, SellMoved DEF Sell!Delivered, TotalFor
<1>3. ASSUME NEW p PROVE Sell(c)!SumFunctionOnSet([d \in Sell(c)!Rows(deliveries) |->
                        Sell(c)!OutOf(deliveries[d].lines, p)], Sell(c)!Rows(deliveries)) = TotalTaken(p)
  BY <1>1, SellMoved DEF TotalTaken
<1>4. \A o, n : Sell(c)!Named(o, n) <=> Takes(o, n)
  BY <1>1 DEF Sell!Named, Takes, DeliveredTo, OfLine
<1> QED
  BY <1>1, <1>2, <1>3, <1>4

\* The invariant contains the types of Sales.
LEMMA SellTypeOK == ASSUME NEW CONSTANT c, Sold(c), SellInv(c) PROVE Sell(c)!TypeOK
<1>1. c.lines \in Nat /\ Sell(c)!Status = 0..4 \cup {-1}
  BY DEF Sold, Sell!SalesAssumption, Sell!Status, Sell!Draft, Sell!Submitted, Sell!PendingSupervisor,
         Sell!Approved, Sell!Rejected, Sell!Deleted
<1>2. ASSUME NEW o \in Sell(c)!Rows(orders)
      PROVE  /\ orders[o].status \in Sell(c)!Status
             /\ orders[o].lines \in Seq([quantity : Int, delivered : Int, closed : BOOLEAN])
  <2>1. orders[o] \in SellOrder(c)
    BY <1>2, SellShapes DEF Sell!Rows, SellInv, SellTypes
  <2>2. orders[o].lines \in Seq(SellLine)
    BY <1>1, <2>1, ListShape DEF SellOrder
  <2>3. SellLine \subseteq [quantity : Int, delivered : Int, closed : BOOLEAN]
    BY DEF SellLine
  <2>4. orders[o].status \in 0..4 \cup {-1}
    BY <2>1 DEF SellOrder
  <2>5. orders[o].lines \in Seq([quantity : Int, delivered : Int, closed : BOOLEAN])
    <3>1. PICK T : T = [quantity : Int, delivered : Int, closed : BOOLEAN]
      OBVIOUS
    <3>2. SellLine \subseteq T
      BY <2>3, <3>1
    <3>3. orders[o].lines \in Seq(T)
      BY <2>2, <3>2
    <3> QED
      BY <3>1, <3>3
  <2> QED
    BY <1>1, <2>4, <2>5
<1>3. ASSUME NEW d \in Sell(c)!Rows(deliveries)
      PROVE  deliveries[d].order \in c.orders /\ deliveries[d].lines \in Seq(Sell(c)!DeliveryLine)
  <2>1. deliveries[d] \in SellDelivery(c)
    BY <1>3, SellShapes DEF Sell!Rows, SellInv, SellTypes
  <2> QED
    BY <2>1 DEF SellDelivery, TakeLine, Sell!DeliveryLine
<1>4. \A i \in Sell(c)!Rows(invoices) : invoices[i].order \in c.orders
  BY SellShapes DEF Sell!Rows, SellInv, SellTypes
<1>5. DOMAIN stock \subseteq c.places /\ \A p \in DOMAIN stock : stock[p] \in Int
  BY DEF SellInv, SellTypes
<1>6. ASSUME NEW w \in Workers
      PROVE  \/ txn[w] = Sell(c)!Idle
             \/ txn[w] \in [op : {"submit", "approve", "deliver"}, doc : c.orders,
                            before : [status : Sell(c)!Status]]
             \/ txn[w].op = "lines" /\ txn[w].doc \in c.orders
             \/ txn[w] \in [op : {"invoice"}, doc : c.invoices]
  <2>1. txn[w] \in SellTask(c) \cup TakeTask(c) \cup BillTask(c) \cup {Still}
    BY DEF SellInv, SellTypes, SellWork
  <2> QED
    BY <1>1, <2>1, SellShapes DEF SellTask, TakeTask, BillTask
<1> QED
  BY <1>2, <1>3, <1>4, <1>5, <1>6 DEF Sell!TypeOK

\* Order lines show what deliveries posted, and the stock covers them.
LEMMA SellDelivered ==
    ASSUME NEW CONSTANT c, Sold(c), SellInv(c)
    PROVE  Sell(c)!DeliveredAsPosted /\ Sell(c)!DeliveredOnApproved /\ Sell(c)!StockAsDelivered
<1>1. \A o \in Sell(c)!Rows(orders) : o \in c.orders /\ orders[o] # Gone
  BY SellShapes DEF Sell!Rows, SellInv, SellTypes
<1>2. Sell(c)!DeliveredAsPosted
  <2>1. ASSUME NEW o \in Sell(c)!Rows(orders), NEW n \in DOMAIN orders[o].lines
        PROVE  LineTaken(orders[o].lines[n], Sell(c)!Delivered(o, n), Sell(c)!Named(o, n))
    <3>1. LineTaken(orders[o].lines[n], TotalFor(o, n), Takes(o, n))
      BY <1>1 DEF SellInv, SellPosted
    <3>2. Sell(c)!Delivered(o, n) = TotalFor(o, n) /\ (Sell(c)!Named(o, n) <=> Takes(o, n))
      BY SellSums
    <3> QED
      BY <3>1, <3>2 DEF LineTaken
  <2> QED
    BY <2>1 DEF Sell!DeliveredAsPosted, Sell!GetOrder, LineTaken
<1>3. Sell(c)!DeliveredOnApproved
  <2>1. \A d \in Delivered : d \in c.deliveries /\ deliveries[d] # Gone
    BY DEF Delivered, SellInv, SellTypes
  <2> QED
    BY <2>1, SellSums DEF Sell!DeliveredOnApproved, Sell!Approved, SellInv, SellApproved
<1>4. Sell(c)!StockAsDelivered
  BY SellSums DEF Sell!StockAsDelivered, SellInv, SellStock
<1> QED
  BY <1>2, <1>3, <1>4

\* The change records of a sales order are a chain up to its row.
LEMMA SellTold == ASSUME NEW CONSTANT c, SellInv(c) PROVE Sell(c)!OrderHistory
<1>1. ASSUME NEW o \in Sell(c)!Rows(orders)
      PROVE  Sell(c)!Chained(trail[o]) /\ Sell(c)!UpToDate(trail[o], Sell(c)!Snapshot(orders[o]))
  <2>1. Tells(trail[o], [status |-> orders[o].status])
    BY <1>1, SellShapes DEF Sell!Rows, SellInv, SellTypes, SellHistory
  <2> QED
    BY <2>1 DEF Tells, Sell!Chained, Sell!UpToDate, Sell!Snapshot
<1> QED
  BY <1>1 DEF Sell!OrderHistory

-----------------------------------------------------------------------------
(* Pay: the row lock of an invoice serialises its payments. *)

PayInvoice == [kind: Pay!Kinds, total: Int, paid: Nat, date: PayDates]
Payment == [type: Pay!Types, kind: Pay!Kinds, invoice: Bills, amount: Nat \ {0}]
Paying == [step: {1}, invoice: Bills, kind: Pay!Kinds, type: Pay!Types, amount: Nat \ {0}, paid: Nat]
Posted(i) == {p \in Payments : payments[p] # Pay!Absent /\ payments[p].invoice = i}
Sums(i) == SumFunctionOnSet([p \in Posted(i) |-> payments[p].amount], Posted(i))

PayTypes ==
    /\ invoices \in [Bills -> PayInvoice \cup {Pay!Absent}]
    /\ payments \in [Payments -> Payment \cup {Pay!Absent}]
    /\ txn \in [Workers -> Paying \cup {Pay!Idle}]
    /\ "step" \in DOMAIN report /\ report.step \in 0..5

\* An open payment has the lock of its invoice, and what it read still holds.
Locked ==
    /\ \A v, w \in Workers :
         txn[v] # Pay!Idle /\ txn[w] # Pay!Idle /\ txn[v].invoice = txn[w].invoice => v = w
    /\ \A w \in Workers : txn[w] # Pay!Idle =>
         /\ invoices[txn[w].invoice] # Pay!Absent
         /\ txn[w].paid = invoices[txn[w].invoice].paid
         /\ txn[w].kind = invoices[txn[w].invoice].kind

\* What was paid is what was posted, on invoices of the right kind.
Balanced ==
    \A i \in Bills :
        /\ IsFiniteSet(Posted(i))
        /\ invoices[i] = Pay!Absent => Posted(i) = {}
        /\ invoices[i] # Pay!Absent =>
             /\ invoices[i].paid = Sums(i)
             /\ Posted(i) # {} => invoices[i].paid <= invoices[i].total
             /\ \A p \in Posted(i) : payments[p].kind = invoices[i].kind

PayInv == PayTypes /\ Locked /\ Balanced

\* What the rows of invoices and payments look like.
LEMMA PayShapes ==
    /\ \A x \in PayInvoice \cup Payment : x # Pay!Absent
    /\ \A x \in Paying : x # Pay!Idle
BY DEF PayInvoice, Payment, Paying, Pay!Absent, Pay!Idle

\* The invariant holds at the start: nothing is paid.
LEMMA PayInvInit == Pay!Init => PayInv
<1>1. SUFFICES ASSUME Pay!Init PROVE PayTypes /\ Locked /\ Balanced
  BY DEF PayInv
<1>2. PayTypes
  BY <1>1 DEF Pay!Init, PayTypes, Pay!Idle
<1>3. Locked
  BY <1>1 DEF Pay!Init, Locked
<1>4. Balanced
  <2>1. \A i \in Bills : Posted(i) = {} /\ invoices[i] = Pay!Absent
    BY <1>1 DEF Pay!Init, Posted
  <2> QED
    BY <2>1, FS_EmptySet DEF Balanced
<1> QED
  BY <1>2, <1>3, <1>4

\* Steps that post nothing.
LEMMA PostedKept ==
    ASSUME payments' = payments
    PROVE  \A i \in Bills : Posted(i)' = Posted(i) /\ Sums(i)' = Sums(i)
BY DEF Posted, Sums

\* A new invoice has no payments.
LEMMA CreateInvoiceStep ==
    ASSUME PayInv, NEW i \in Bills, Pay!CreateInvoice(i)
    PROVE  PayInv'
<1>1. PICK k \in Pay!Kinds, n \in PayTotals, d \in PayDates :
        invoices' = [invoices EXCEPT ![i] = [kind |-> k, total |-> n, paid |-> 0, date |-> d]]
  BY DEF Pay!CreateInvoice
<1>2. PICK x \in PayInvoice : x = [kind |-> k, total |-> n, paid |-> 0, date |-> d]
  BY TradeAssumption DEF TradeAssumption, Pay!FinanceAssumption, PayInvoice
<1>3. /\ invoices' = [invoices EXCEPT ![i] = x] /\ invoices[i] = Pay!Absent
      /\ UNCHANGED <<payments, txn, report>>
  BY <1>1, <1>2 DEF Pay!CreateInvoice
<1>4. PayTypes'
  BY <1>3 DEF PayInv, PayTypes
<1>5. Locked'
  BY <1>3 DEF PayInv, PayTypes, Locked
<1>6. Balanced'
  <2>1. ASSUME NEW j \in Bills
        PROVE  /\ IsFiniteSet(Posted(j))
               /\ invoices'[j] = Pay!Absent => Posted(j) = {}
               /\ invoices'[j] # Pay!Absent =>
                    /\ invoices'[j].paid = Sums(j)
                    /\ Posted(j) # {} => invoices'[j].paid <= invoices'[j].total
                    /\ \A p \in Posted(j) : payments[p].kind = invoices'[j].kind
    <3>1. CASE j = i
      <4>1. Posted(i) = {} /\ IsFiniteSet(Posted(i)) /\ Sums(i) = 0
        BY <1>3, SumEmpty DEF PayInv, Balanced, Sums
      <4>2. invoices'[i] = x /\ x.paid = 0
        BY <1>2, <1>3 DEF PayInv, PayTypes
      <4> QED
        BY <3>1, <4>1, <4>2, PayShapes
    <3>2. CASE j # i
      <4>1. invoices'[j] = invoices[j]
        BY <1>3, <3>2 DEF PayInv, PayTypes
      <4> QED
        BY <4>1 DEF PayInv, Balanced
    <3> QED
      BY <3>1, <3>2
  <2> QED
    BY <1>3, <2>1, PostedKept DEF Balanced
<1> QED
  BY <1>4, <1>5, <1>6 DEF PayInv

\* A step of a request that leaves the tables alone.
LEMMA TxnStep ==
    ASSUME PayInv, UNCHANGED <<invoices, payments, report>>, NEW w \in Workers,
           NEW t \in Paying \cup {Pay!Idle}, txn' = [txn EXCEPT ![w] = t],
           t # Pay!Idle =>
             /\ \A v \in Workers : txn[v] # Pay!Idle => txn[v].invoice # t.invoice
             /\ invoices[t.invoice] # Pay!Absent
             /\ t.paid = invoices[t.invoice].paid /\ t.kind = invoices[t.invoice].kind
    PROVE  PayInv'
<1>1. PayTypes'
  BY DEF PayInv, PayTypes
<1>2. Locked'
  BY DEF PayInv, PayTypes, Locked
<1>3. Balanced'
  BY PostedKept DEF PayInv, Balanced
<1> QED
  BY <1>1, <1>2, <1>3 DEF PayInv

\* A payment locks its invoice and reads what is open.
LEMMA StartPaymentStep ==
    ASSUME PayInv, NEW w \in Workers, NEW i \in Bills, Pay!StartPayment(w, i)
    PROVE  PayInv'
<1>1. PICK n \in PayAmounts, t \in Pay!Types, k \in Pay!Kinds :
        /\ n > 0 /\ i \in Pay!OfKind(k)
        /\ txn' = [txn EXCEPT ![w] = [step |-> 1, invoice |-> i, kind |-> k, type |-> t,
                                      amount |-> n, paid |-> invoices[i].paid]]
  BY DEF Pay!StartPayment
<1>2. invoices[i] # Pay!Absent /\ invoices[i].kind = k
  BY <1>1 DEF Pay!OfKind, Pay!Rows
<1>3. invoices[i].paid \in Nat /\ n \in Nat \ {0}
  <2>1. n \in Int
    BY TradeAssumption DEF TradeAssumption, Pay!FinanceAssumption
  <2> QED
    BY <1>1, <1>2, <2>1 DEF PayInv, PayTypes, PayInvoice
<1>4. PICK x \in Paying : x = [step |-> 1, invoice |-> i, kind |-> k, type |-> t, amount |-> n,
                              paid |-> invoices[i].paid]
  BY <1>3 DEF Paying
<1> QED
  BY <1>1, <1>2, <1>4, TxnStep DEF Pay!StartPayment, Pay!Free

\* A payment commits: the invoice shows it and is not overpaid.
LEMMA CommitPaymentStep ==
    ASSUME PayInv, NEW w \in Workers, NEW p \in Payments, Pay!CommitPayment(w, p)
    PROVE  PayInv'
<1>1. PICK t \in Paying : t = txn[w]
  BY DEF PayInv, PayTypes, Pay!CommitPayment
<1>2. PICK i \in Bills : i = t.invoice
  BY DEF Paying
<1>3. /\ invoices[i] \in PayInvoice /\ t.paid = invoices[i].paid /\ t.kind = invoices[i].kind
      /\ t.amount \in Nat \ {0} /\ t.paid \in Nat
  BY <1>1, <1>2, PayShapes DEF PayInv, PayTypes, Locked, Paying
<1>4. PICK x \in Payment : x = [type |-> t.type, kind |-> t.kind, invoice |-> t.invoice, amount |-> t.amount]
  BY DEF Paying, Payment
<1>5. PICK y \in PayInvoice : y = [invoices[i] EXCEPT !.paid = t.paid + t.amount]
  <2>1. t.paid + t.amount \in Nat
    BY <1>3
  <2> QED
    BY <1>3, <2>1 DEF PayInvoice
<1>6. /\ payments' = [payments EXCEPT ![p] = x] /\ payments[p] = Pay!Absent
      /\ invoices' = [invoices EXCEPT ![i] = y]
      /\ txn' = [txn EXCEPT ![w] = Pay!Idle] /\ report' = report
      /\ t.paid + t.amount <= invoices[i].total
  <2>1. invoices' = [invoices EXCEPT ![i].paid = t.paid + t.amount]
    BY <1>1, <1>2 DEF Pay!CommitPayment
  <2>2. invoices' = [invoices EXCEPT ![i] = y]
    BY <1>5, <2>1 DEF PayInv, PayTypes
  <2> QED
    BY <1>1, <1>2, <1>4, <2>2 DEF Pay!CommitPayment, Pay!Payable
<1>7. /\ payments'[p] = x /\ \A q \in Payments \ {p} : payments'[q] = payments[q]
      /\ invoices'[i] = y /\ \A j \in Bills \ {i} : invoices'[j] = invoices[j]
      /\ y.paid = t.paid + t.amount /\ y.total = invoices[i].total /\ y.kind = invoices[i].kind
      /\ x.invoice = i /\ x.amount = t.amount /\ x.kind = t.kind
  BY <1>2, <1>3, <1>4, <1>5, <1>6 DEF PayInv, PayTypes, PayInvoice
<1>8. PayTypes'
  BY <1>6 DEF PayInv, PayTypes
<1>9. Locked'
  <2>1. \A v \in Workers : txn'[v] # Pay!Idle =>
          /\ txn'[v] = txn[v] /\ txn[v].invoice \in Bills \ {i} /\ v # w
    <3>1. ASSUME NEW v \in Workers, txn'[v] # Pay!Idle
          PROVE  txn'[v] = txn[v] /\ txn[v].invoice \in Bills \ {i} /\ v # w
      <4>1. v # w /\ txn'[v] = txn[v]
        BY <1>6, <3>1 DEF PayInv, PayTypes
      <4>2. txn[v].invoice \in Bills
        BY <3>1, <4>1 DEF PayInv, PayTypes, Paying
      <4>3. txn[v].invoice # i
        BY <1>1, <1>2, <3>1, <4>1, PayShapes DEF PayInv, Locked
      <4> QED
        BY <4>1, <4>2, <4>3
    <3> QED
      BY <3>1
  <2> QED
    BY <1>7, <2>1 DEF PayInv, Locked
<1>10. ASSUME NEW j \in Bills, j # i
       PROVE  Posted(j)' = Posted(j) /\ Sums(j)' = Sums(j)
  <2>1. Posted(j)' = Posted(j)
    BY <1>6, <1>7, <1>10 DEF Posted
  <2>2. [q \in Posted(j) |-> payments[q].amount]' = [q \in Posted(j) |-> payments[q].amount]
    BY <2>1, <1>6, <1>7 DEF Posted
  <2> QED
    BY <2>1, <2>2 DEF Sums
<1>11. /\ Posted(i)' = Posted(i) \cup {p} /\ p \notin Posted(i)
       /\ IsFiniteSet(Posted(i)') /\ Sums(i)' = Sums(i) + t.amount
  <2>1. Posted(i)' = Posted(i) \cup {p} /\ p \notin Posted(i)
    BY <1>6, <1>7, PayShapes DEF Posted
  <2>2. IsFiniteSet(Posted(i))
    BY DEF PayInv, Balanced
  <2> DEFINE f == [q \in Posted(i) \cup {p} |-> payments'[q].amount]
  <2>3. \A q \in Posted(i) \cup {p} : f[q] \in Int
    <3>1. \A q \in Posted(i) : payments[q] \in Payment /\ q # p
      BY <2>1 DEF PayInv, PayTypes, Posted
    <3> QED
      BY <1>3, <1>7, <3>1 DEF Payment, Posted
  <2>4. SumFunctionOnSet(f, Posted(i) \cup {p}) = f[p] + SumFunctionOnSet(f, Posted(i))
    <3> HIDE DEF f
    <3> QED
      BY <2>1, <2>2, <2>3, SumAdd
  <2>5. SumFunctionOnSet(f, Posted(i)) = Sums(i)
    <3>1. \A q \in Posted(i) : f[q] = [r \in Posted(i) |-> payments[r].amount][q]
      BY <1>7, <2>1 DEF Posted
    <3> HIDE DEF f
    <3> QED
      BY <2>2, <2>3, <3>1, SumCongruent DEF Sums
  <2>6. Sums(i)' = SumFunctionOnSet(f, Posted(i) \cup {p})
    BY <2>1 DEF Sums
  <2>7. Sums(i) \in Int /\ f[p] = t.amount
    <3>1. SumFunctionOnSet(f, Posted(i)) \in Int
      <4> HIDE DEF f
      <4> QED
        BY <2>2, <2>3, SumInt
    <3> QED
      BY <1>7, <2>5, <3>1
  <2>8. IsFiniteSet(Posted(i) \cup {p})
    BY <2>2, FS_AddElement
  <2> HIDE DEF f
  <2> QED
    BY <1>3, <2>1, <2>4, <2>5, <2>6, <2>7, <2>8
<1>12. Balanced'
  <2>1. ASSUME NEW j \in Bills
        PROVE  /\ IsFiniteSet(Posted(j)')
               /\ invoices'[j] = Pay!Absent => Posted(j)' = {}
               /\ invoices'[j] # Pay!Absent =>
                    /\ invoices'[j].paid = Sums(j)'
                    /\ Posted(j)' # {} => invoices'[j].paid <= invoices'[j].total
                    /\ \A q \in Posted(j)' : payments'[q].kind = invoices'[j].kind
    <3>1. CASE j = i
      <4>1. invoices[i].paid = Sums(i) /\ \A q \in Posted(i) : payments[q].kind = invoices[i].kind
        BY <1>3, PayShapes DEF PayInv, Balanced
      <4>2. y.paid = Sums(i)' /\ y.paid <= y.total
        BY <1>3, <1>6, <1>7, <1>11, <4>1
      <4>3. ASSUME NEW q \in Posted(i)' PROVE payments'[q].kind = y.kind
        <5>1. q = p \/ (q \in Posted(i) /\ q # p /\ q \in Payments)
          BY <1>11, <4>3 DEF Posted
        <5> QED
          BY <1>3, <1>7, <4>1, <5>1
      <4> QED
        BY <1>7, <1>11, <3>1, <4>2, <4>3, PayShapes
    <3>2. CASE j # i
      <4>1. Posted(j)' = Posted(j) /\ Sums(j)' = Sums(j) /\ invoices'[j] = invoices[j]
        BY <1>7, <1>10, <3>2
      <4>2. \A q \in Posted(j) : payments'[q] = payments[q]
        BY <1>6, <1>7 DEF Posted
      <4> QED
        BY <4>1, <4>2 DEF PayInv, Balanced
    <3> QED
      BY <3>1, <3>2
  <2> QED
    BY <2>1 DEF Balanced
<1> QED
  BY <1>8, <1>9, <1>12 DEF PayInv

\* The reports change no row.
LEMMA ReportStep ==
    ASSUME PayInv, UNCHANGED <<invoices, payments, txn>>,
           \/ Pay!StartReport \/ Pay!ReadIncome \/ Pay!ReadExpense \/ Pay!CountSales
           \/ Pay!CountPurchases \/ Pay!EndReport
    PROVE  PayInv'
<1>1. "step" \in DOMAIN report' /\ report'.step \in 0..5
  <2>1. CASE Pay!StartReport
    BY <2>1 DEF Pay!StartReport
  <2>2. ASSUME NEW field \in {"income", "expense", "sales", "purchases"}, NEW value, report.step \in 1..4,
               Pay!ReadNext(field, value)
        PROVE  "step" \in DOMAIN report' /\ report'.step \in 0..5
    <3>1. report' = [report EXCEPT !.step = @ + 1, ![field] = value]
      BY <2>2 DEF Pay!ReadNext
    <3>2. "step" \in DOMAIN report' /\ report'.step = report.step + 1
      BY <3>1, <2>2 DEF PayInv, PayTypes
    <3> QED
      BY <2>2, <3>2
  <2>3. CASE Pay!EndReport
    BY <2>3 DEF Pay!EndReport, Pay!Idle
  <2> QED
    BY <2>1, <2>2, <2>3 DEF Pay!ReadIncome, Pay!ReadExpense, Pay!CountSales, Pay!CountPurchases
<1>2. PayTypes' /\ Locked'
  BY <1>1 DEF PayInv, PayTypes, Locked
<1>3. Balanced'
  BY PostedKept DEF PayInv, Balanced
<1> QED
  BY <1>2, <1>3 DEF PayInv

\* Every step of Finance keeps the invariant.
LEMMA PayInvStep == ASSUME PayInv, Pay!Next \/ UNCHANGED <<invoices, payments, txn, report>> PROVE PayInv'
<1>1. CASE UNCHANGED <<invoices, payments, txn, report>>
  <2>1. PayTypes' /\ Locked'
    BY <1>1 DEF PayInv, PayTypes, Locked
  <2>2. Balanced'
    BY <1>1, PostedKept DEF PayInv, Balanced
  <2> QED
    BY <2>1, <2>2 DEF PayInv
<1>2. ASSUME NEW w \in Workers, Pay!Rollback(w) PROVE PayInv'
  BY <1>2, TxnStep DEF Pay!Rollback
<1>3. ASSUME Pay!StartReport \/ Pay!ReadIncome \/ Pay!ReadExpense \/ Pay!CountSales
             \/ Pay!CountPurchases \/ Pay!EndReport
      PROVE  PayInv'
  <2>1. UNCHANGED <<invoices, payments, txn>>
    BY <1>3
    DEF Pay!StartReport, Pay!ReadIncome, Pay!ReadExpense, Pay!CountSales, Pay!CountPurchases, Pay!EndReport,
        Pay!ReadNext
  <2> QED
    BY <1>3, <2>1, ReportStep
<1> QED
  BY <1>1, <1>2, <1>3, CreateInvoiceStep, StartPaymentStep, CommitPaymentStep
  DEF Pay!Next, Pay!Read, Pay!vars

\* paid_amount is the sum of the posted payments.
LEMMA PayInvBalances == PayInv => Pay!TypeOK /\ Pay!PaidAsPosted
<1>1. SUFFICES ASSUME PayInv PROVE Pay!TypeOK /\ Pay!PaidAsPosted
  OBVIOUS
<1>2. PayTypes
  BY <1>1 DEF PayInv
<1>3. Pay!TypeOK
  BY <1>2 DEF PayTypes, PayInvoice, Payment, Paying, Pay!TypeOK, Pay!Rows
<1>4. ASSUME NEW i \in Pay!Rows(invoices)
      PROVE  /\ i \in Bills /\ invoices[i] # Pay!Absent
             /\ {p \in Pay!SearchPayments(Pay!Types, Pay!Kinds) : payments[p].invoice = i} = Posted(i)
  BY <1>2 DEF PayTypes, Payment, Pay!Rows, Pay!SearchPayments, Posted
<1>5. ASSUME NEW i \in Pay!Rows(invoices)
      PROVE  /\ invoices[i].paid
                  = Pay!SumFunctionOnSet([p \in Posted(i) |-> payments[p].amount], Posted(i))
             /\ Posted(i) # {} => invoices[i].paid <= invoices[i].total
             /\ \A p \in Posted(i) : payments[p].kind = invoices[i].kind
  <2>1. \A f, S : Pay!SumFunctionOnSet(f, S) = SumFunctionOnSet(f, S)
    BY DEF Pay!SumFunctionOnSet, SumFunctionOnSet, Pay!FoldFunctionOnSet, FoldFunctionOnSet,
           Pay!MapThenFoldSet, MapThenFoldSet
  <2> QED
    BY <1>1, <1>4, <2>1 DEF PayInv, Balanced, Sums
<1>6. Pay!PaidAsPosted
  BY <1>4, <1>5 DEF Pay!PaidAsPosted, Pay!GetPayment
<1> QED
  BY <1>3, <1>6

-----------------------------------------------------------------------------
(* Book: days, months and years. *)

\* The days before a year begins, and before a month of it does.
YearStart(y) == 365 * (y - 1) + (y - 1) \div 4 - (y - 1) \div 100 + (y - 1) \div 400
LeapDay(c, y) == IF Book(c)!Leap(y) THEN 1 ELSE 0
MonthStart(c, y, m) ==
    SumFunctionOnSet([mo \in 1..(m - 1) |-> Book(c)!DaysIn(y, mo)], 1..(m - 1))

\* Sums are the same in every instance.
LEMMA BookSums == ASSUME NEW CONSTANT c PROVE \A f, S : Book(c)!SumFunctionOnSet(f, S) = SumFunctionOnSet(f, S)
BY DEF Book!SumFunctionOnSet, SumFunctionOnSet, Book!FoldFunctionOnSet, FoldFunctionOnSet,
       Book!MapThenFoldSet, MapThenFoldSet

\* A year has 365 days, and one more if it is a leap year.
LEMMA YearLength ==
    ASSUME NEW CONSTANT c, NEW y \in Int
    PROVE  YearStart(y) \in Int /\ YearStart(y + 1) = YearStart(y) + 365 + LeapDay(c, y)
<1>1. y \div 4 - (y - 1) \div 4 = IF y % 4 = 0 THEN 1 ELSE 0
  OBVIOUS
<1>2. y \div 100 - (y - 1) \div 100 = IF y % 100 = 0 THEN 1 ELSE 0
  OBVIOUS
<1>3. y \div 400 - (y - 1) \div 400 = IF y % 400 = 0 THEN 1 ELSE 0
  OBVIOUS
<1>4. (y % 100 = 0 => y % 4 = 0) /\ (y % 400 = 0 => y % 100 = 0)
  OBVIOUS
<1>5. (y + 1) - 1 = y
  OBVIOUS
<1> QED
  BY <1>1, <1>2, <1>3, <1>4, <1>5 DEF YearStart, LeapDay, Book!Leap

\* A later year begins later.
LEMMA YearOrder ==
    ASSUME NEW y \in Int, NEW z \in Int, y <= z
    PROVE  YearStart(y) <= YearStart(z)
<1> DEFINE q == (y - 1) \div 4
           r == (z - 1) \div 4
<1>1. (y - 1) \div 100 = q \div 25 /\ (z - 1) \div 100 = r \div 25
  OBVIOUS
<1>2. q <= r /\ q \in Int /\ r \in Int
  OBVIOUS
<1>3. (y - 1) \div 400 <= (z - 1) \div 400
  OBVIOUS
<1>4. q - (q \div 25) <= r - (r \div 25)
  <2> HIDE DEF q, r
  <2> QED
    BY <1>2
<1> QED
  BY <1>1, <1>2, <1>3, <1>4 DEF YearStart

\* What is before each month.
LEMMA MonthSums ==
    ASSUME NEW CONSTANT c, NEW y \in Int
    PROVE  /\ MonthStart(c, y, 1) = 0 /\ MonthStart(c, y, 2) = 31
           /\ MonthStart(c, y, 3) = 59 + LeapDay(c, y) /\ MonthStart(c, y, 4) = 90 + LeapDay(c, y)
           /\ MonthStart(c, y, 5) = 120 + LeapDay(c, y) /\ MonthStart(c, y, 6) = 151 + LeapDay(c, y)
           /\ MonthStart(c, y, 7) = 181 + LeapDay(c, y) /\ MonthStart(c, y, 8) = 212 + LeapDay(c, y)
           /\ MonthStart(c, y, 9) = 243 + LeapDay(c, y) /\ MonthStart(c, y, 10) = 273 + LeapDay(c, y)
           /\ MonthStart(c, y, 11) = 304 + LeapDay(c, y) /\ MonthStart(c, y, 12) = 334 + LeapDay(c, y)
<1> DEFINE f(m) == [mo \in 1..(m - 1) |-> Book(c)!DaysIn(y, mo)]
<1>1. \A mo \in 1..12 : Book(c)!DaysIn(y, mo) \in Nat
  BY DEF Book!DaysIn
<1>2. ASSUME NEW m \in 1..11
      PROVE  MonthStart(c, y, m + 1) = MonthStart(c, y, m) + Book(c)!DaysIn(y, m)
  <2>0. PICK n : n = m - 1
    OBVIOUS
  <2>4. n \in Nat /\ m - 1 = n /\ (m + 1) - 1 = n + 1 /\ n + 1 = m /\ n + 1 \in 1..12
    BY <2>0
  <2>5. f(m) = [mo \in 1..n |-> Book(c)!DaysIn(y, mo)] /\ f(m + 1) = [mo \in 1..(n + 1) |-> Book(c)!DaysIn(y, mo)]
    BY <2>4
  <2>1. /\ \A k \in 1..n : f(m)[k] \in Int /\ f(m + 1)[k] = f(m)[k]
        /\ f(m + 1)[n + 1] \in Int /\ f(m + 1)[n + 1] = Book(c)!DaysIn(y, m)
    <3>1. \A k \in 1..(n + 1) : Book(c)!DaysIn(y, k) \in Int
      BY <1>1, <2>4
    <3> HIDE DEF f
    <3> QED
      BY <3>1, <2>4, <2>5
  <2> HIDE DEF f
  <2>2. PICK g, h : g = f(m) /\ h = f(m + 1)
    OBVIOUS
  <2>3. SumFunctionOnSet(h, 1..(n + 1)) = SumFunctionOnSet(g, 1..n) + h[n + 1]
    BY <2>1, <2>2, <2>4, SumNext
  <2> QED
    BY <2>1, <2>2, <2>3, <2>4 DEF MonthStart, f
<1>3. MonthStart(c, y, 1) = 0
  <2>1. 1..(1 - 1) = {}
    OBVIOUS
  <2> QED
    BY <2>1, SumEmpty DEF MonthStart
<1>4. /\ Book(c)!DaysIn(y, 1) = 31 /\ Book(c)!DaysIn(y, 2) = 28 + LeapDay(c, y)
      /\ Book(c)!DaysIn(y, 3) = 31 /\ Book(c)!DaysIn(y, 4) = 30 /\ Book(c)!DaysIn(y, 5) = 31
      /\ Book(c)!DaysIn(y, 6) = 30 /\ Book(c)!DaysIn(y, 7) = 31 /\ Book(c)!DaysIn(y, 8) = 31
      /\ Book(c)!DaysIn(y, 9) = 30 /\ Book(c)!DaysIn(y, 10) = 31 /\ Book(c)!DaysIn(y, 11) = 30
  BY DEF Book!DaysIn, LeapDay
<1>5. LeapDay(c, y) \in Int
  BY DEF LeapDay
<1>6. MonthStart(c, y, 1 + 1) = 31 /\ MonthStart(c, y, 2 + 1) = 59 + LeapDay(c, y)
  BY <1>2, <1>3, <1>4, <1>5
<1>7. MonthStart(c, y, 3 + 1) = 90 + LeapDay(c, y) /\ MonthStart(c, y, 4 + 1) = 120 + LeapDay(c, y)
  BY <1>2, <1>4, <1>5, <1>6
<1>8. MonthStart(c, y, 5 + 1) = 151 + LeapDay(c, y) /\ MonthStart(c, y, 6 + 1) = 181 + LeapDay(c, y)
  BY <1>2, <1>4, <1>5, <1>7
<1>9. MonthStart(c, y, 7 + 1) = 212 + LeapDay(c, y) /\ MonthStart(c, y, 8 + 1) = 243 + LeapDay(c, y)
  BY <1>2, <1>4, <1>5, <1>8
<1>10. MonthStart(c, y, 9 + 1) = 273 + LeapDay(c, y) /\ MonthStart(c, y, 10 + 1) = 304 + LeapDay(c, y)
  BY <1>2, <1>4, <1>5, <1>9
<1>11. MonthStart(c, y, 11 + 1) = 334 + LeapDay(c, y)
  BY <1>2, <1>4, <1>5, <1>10
<1> QED
  BY <1>3, <1>6, <1>7, <1>8, <1>9, <1>10, <1>11

\* Days lie in their year, behind the months before and up to the end of their own.
LEMMA DayOfYear ==
    ASSUME NEW CONSTANT c, NEW y \in Int, NEW m \in 1..12, NEW n \in 1..12
    PROVE  /\ MonthStart(c, y, m) \in Nat /\ Book(c)!DaysIn(y, m) \in Nat \ {0}
           /\ m < n => MonthStart(c, y, m) + Book(c)!DaysIn(y, m) <= MonthStart(c, y, n)
           /\ MonthStart(c, y, m) + Book(c)!DaysIn(y, m) <= 365 + LeapDay(c, y)
<1>1. LeapDay(c, y) \in {0, 1} /\ Book(c)!DaysIn(y, 2) = 28 + LeapDay(c, y)
  BY DEF Book!DaysIn, LeapDay
<1>2. \A k \in 1..12 : /\ k \in {4, 6, 9, 11} => Book(c)!DaysIn(y, k) = 30
                       /\ k \notin {2, 4, 6, 9, 11} => Book(c)!DaysIn(y, k) = 31
  BY DEF Book!DaysIn
<1>3. /\ m \in {1, 2, 3, 4, 5, 6, 7, 8, 9, 10, 11, 12}
      /\ n \in {1, 2, 3, 4, 5, 6, 7, 8, 9, 10, 11, 12}
  OBVIOUS
<1> QED
  BY <1>1, <1>2, <1>3, MonthSums

\* A period is the days of its months, with both ends: of a leap February
\* and of December too.
LEMMA WithinPeriod ==
    ASSUME NEW CONSTANT c, NEW d \in Book(c)!Days, NEW p \in Int \X Int \X Int, Book(c)!ValidPeriod(p)
    PROVE  Book(c)!Within(d, p) <=>
             /\ d[1] = p[1]
             /\ d[2] \in Book(c)!MonthStart(p)..Book(c)!MonthEnd(p)
<1>1. PICK s, e : s = Book(c)!MonthStart(p) /\ e = Book(c)!MonthEnd(p)
  OBVIOUS
<1>2. p[1] \in Int /\ s \in 1..12 /\ e \in 1..12 /\ s <= e
  BY <1>1 DEF Book!ValidPeriod
<1>3. d[1] \in Int /\ d[2] \in 1..12 /\ d[3] \in 1..31 /\ d[3] <= Book(c)!DaysIn(d[1], d[2])
  BY DEF Book!Days
<1>4. Book(c)!StartDate(p) = <<p[1], s, 1>>
  BY <1>1 DEF Book!StartDate
<1>5. Book(c)!EndDate(p) = <<p[1], e, Book(c)!DaysIn(p[1], e)>>
  <2>1. CASE e = 12
    BY <1>1, <2>1 DEF Book!EndDate, Book!DaysIn
  <2>2. CASE e # 12
    BY <1>1, <1>2, <2>2 DEF Book!EndDate, Book!Pred
  <2> QED
    BY <2>1, <2>2
<1>6. \A y, m, k : Book(c)!Ordinal(<<y, m, k>>) = YearStart(y) + MonthStart(c, y, m) + k
  BY BookSums DEF Book!Ordinal, YearStart, MonthStart
<1>7. Book(c)!Ordinal(d) = YearStart(d[1]) + MonthStart(c, d[1], d[2]) + d[3]
  BY BookSums DEF Book!Ordinal, YearStart, MonthStart
<1>8. PICK lo, hi, x : lo = Book(c)!Ordinal(Book(c)!StartDate(p)) /\ hi = Book(c)!Ordinal(Book(c)!EndDate(p))
                     /\ x = Book(c)!Ordinal(d)
  OBVIOUS
<1>9. lo = YearStart(p[1]) + MonthStart(c, p[1], s) + 1
  BY <1>4, <1>6, <1>8
<1>10. hi = YearStart(p[1]) + MonthStart(c, p[1], e) + Book(c)!DaysIn(p[1], e)
  BY <1>5, <1>6, <1>8
<1>11. x = YearStart(d[1]) + MonthStart(c, d[1], d[2]) + d[3]
  BY <1>7, <1>8
<1>12. /\ YearStart(p[1]) \in Int /\ YearStart(p[1] + 1) = YearStart(p[1]) + 365 + LeapDay(c, p[1])
       /\ YearStart(d[1]) \in Int /\ YearStart(d[1] + 1) = YearStart(d[1]) + 365 + LeapDay(c, d[1])
       /\ LeapDay(c, p[1]) \in Int /\ LeapDay(c, d[1]) \in Int
  BY <1>2, <1>3, YearLength DEF LeapDay
<1>13. /\ MonthStart(c, p[1], s) \in Nat /\ MonthStart(c, p[1], e) \in Nat
       /\ Book(c)!DaysIn(p[1], e) \in Nat \ {0}
       /\ MonthStart(c, p[1], e) + Book(c)!DaysIn(p[1], e) <= 365 + LeapDay(c, p[1])
       /\ MonthStart(c, d[1], d[2]) \in Nat /\ Book(c)!DaysIn(d[1], d[2]) \in Nat \ {0}
       /\ MonthStart(c, d[1], d[2]) + Book(c)!DaysIn(d[1], d[2]) <= 365 + LeapDay(c, d[1])
  BY <1>2, <1>3, DayOfYear
<1>14. CASE d[1] < p[1]
  <2>1. YearStart(d[1] + 1) <= YearStart(p[1])
    BY <1>2, <1>3, <1>14, YearOrder
  <2>2. x < lo
    BY <1>3, <1>9, <1>11, <1>12, <1>13, <2>1
  <2>3. ~(lo <= x)
    BY <2>2, <1>9, <1>11, <1>12, <1>13, <1>3
  <2> QED
    BY <2>3, <1>8, <1>14, <1>2, <1>3 DEF Book!Within
<1>15. CASE d[1] > p[1]
  <2>1. YearStart(p[1] + 1) <= YearStart(d[1])
    BY <1>2, <1>3, <1>15, YearOrder
  <2>2. ~(x <= hi)
    BY <1>3, <1>10, <1>11, <1>12, <1>13, <2>1
  <2> QED
    BY <2>2, <1>8, <1>15, <1>2, <1>3 DEF Book!Within
<1>16. CASE d[1] = p[1]
  <2>1. PICK y : y = p[1]
    OBVIOUS
  <2>2. y \in Int /\ d[1] = y
    BY <1>2, <1>16, <2>1
  <2>3. \A m, n \in 1..12 : m < n => MonthStart(c, y, m) + Book(c)!DaysIn(y, m) <= MonthStart(c, y, n)
    BY <2>2, DayOfYear
  <2>4. \A m \in 1..12 : MonthStart(c, y, m) \in Nat /\ Book(c)!DaysIn(y, m) \in Nat \ {0}
    BY <2>2, DayOfYear
  <2>5. lo <= x <=> s <= d[2]
    <3>1. CASE s <= d[2]
      <4>1. s = d[2] \/ MonthStart(c, y, s) + Book(c)!DaysIn(y, s) <= MonthStart(c, y, d[2])
        BY <3>1, <1>2, <1>3, <2>3
      <4> QED
        BY <4>1, <3>1, <1>2, <1>3, <1>9, <1>11, <1>12, <2>1, <2>2, <2>4
    <3>2. CASE d[2] < s
      <4>1. MonthStart(c, y, d[2]) + Book(c)!DaysIn(y, d[2]) <= MonthStart(c, y, s)
        BY <3>2, <1>2, <1>3, <2>3
      <4> QED
        BY <4>1, <3>2, <1>2, <1>3, <1>9, <1>11, <1>12, <2>1, <2>2, <2>4
    <3> QED
      BY <3>1, <3>2, <1>2, <1>3
  <2>6. x <= hi <=> d[2] <= e
    <3>1. CASE d[2] <= e
      <4>1. e = d[2] \/ MonthStart(c, y, d[2]) + Book(c)!DaysIn(y, d[2]) <= MonthStart(c, y, e)
        BY <3>1, <1>2, <1>3, <2>3
      <4> QED
        BY <4>1, <3>1, <1>2, <1>3, <1>10, <1>11, <1>12, <2>1, <2>2, <2>4
    <3>2. CASE e < d[2]
      <4>1. MonthStart(c, y, e) + Book(c)!DaysIn(y, e) <= MonthStart(c, y, d[2])
        BY <3>2, <1>2, <1>3, <2>3
      <4> QED
        BY <4>1, <3>2, <1>2, <1>3, <1>10, <1>11, <1>12, <2>1, <2>2, <2>4
    <3> QED
      BY <3>1, <3>2, <1>2, <1>3
  <2> QED
    BY <2>5, <2>6, <1>1, <1>2, <1>3, <1>8, <1>16 DEF Book!Within
<1> QED
  BY <1>2, <1>3, <1>14, <1>15, <1>16

-----------------------------------------------------------------------------
(* Book: what a report reads while invoices are written and paid. *)

BookInvoice(c) == [kind: Book(c)!Kinds, total: Int, paid: Int, date: Book(c)!Days]
BookPaying(c) == [step: {1}, invoice: c.invoices, kind: Book(c)!Kinds, type: Book(c)!Types,
                  amount: Int, paid: Int]
Statement(c) == [step: 1..5, period: Int \X Int \X Int, began: SUBSET c.invoices,
                 income: Int, expense: Int, sales: Int, purchases: Int]

BookTypes(c) ==
    /\ invoices \in [c.invoices -> BookInvoice(c) \cup {Gone}]
    /\ IsFiniteSet(Book(c)!Rows(invoices))
    /\ txn \in [Workers -> BookPaying(c) \cup {Book(c)!Idle}]
    /\ \A w \in Workers : txn[w] # Book(c)!Idle => invoices[txn[w].invoice] # Gone
    /\ report \in Statement(c) \cup {Book(c)!Idle}

\* The invoices of S that belong into the report in progress.
InMonths(c, S, kind) ==
    {i \in S : /\ invoices[i].kind = kind /\ invoices[i].date[1] = report.period[1]
               /\ invoices[i].date[2] \in Book(c)!MonthStart(report.period)..Book(c)!MonthEnd(report.period)}

\* The sets of invoices that a statement of the report may have seen.
SeenSets(c, kind) ==
    {S \in SUBSET InMonths(c, Book(c)!Rows(invoices), kind) : InMonths(c, report.began, kind) \subseteq S}
Shown(c, kind, v) == \E S \in SeenSets(c, kind) : v = Book(c)!Sum(S)
Counted(c, kind, v) == \E S \in SeenSets(c, kind) : v = Cardinality(S)

\* Every figure read so far is that of such a set.
FiguresSeen(c) ==
    report # Book(c)!Idle =>
        /\ Book(c)!ValidPeriod(report.period) /\ report.began \subseteq Book(c)!Rows(invoices)
        /\ report.step > 1 => Shown(c, "sales", report.income)
        /\ report.step > 2 => Shown(c, "purchase", report.expense)
        /\ report.step > 3 => Counted(c, "sales", report.sales)
        /\ report.step > 4 => Counted(c, "purchase", report.purchases)

BookInv(c) == BookTypes(c) /\ FiguresSeen(c)
Kept(c) == Book(c)!FinanceAssumption

\* What the rows of invoices, payments and reports look like.
LEMMA BookShapes ==
    ASSUME NEW CONSTANT c
    PROVE  /\ Book(c)!Absent = Gone /\ Book(c)!Idle = [step |-> 0]
           /\ \A x \in BookInvoice(c) : x # Gone
           /\ \A x \in BookPaying(c) \cup Statement(c) : x.step # 0 /\ x # Book(c)!Idle
BY DEF BookInvoice, BookPaying, Statement, Gone, Book!Absent, Book!Idle

\* The invariant holds at the start.
LEMMA BookInit == ASSUME NEW CONSTANT c, Book(c)!Init PROVE BookInv(c)
<1>1. Book(c)!Rows(invoices) = {}
  BY DEF Book!Init, Book!Rows
<1>2. BookTypes(c)
  BY <1>1, BookShapes, FS_EmptySet DEF Book!Init, BookTypes
<1>3. FiguresSeen(c)
  BY DEF Book!Init, FiguresSeen
<1> QED
  BY <1>2, <1>3 DEF BookInv

\* Rows that are added or paid leave every figure read so far what it is.
LEMMA FiguresStay ==
    ASSUME NEW CONSTANT c, BookInv(c), report' = report,
           \A i \in Book(c)!Rows(invoices) :
             /\ i \in Book(c)!Rows(invoices')
             /\ invoices'[i].kind = invoices[i].kind /\ invoices'[i].total = invoices[i].total
             /\ invoices'[i].date = invoices[i].date
    PROVE  FiguresSeen(c)'
<1>1. SUFFICES ASSUME report # Book(c)!Idle PROVE FiguresSeen(c)'
  BY DEF FiguresSeen
<1>2. /\ Book(c)!ValidPeriod(report.period) /\ report.began \subseteq Book(c)!Rows(invoices)
      /\ report.step > 1 => Shown(c, "sales", report.income)
      /\ report.step > 2 => Shown(c, "purchase", report.expense)
      /\ report.step > 3 => Counted(c, "sales", report.sales)
      /\ report.step > 4 => Counted(c, "purchase", report.purchases)
  BY <1>1 DEF BookInv, FiguresSeen
<1>3. ASSUME NEW kind PROVE \A S \in SeenSets(c, kind) : S \in SeenSets(c, kind)' /\ Book(c)!Sum(S)' = Book(c)!Sum(S)
  <2>1. ASSUME NEW S \in SUBSET Book(c)!Rows(invoices)
        PROVE  InMonths(c, S, kind)' = InMonths(c, S, kind)
    BY <2>1 DEF InMonths
  <2>2. ASSUME NEW S \in SeenSets(c, kind) PROVE S \in SUBSET Book(c)!Rows(invoices)
    BY DEF SeenSets, InMonths
  <2>3. ASSUME NEW S \in SeenSets(c, kind) PROVE S \in SeenSets(c, kind)'
    <3>1. S \in SUBSET InMonths(c, Book(c)!Rows(invoices), kind) /\ InMonths(c, report.began, kind) \subseteq S
      BY DEF SeenSets
    <3>2. S \in SUBSET InMonths(c, Book(c)!Rows(invoices), kind)'
      BY <3>1 DEF InMonths
    <3>3. InMonths(c, report.began, kind)' = InMonths(c, report.began, kind)
      BY <1>2, <2>1
    <3> QED
      BY <3>1, <3>2, <3>3 DEF SeenSets
  <2>4. ASSUME NEW S \in SeenSets(c, kind) PROVE Book(c)!Sum(S)' = Book(c)!Sum(S)
    <3>1. [i \in S |-> invoices'[i].total] = [i \in S |-> invoices[i].total]
      BY <2>2
    <3> QED
      BY <3>1 DEF Book!Sum
  <2> QED
    BY <2>3, <2>4
<1>4. \A kind, v : (Shown(c, kind, v) => Shown(c, kind, v)') /\ (Counted(c, kind, v) => Counted(c, kind, v)')
  BY <1>3 DEF Shown, Counted
<1>5. report.began \subseteq Book(c)!Rows(invoices')
  BY <1>2
<1>6. Book(c)!ValidPeriod(report.period)'
  BY <1>2 DEF Book!ValidPeriod, Book!MonthStart, Book!MonthEnd
<1> QED
  BY <1>2, <1>4, <1>5, <1>6 DEF FiguresSeen

\* A change of one row that keeps its kind, total and date, or adds it.
LEMMA BookRowStep ==
    ASSUME NEW CONSTANT c, Kept(c), BookInv(c), NEW i \in c.invoices, NEW x \in BookInvoice(c),
           invoices' = [invoices EXCEPT ![i] = x], report' = report,
           txn' \in [Workers -> BookPaying(c) \cup {Book(c)!Idle}],
           \A w \in Workers : txn'[w] # Book(c)!Idle => txn[w] = txn'[w],
           invoices[i] # Gone =>
             x.kind = invoices[i].kind /\ x.total = invoices[i].total /\ x.date = invoices[i].date
    PROVE  BookInv(c)'
<1>1. BookTypes(c)
  BY DEF BookInv
<1>2. Book(c)!Rows(invoices)' = Book(c)!Rows(invoices) \cup {i}
  BY <1>1, BookShapes DEF BookTypes, Book!Rows
<1>3. IsFiniteSet(Book(c)!Rows(invoices)')
  <2>1. IsFiniteSet(Book(c)!Rows(invoices) \cup {i})
    BY <1>1, FS_AddElement DEF BookTypes
  <2> QED
    BY <1>2, <2>1
<1>4. \A j \in c.invoices : invoices[j] # Gone => invoices'[j] # Gone
  BY <1>1, BookShapes DEF BookTypes
<1>5. BookTypes(c)'
  <2>1. invoices' \in [c.invoices -> BookInvoice(c) \cup {Gone}]
    BY <1>1 DEF BookTypes
  <2>2. ASSUME NEW w \in Workers, txn'[w] # Book(c)!Idle PROVE invoices'[txn'[w].invoice] # Gone
    <3>1. txn[w] = txn'[w] /\ txn[w].invoice \in c.invoices
      BY <1>1, <2>2 DEF BookTypes, BookPaying
    <3> QED
      BY <1>1, <1>4, <2>2, <3>1 DEF BookTypes
  <2>3. report' \in Statement(c) \cup {Book(c)!Idle}
    BY <1>1 DEF BookTypes
  <2> QED
    BY <1>3, <2>1, <2>2, <2>3 DEF BookTypes, Book!Idle
<1>6. ASSUME NEW j \in Book(c)!Rows(invoices)
      PROVE  /\ j \in Book(c)!Rows(invoices')
             /\ invoices'[j].kind = invoices[j].kind /\ invoices'[j].total = invoices[j].total
             /\ invoices'[j].date = invoices[j].date
  <2>1. j \in c.invoices /\ invoices[j] # Gone /\ j \in DOMAIN invoices'
    BY <1>1, BookShapes DEF BookTypes, Book!Rows
  <2>2. j \in Book(c)!Rows(invoices')
    BY <1>4, <2>1, BookShapes DEF Book!Rows
  <2>3. j # i => invoices'[j] = invoices[j]
    BY <1>1, <2>1 DEF BookTypes
  <2>4. j = i => invoices'[j] = x
    BY <1>1, <2>1 DEF BookTypes
  <2> QED
    BY <2>1, <2>2, <2>3, <2>4
<1>7. FiguresSeen(c)'
  BY <1>6, FiguresStay
<1> QED
  BY <1>5, <1>7 DEF BookInv

LEMMA BookCreateInvoice ==
    ASSUME NEW CONSTANT c, Kept(c), BookInv(c), NEW i \in c.invoices, Book(c)!CreateInvoice(i)
    PROVE  BookInv(c)'
<1>1. PICK k \in Book(c)!Kinds, n \in c.totals, d \in c.dates :
        invoices' = [invoices EXCEPT ![i] = [kind |-> k, total |-> n, paid |-> 0, date |-> d]]
  BY DEF Book!CreateInvoice
<1>2. PICK x \in BookInvoice(c) : x = [kind |-> k, total |-> n, paid |-> 0, date |-> d]
  <2>1. n \in Int /\ d \in Book(c)!Days
    BY DEF Kept, Book!FinanceAssumption
  <2>2. [kind |-> k, total |-> n, paid |-> 0, date |-> d] \in BookInvoice(c)
    BY <2>1 DEF BookInvoice
  <2> QED
    BY <2>2
<1>3. /\ invoices' = [invoices EXCEPT ![i] = x] /\ invoices[i] = Gone
      /\ UNCHANGED <<txn, report>>
  BY <1>1, <1>2, BookShapes DEF Book!CreateInvoice
<1>4. txn' \in [Workers -> BookPaying(c) \cup {Book(c)!Idle}]
  BY <1>3 DEF BookInv, BookTypes
<1> QED
  BY <1>3, <1>4, BookRowStep

\* A step of a request that leaves invoices and reports alone.
LEMMA BookWorkStep ==
    ASSUME NEW CONSTANT c, BookInv(c), UNCHANGED <<invoices, report>>, NEW w \in Workers,
           NEW t \in BookPaying(c) \cup {Book(c)!Idle}, txn' = [txn EXCEPT ![w] = t],
           t # Book(c)!Idle => invoices[t.invoice] # Gone
    PROVE  BookInv(c)'
<1>1. BookTypes(c)'
  BY DEF BookInv, BookTypes, Book!Rows, Book!Idle, Book!Absent
<1>2. \A i \in Book(c)!Rows(invoices) : i \in Book(c)!Rows(invoices')
  OBVIOUS
<1>3. FiguresSeen(c)'
  BY <1>2, FiguresStay
<1> QED
  BY <1>1, <1>3 DEF BookInv

LEMMA BookStartPayment ==
    ASSUME NEW CONSTANT c, Kept(c), BookInv(c), NEW w \in Workers, NEW i \in c.invoices,
           Book(c)!StartPayment(w, i)
    PROVE  BookInv(c)'
<1>1. PICK n \in c.amounts, t \in Book(c)!Types, k \in Book(c)!Kinds :
        /\ i \in Book(c)!OfKind(k)
        /\ txn' = [txn EXCEPT ![w] = [step |-> 1, invoice |-> i, kind |-> k, type |-> t,
                                      amount |-> n, paid |-> invoices[i].paid]]
  BY DEF Book!StartPayment
<1>2. invoices[i] # Gone
  BY <1>1, BookShapes DEF Book!OfKind, Book!Rows
<1>3. invoices[i].paid \in Int /\ n \in Int
  BY <1>2 DEF BookInv, BookTypes, BookInvoice, Kept, Book!FinanceAssumption
<1>4. PICK x \in BookPaying(c) : x = [step |-> 1, invoice |-> i, kind |-> k, type |-> t, amount |-> n,
                                      paid |-> invoices[i].paid]
  BY <1>3 DEF BookPaying
<1>5. UNCHANGED <<invoices, report>>
  BY DEF Book!StartPayment
<1> QED
  BY <1>1, <1>2, <1>4, <1>5, BookWorkStep

LEMMA BookCommitPayment ==
    ASSUME NEW CONSTANT c, Kept(c), BookInv(c), NEW w \in Workers, NEW p \in c.payments,
           Book(c)!CommitPayment(w, p)
    PROVE  BookInv(c)'
<1>1. PICK t : t = txn[w]
  OBVIOUS
<1>2. t \in BookPaying(c) /\ t.invoice \in c.invoices /\ invoices[t.invoice] # Gone
  BY <1>1 DEF Book!CommitPayment, BookInv, BookTypes, BookPaying
<1>3. PICK x \in BookInvoice(c) : x = [invoices[t.invoice] EXCEPT !.paid = t.paid + t.amount]
  <2>1. invoices[t.invoice] \in BookInvoice(c)
    BY <1>2 DEF BookInv, BookTypes
  <2>2. t.paid + t.amount \in Int
    BY <1>2 DEF BookPaying
  <2>3. PICK n \in Int : n = t.paid + t.amount
    BY <2>2
  <2>4. [invoices[t.invoice] EXCEPT !.paid = n] \in BookInvoice(c)
    BY <2>1 DEF BookInvoice
  <2> QED
    BY <2>3, <2>4
<1>4. invoices' = [invoices EXCEPT ![t.invoice] = x]
  BY <1>1, <1>3 DEF Book!CommitPayment
<1>5. x.kind = invoices[t.invoice].kind /\ x.total = invoices[t.invoice].total /\ x.date = invoices[t.invoice].date
  BY <1>2, <1>3 DEF BookInv, BookTypes, BookInvoice
<1>6. txn' = [txn EXCEPT ![w] = Book(c)!Idle] /\ report' = report
  BY DEF Book!CommitPayment
<1>7. /\ txn' \in [Workers -> BookPaying(c) \cup {Book(c)!Idle}]
      /\ \A v \in Workers : txn'[v] # Book(c)!Idle => txn[v] = txn'[v]
  BY <1>6 DEF BookInv, BookTypes
<1> QED
  BY <1>2, <1>4, <1>5, <1>6, <1>7, BookRowStep

\* What a statement of the report selects are the invoices of its months.
LEMMA BookSelected ==
    ASSUME NEW CONSTANT c, Kept(c), BookInv(c), report # Book(c)!Idle, NEW kind
    PROVE  /\ Book(c)!InPeriod(kind) \in SeenSets(c, kind)
           /\ IsFiniteSet(Book(c)!InPeriod(kind))
           /\ Book(c)!Sum(Book(c)!InPeriod(kind)) \in Int
           /\ Cardinality(Book(c)!InPeriod(kind)) \in Int
<1> DEFINE R == Book(c)!Rows(invoices)
<1>1. \A i \in R : i \in c.invoices /\ invoices[i] \in BookInvoice(c)
  BY BookShapes DEF BookInv, BookTypes, Book!Rows
<1>2. /\ report.period \in Int \X Int \X Int /\ Book(c)!ValidPeriod(report.period)
      /\ report.began \subseteq R
  BY DEF BookInv, BookTypes, FiguresSeen, Statement
<1>3. PICK P : P = Book(c)!InPeriod(kind)
  OBVIOUS
<1>4. P = InMonths(c, R, kind)
  <2>1. \A i \in R : Book(c)!Within(invoices[i].date, report.period) <=>
          /\ invoices[i].date[1] = report.period[1]
          /\ invoices[i].date[2] \in Book(c)!MonthStart(report.period)..Book(c)!MonthEnd(report.period)
    <3>1. \A i \in R : invoices[i].date \in Book(c)!Days
      BY <1>1 DEF BookInvoice
    <3> HIDE DEF R
    <3> QED
      BY <1>2, <3>1, WithinPeriod
  <2> QED
    BY <1>3, <2>1 DEF Book!InPeriod, Book!OfKind, InMonths
<1>5. P \in SeenSets(c, kind)
  BY <1>2, <1>4 DEF SeenSets, InMonths
<1>6. IsFiniteSet(P)
  <2>1. P \in SUBSET R /\ IsFiniteSet(R)
    BY <1>4 DEF InMonths, BookInv, BookTypes
  <2> QED
    BY <2>1, FS_Subset
<1>7. Book(c)!Sum(P) \in Int
  <2>1. PICK f : f = [i \in P |-> invoices[i].total]
    OBVIOUS
  <2>2. \A i \in P : f[i] \in Int
    BY <1>1, <1>4, <2>1 DEF InMonths, BookInvoice
  <2>3. SumFunctionOnSet(f, P) \in Int
    BY <1>6, <2>2, SumInt
  <2> QED
    BY <2>1, <2>3, BookSums DEF Book!Sum
<1>8. Cardinality(P) \in Int
  BY <1>6, FS_CardinalityType
<1> QED
  BY <1>3, <1>5, <1>6, <1>7, <1>8

\* Statements read one figure after the other.
LEMMA BookReport ==
    ASSUME NEW CONSTANT c, Kept(c), BookInv(c), UNCHANGED <<invoices, txn>>,
           \/ Book(c)!StartReport \/ Book(c)!ReadIncome \/ Book(c)!ReadExpense
           \/ Book(c)!CountSales \/ Book(c)!CountPurchases \/ Book(c)!EndReport
    PROVE  BookInv(c)'
<1>1. Book(c)!Rows(invoices)' = Book(c)!Rows(invoices)
  BY DEF Book!Rows
<1>2. ASSUME report' \in Statement(c) \cup {Book(c)!Idle} PROVE BookTypes(c)'
  BY <1>1, <1>2 DEF BookInv, BookTypes, Book!Idle
<1>3. CASE Book(c)!StartReport
  <2>1. PICK p \in c.periods :
          /\ Book(c)!ValidPeriod(p)
          /\ report' = [step |-> 1, period |-> p, began |-> Book(c)!Rows(invoices),
                        income |-> 0, expense |-> 0, sales |-> 0, purchases |-> 0]
    BY <1>3 DEF Book!StartReport
  <2>2. p \in Int \X Int \X Int
    BY DEF Kept, Book!FinanceAssumption
  <2>3. Book(c)!Rows(invoices) \in SUBSET c.invoices
    BY DEF BookInv, BookTypes, Book!Rows
  <2>4. report' \in Statement(c)
    BY <2>1, <2>2, <2>3 DEF Statement
  <2>5. /\ Book(c)!ValidPeriod(report'.period) /\ report'.began \subseteq Book(c)!Rows(invoices)
        /\ ~(report'.step > 1) /\ ~(report'.step > 2) /\ ~(report'.step > 3) /\ ~(report'.step > 4)
    BY <2>1
  <2>6. Book(c)!ValidPeriod(report.period)'
    BY <2>5 DEF Book!ValidPeriod, Book!MonthStart, Book!MonthEnd
  <2>7. FiguresSeen(c)'
    BY <1>1, <2>5, <2>6 DEF FiguresSeen
  <2> QED
    BY <1>2, <2>4, <2>7 DEF BookInv
<1>4. CASE Book(c)!EndReport
  BY <1>2, <1>4 DEF Book!EndReport, FiguresSeen, BookInv, Book!Idle
<1>5. ASSUME report # Book(c)!Idle, report' \in Statement(c),
             report'.period = report.period, report'.began = report.began
      PROVE  /\ \A kind, v : Shown(c, kind, v)' <=> Shown(c, kind, v)
             /\ \A kind, v : Counted(c, kind, v)' <=> Counted(c, kind, v)
             /\ Book(c)!ValidPeriod(report.period)' /\ report'.began \subseteq Book(c)!Rows(invoices)'
             /\ BookTypes(c)'
  <2>1. \A kind : SeenSets(c, kind)' = SeenSets(c, kind)
    BY <1>1, <1>5 DEF SeenSets, InMonths, Book!MonthStart, Book!MonthEnd
  <2>2. \A S : Book(c)!Sum(S)' = Book(c)!Sum(S)
    BY DEF Book!Sum
  <2>3. Book(c)!ValidPeriod(report.period)'
    BY <1>5 DEF BookInv, FiguresSeen, Book!ValidPeriod, Book!MonthStart, Book!MonthEnd
  <2> QED
    BY <1>1, <1>2, <1>5, <2>1, <2>2, <2>3 DEF Shown, Counted, BookInv, FiguresSeen
<1>6. ASSUME NEW v, v \in Int, report # Book(c)!Idle, NEW field \in {"income", "expense", "sales", "purchases"},
             report.step \in 1..4, Book(c)!ReadNext(field, v)
      PROVE  /\ report' \in Statement(c) /\ report'.period = report.period /\ report'.began = report.began
             /\ report'.step = report.step + 1 /\ report'[field] = v
             /\ \A g \in {"income", "expense", "sales", "purchases"} : g # field => report'[g] = report[g]
  <2>1. report \in Statement(c)
    BY <1>6 DEF BookInv, BookTypes
  <2>2. report' = [report EXCEPT !.step = @ + 1, ![field] = v]
    BY <1>6 DEF Book!ReadNext
  <2>3. PICK n \in 1..5 : n = report.step + 1
    BY <1>6
  <2>4. report' = [report EXCEPT !.step = n, ![field] = v]
    BY <2>2, <2>3
  <2>5. CASE field = "income"
    BY <1>6, <2>1, <2>3, <2>4, <2>5 DEF Statement
  <2>6. CASE field = "expense"
    BY <1>6, <2>1, <2>3, <2>4, <2>6 DEF Statement
  <2>7. CASE field = "sales"
    BY <1>6, <2>1, <2>3, <2>4, <2>7 DEF Statement
  <2>8. CASE field = "purchases"
    BY <1>6, <2>1, <2>3, <2>4, <2>8 DEF Statement
  <2> QED
    BY <1>6, <2>5, <2>6, <2>7, <2>8
<1>7. report # Book(c)!Idle =>
        /\ report.step > 1 => Shown(c, "sales", report.income)
        /\ report.step > 2 => Shown(c, "purchase", report.expense)
        /\ report.step > 3 => Counted(c, "sales", report.sales)
        /\ report.step > 4 => Counted(c, "purchase", report.purchases)
  BY DEF BookInv, FiguresSeen
<1>8. \A kind : report # Book(c)!Idle =>
        /\ Shown(c, kind, Book(c)!Sum(Book(c)!InPeriod(kind)))
        /\ Counted(c, kind, Cardinality(Book(c)!InPeriod(kind)))
  BY BookSelected DEF Shown, Counted
<1>9. CASE Book(c)!ReadIncome
  <2>1. PICK v : v = Book(c)!Sum(Book(c)!InPeriod("sales"))
    OBVIOUS
  <2>2. report.step = 1 /\ Book(c)!ReadNext("income", v) /\ report # Book(c)!Idle
    BY <1>9, <2>1, BookShapes DEF Book!ReadIncome
  <2>3. v \in Int /\ Shown(c, "sales", v)
    BY <1>8, <2>1, <2>2, BookSelected
  <2>4. /\ report' \in Statement(c) /\ report'.period = report.period /\ report'.began = report.began
        /\ report'.step = 2 /\ report'.income = v
    BY <1>6, <2>2, <2>3
  <2> QED
    BY <1>5, <2>2, <2>3, <2>4 DEF BookInv, FiguresSeen
<1>10. CASE Book(c)!ReadExpense
  <2>1. PICK v : v = Book(c)!Sum(Book(c)!InPeriod("purchase"))
    OBVIOUS
  <2>2. report.step = 2 /\ Book(c)!ReadNext("expense", v) /\ report # Book(c)!Idle
    BY <1>10, <2>1, BookShapes DEF Book!ReadExpense
  <2>3. v \in Int /\ Shown(c, "purchase", v)
    BY <1>8, <2>1, <2>2, BookSelected
  <2>4. /\ report' \in Statement(c) /\ report'.period = report.period /\ report'.began = report.began
        /\ report'.step = 3 /\ report'.expense = v /\ report'.income = report.income
    BY <1>6, <2>2, <2>3
  <2> QED
    BY <1>5, <1>7, <2>2, <2>3, <2>4 DEF BookInv, FiguresSeen
<1>11. CASE Book(c)!CountSales
  <2>1. PICK v : v = Cardinality(Book(c)!InPeriod("sales"))
    OBVIOUS
  <2>2. report.step = 3 /\ Book(c)!ReadNext("sales", v) /\ report # Book(c)!Idle
    BY <1>11, <2>1, BookShapes DEF Book!CountSales, Book!Cardinality, Cardinality
  <2>3. v \in Int /\ Counted(c, "sales", v)
    BY <1>8, <2>1, <2>2, BookSelected
  <2>4. /\ report' \in Statement(c) /\ report'.period = report.period /\ report'.began = report.began
        /\ report'.step = 4 /\ report'.sales = v
        /\ report'.income = report.income /\ report'.expense = report.expense
    BY <1>6, <2>2, <2>3
  <2> QED
    BY <1>5, <1>7, <2>2, <2>3, <2>4 DEF BookInv, FiguresSeen
<1>12. CASE Book(c)!CountPurchases
  <2>1. PICK v : v = Cardinality(Book(c)!InPeriod("purchase"))
    OBVIOUS
  <2>2. report.step = 4 /\ Book(c)!ReadNext("purchases", v) /\ report # Book(c)!Idle
    BY <1>12, <2>1, BookShapes DEF Book!CountPurchases, Book!Cardinality, Cardinality
  <2>3. v \in Int /\ Counted(c, "purchase", v)
    BY <1>8, <2>1, <2>2, BookSelected
  <2>4. /\ report' \in Statement(c) /\ report'.period = report.period /\ report'.began = report.began
        /\ report'.step = 5 /\ report'.purchases = v /\ report'.sales = report.sales
        /\ report'.income = report.income /\ report'.expense = report.expense
    BY <1>6, <2>2, <2>3
  <2> QED
    BY <1>5, <1>7, <2>2, <2>3, <2>4 DEF BookInv, FiguresSeen
<1> QED
  BY <1>3, <1>4, <1>9, <1>10, <1>11, <1>12

\* Every step of Finance keeps the figures of a report what they are.
LEMMA BookStep ==
    ASSUME NEW CONSTANT c, Kept(c), BookInv(c),
           Book(c)!Next \/ UNCHANGED <<invoices, payments, txn, report>>
    PROVE  BookInv(c)'
<1>1. ASSUME UNCHANGED <<invoices, txn, report>> PROVE BookInv(c)'
  <2>1. BookTypes(c)'
    BY <1>1 DEF BookInv, BookTypes, Book!Rows, Book!Idle, Book!Absent
  <2>2. \A i \in Book(c)!Rows(invoices) : i \in Book(c)!Rows(invoices')
    BY <1>1
  <2>3. FiguresSeen(c)'
    BY <1>1, <2>2, FiguresStay
  <2> QED
    BY <2>1, <2>3 DEF BookInv
<1>2. ASSUME NEW w \in Workers, Book(c)!Rollback(w) PROVE BookInv(c)'
  BY <1>2, BookWorkStep DEF Book!Rollback
<1>3. ASSUME \/ Book(c)!StartReport \/ Book(c)!ReadIncome \/ Book(c)!ReadExpense
             \/ Book(c)!CountSales \/ Book(c)!CountPurchases \/ Book(c)!EndReport
      PROVE  BookInv(c)'
  <2>1. UNCHANGED <<invoices, txn>>
    BY <1>3
    DEF Book!StartReport, Book!ReadIncome, Book!ReadExpense, Book!CountSales, Book!CountPurchases,
        Book!EndReport, Book!ReadNext
  <2> QED
    BY <1>3, <2>1, BookReport
<1> QED
  BY <1>1, <1>2, <1>3, BookCreateInvoice, BookStartPayment, BookCommitPayment
  DEF Book!Next, Book!Read, Book!vars

\* A finished report shows invoices of its months.
LEMMA BookCovered == ASSUME NEW CONSTANT c, BookInv(c) PROVE Book(c)!ReportCovers
<1>1. SUFFICES ASSUME report.step = 5 PROVE Book(c)!ReportCovers
  BY DEF Book!ReportCovers
<1>2. report # Book(c)!Idle
  BY <1>1, BookShapes
<1>3. /\ Shown(c, "sales", report.income) /\ Shown(c, "purchase", report.expense)
      /\ Counted(c, "sales", report.sales) /\ Counted(c, "purchase", report.purchases)
  BY <1>1, <1>2 DEF BookInv, FiguresSeen
<1> QED
  BY <1>3 DEF Book!ReportCovers, Shown, Counted, SeenSets, InMonths, Book!Cardinality, Cardinality

\* Whatever an invoice has open is in one bucket, or to be returned.
LEMMA BookAged == ASSUME NEW CONSTANT c, BookInv(c) PROVE Book(c)!BalanceIsAged
<1> DEFINE B == {"0-30", "31-60", "61-90", "90+"}
           C == B \cup {"credit"}
           M == C \cup {"even"}
<1>1. IsFiniteSet(B) /\ IsFiniteSet(C) /\ IsFiniteSet(M) /\ "credit" \notin B /\ "even" \notin C
  <2>1. PICK B1, B2, B3 : B1 = {"0-30"} /\ B2 = B1 \cup {"31-60"} /\ B3 = B2 \cup {"61-90"}
    OBVIOUS
  <2>2. IsFiniteSet(B)
    <3>1. B = B3 \cup {"90+"} /\ B1 = {} \cup {"0-30"}
      BY <2>1
    <3> HIDE DEF B
    <3>2. IsFiniteSet(B1)
      BY <3>1, FS_EmptySet, FS_AddElement
    <3>3. IsFiniteSet(B2)
      BY <2>1, <3>2, FS_AddElement
    <3>4. IsFiniteSet(B3)
      BY <2>1, <3>3, FS_AddElement
    <3> QED
      BY <3>1, <3>4, FS_AddElement
  <2>3. IsFiniteSet(C)
    BY <2>2, FS_AddElement
  <2> QED
    BY <2>2, <2>3, FS_AddElement
<1>2. SUFFICES ASSUME NEW k \in Book(c)!Kinds
      PROVE  Book(c)!UnpaidTotal(k) =
               SumFunctionOnSet([u \in B |-> Book(c)!Aging(k)[u].amount], B)
                 + Book(c)!DueSum({i \in Book(c)!OfKind(k) : invoices[i].total < invoices[i].paid})
  BY BookSums DEF Book!BalanceIsAged, Book!Aging
<1> DEFINE U == Book(c)!OfKind(k)
           f == [i \in U |-> Book(c)!Due(i)]
           h == [i \in U |-> IF invoices[i].total > invoices[i].paid THEN Book(c)!Bucket(Book(c)!Age(i))
                             ELSE IF invoices[i].total < invoices[i].paid THEN "credit" ELSE "even"]
           K == [m \in M |-> {i \in U : h[i] = m}]
           e == [m \in M |-> SumFunctionOnSet(f, K[m])]
<1>3. \A i \in U : invoices[i].total \in Int /\ invoices[i].paid \in Int
  BY BookShapes DEF BookInv, BookTypes, BookInvoice, Book!OfKind, Book!Rows
<1>4. IsFiniteSet(U)
  BY FS_Subset DEF BookInv, BookTypes, Book!OfKind
<1>5. \A i \in U : f[i] \in Int /\ f[i] = invoices[i].total - invoices[i].paid /\ h[i] \in M
  BY <1>3 DEF Book!Due, Book!Bucket
<1>6. Classified(U, M, h, K) /\ ClassSums(M, f, K, e)
  BY DEF Classified, ClassSums
<1>7. ASSUME NEW S \in SUBSET U
      PROVE  Book(c)!DueSum(S) = SumFunctionOnSet(f, S) /\ SumFunctionOnSet(f, S) \in Int
  <2>1. PICK g : g = [i \in S |-> Book(c)!Due(i)]
    OBVIOUS
  <2>2. IsFiniteSet(S) /\ \A i \in S : f[i] \in Int /\ g[i] = f[i]
    BY <1>4, <1>5, <2>1, FS_Subset
  <2> HIDE DEF f
  <2>3. SumFunctionOnSet(f, S) = SumFunctionOnSet(g, S) /\ SumFunctionOnSet(f, S) \in Int
    BY <2>2, SumCongruent, SumInt
  <2> QED
    BY <2>1, <2>3, BookSums DEF Book!DueSum
<1>8. /\ \A u \in B : K[u] = {i \in Book(c)!Unpaid(k) : Book(c)!Bucket(Book(c)!Age(i)) = u}
      /\ K["credit"] = {i \in U : invoices[i].total < invoices[i].paid}
      /\ \A i \in K["even"] : i \in U /\ ~(invoices[i].total > invoices[i].paid)
                               /\ ~(invoices[i].total < invoices[i].paid)
      /\ \A m \in M : K[m] \in SUBSET U
  <2>1. \A i : Book(c)!Bucket(Book(c)!Age(i)) \in B
    BY DEF Book!Bucket
  <2>2. ASSUME NEW m \in M PROVE K[m] = {i \in U : h[i] = m}
    OBVIOUS
  <2>3. /\ "credit" \in M /\ "even" \in M /\ "credit" # "even"
        /\ \A u \in B : u \in M /\ u # "credit" /\ u # "even"
    OBVIOUS
  <2>4. \A i \in U : h[i] = IF invoices[i].total > invoices[i].paid THEN Book(c)!Bucket(Book(c)!Age(i))
                            ELSE IF invoices[i].total < invoices[i].paid THEN "credit" ELSE "even"
    OBVIOUS
  <2>5. Book(c)!Unpaid(k) = {i \in U : invoices[i].total > invoices[i].paid}
    BY DEF Book!Unpaid
  <2> HIDE DEF B, C, M, U, f, h, K, e
  <2>6. ASSUME NEW u \in B
        PROVE  K[u] = {i \in Book(c)!Unpaid(k) : Book(c)!Bucket(Book(c)!Age(i)) = u}
    BY <2>2, <2>3, <2>4, <2>5
  <2>7. K["credit"] = {i \in U : invoices[i].total < invoices[i].paid}
    <3>1. \A i \in U : h[i] = "credit" <=> invoices[i].total < invoices[i].paid
      BY <1>3, <2>1, <2>3, <2>4 DEF U
    <3> QED
      BY <2>2, <2>3, <3>1
  <2>8. \A i \in K["even"] : i \in U /\ ~(invoices[i].total > invoices[i].paid)
                               /\ ~(invoices[i].total < invoices[i].paid)
    BY <2>1, <2>2, <2>3, <2>4
  <2>9. \A m \in M : K[m] \in SUBSET U
    BY <2>2
  <2> QED
    BY <2>6, <2>7, <2>8, <2>9
<1>9. \A m \in M : e[m] = SumFunctionOnSet(f, K[m]) /\ e[m] \in Int /\ e[m] = Book(c)!DueSum(K[m])
  BY <1>7, <1>8
<1>10. \A u \in B : e[u] = Book(c)!Aging(k)[u].amount
  BY <1>8, <1>9 DEF Book!Aging
<1>11. e["even"] = 0
  <2>1. ASSUME NEW i \in K["even"] PROVE f[i] = 0
    <3> HIDE DEF K, f, U
    <3>1. i \in U /\ invoices[i].total \in Int /\ invoices[i].paid \in Int
      BY <1>3, <1>8
    <3> QED
      BY <1>5, <1>8, <3>1
  <2>2. IsFiniteSet(K["even"])
    BY <1>4, <1>8, FS_Subset
  <2> HIDE DEF f, K, e
  <2>3. SumFunctionOnSet(f, K["even"]) = 0
    BY <2>1, <2>2, SumZero
  <2> QED
    BY <1>9, <2>3
<1>12. Book(c)!UnpaidTotal(k) = SumFunctionOnSet(f, U)
  BY <1>7 DEF Book!UnpaidTotal
<1>13. Book(c)!DueSum({i \in U : invoices[i].total < invoices[i].paid}) = e["credit"]
  BY <1>8, <1>9
<1>14. PICK r : r = [u \in B |-> Book(c)!Aging(k)[u].amount]
  OBVIOUS
<1>15. \A u \in B : e[u] \in Int /\ r[u] = e[u]
  BY <1>9, <1>10, <1>14
<1> HIDE DEF U, f, h, K, e
<1>16. SumFunctionOnSet(e, M) = SumFunctionOnSet(f, U)
  <2> HIDE DEF M
  <2> QED
    BY <1>1, <1>4, <1>5, <1>6, SumPartition
<1>17. SumFunctionOnSet(e, M) = e["even"] + SumFunctionOnSet(e, C)
  <2>1. \A m \in C : e[m] \in Int
    BY <1>9
  <2>2. e["even"] \in Int
    BY <1>9
  <2> HIDE DEF C
  <2> QED
    BY <1>1, <2>1, <2>2, SumAdd
<1>18. SumFunctionOnSet(e, C) = e["credit"] + SumFunctionOnSet(e, B)
  <2>1. e["credit"] \in Int
    BY <1>9
  <2> HIDE DEF B
  <2> QED
    BY <1>1, <1>15, <2>1, SumAdd
<1>19. SumFunctionOnSet(e, B) = SumFunctionOnSet(r, B) /\ SumFunctionOnSet(e, B) \in Int
  <2> HIDE DEF B
  <2> QED
    BY <1>1, <1>15, SumCongruent, SumInt
<1>20. e["credit"] \in Int
  BY <1>9
<1>21. Book(c)!UnpaidTotal(k) = SumFunctionOnSet(r, B) + e["credit"]
  BY <1>11, <1>12, <1>16, <1>17, <1>18, <1>19, <1>20
<1> QED
  BY <1>13, <1>14, <1>21 DEF U

-----------------------------------------------------------------------------
(* The components side by side. *)

TradeInv ==
    /\ part = "receive" => BuyInv(Receiving)
    /\ part = "return" => BuyInv(Returning)
    /\ part = "deliver" => SellInv(Delivery)
    /\ part = "deliver_new" => SellInv(FirstDelivery)
    /\ part = "deliver_line" => SellInv(LineDelivery)
    /\ part = "pay" => PayInv
    /\ part = "income" => BookInv(Stating)
    /\ part = "aging" => BookInv(Ageing)

\* The instances of the harness satisfy the assumptions of their modules.
LEMMA Assumed ==
    /\ Bought(Receiving) /\ Bought(Returning)
    /\ Sold(Delivery) /\ Sold(FirstDelivery) /\ Sold(LineDelivery)
    /\ Kept(Stating) /\ Kept(Ageing)
BY TradeAssumption DEF TradeAssumption, Bought, Sold, Kept

\* The inductive invariant of the three components: what is open still has
\* its locks, every total is the sum of what was posted, and a report has
\* read invoices of its months.
THEOREM TradeInvariant == TradeSpec => []TradeInv
<1>1. TradeInit => TradeInv
  <2>1. SUFFICES ASSUME TradeInit PROVE TradeInv
    OBVIOUS
  <2>2. part \in {"receive", "return", "deliver", "deliver_new", "deliver_line", "pay", "income", "aging"}
    BY <2>1 DEF TradeInit
  <2>3. CASE part = "receive"
    BY <2>1, <2>3, Assumed, BuyInit DEF TradeInit, TradeInv
  <2>4. CASE part = "return"
    BY <2>1, <2>4, Assumed, BuyInit DEF TradeInit, TradeInv
  <2>5. CASE part = "deliver"
    BY <2>1, <2>5, Assumed, SellInit DEF TradeInit, TradeInv
  <2>10. CASE part = "deliver_new"
    BY <2>1, <2>10, Assumed, SellInit DEF TradeInit, TradeInv
  <2>6. CASE part = "deliver_line"
    BY <2>1, <2>6, Assumed, SellInit DEF TradeInit, TradeInv
  <2>7. CASE part = "pay"
    BY <2>1, <2>7, PayInvInit DEF TradeInit, TradeInv
  <2>8. CASE part = "income"
    BY <2>1, <2>8, BookInit DEF TradeInit, TradeInv
  <2>9. CASE part = "aging"
    BY <2>1, <2>9, BookInit DEF TradeInit, TradeInv
  <2> QED
    BY <2>2, <2>3, <2>4, <2>5, <2>6, <2>7, <2>8, <2>9, <2>10 DEF TradeInv
<1>2. TradeInv /\ [TradeNext]_vAll => TradeInv'
  <2>1. SUFFICES ASSUME TradeInv, [TradeNext]_vAll PROVE TradeInv'
    OBVIOUS
  <2>2. part' = part
    BY <2>1 DEF TradeNext, vAll
  <2>3. ASSUME part = "receive" PROVE BuyInv(Receiving)'
    <3>1. BuyInv(Receiving) /\ (Buy(Receiving)!Next \/ UNCHANGED <<orders, receipts, returns, invoices, stock, trail, txn>>)
      BY <2>1, <2>3 DEF TradeInv, TradeNext, vAll, vPurchase, vDocuments
    <3> QED
      BY <3>1, Assumed, BuyStep
  <2>4. ASSUME part = "return" PROVE BuyInv(Returning)'
    <3>1. BuyInv(Returning) /\ (Buy(Returning)!Next \/ UNCHANGED <<orders, receipts, returns, invoices, stock, trail, txn>>)
      BY <2>1, <2>4 DEF TradeInv, TradeNext, vAll, vPurchase, vDocuments
    <3> QED
      BY <3>1, Assumed, BuyStep
  <2>5. ASSUME part = "deliver" PROVE SellInv(Delivery)'
    <3>1. SellInv(Delivery) /\ (Sell(Delivery)!Next \/ UNCHANGED <<orders, deliveries, invoices, stock, trail, txn>>)
      BY <2>1, <2>5 DEF TradeInv, TradeNext, vAll, vDocuments
    <3> QED
      BY <3>1, Assumed, SellStep
  <2>10. ASSUME part = "deliver_new" PROVE SellInv(FirstDelivery)'
    <3>1. SellInv(FirstDelivery) /\ (Sell(FirstDelivery)!Next \/ UNCHANGED <<orders, deliveries, invoices, stock, trail, txn>>)
      BY <2>1, <2>10 DEF TradeInv, TradeNext, vAll, vDocuments
    <3> QED
      BY <3>1, Assumed, SellStep
  <2>6. ASSUME part = "deliver_line" PROVE SellInv(LineDelivery)'
    <3>1. SellInv(LineDelivery) /\ (Sell(LineDelivery)!Next \/ UNCHANGED <<orders, deliveries, invoices, stock, trail, txn>>)
      BY <2>1, <2>6 DEF TradeInv, TradeNext, vAll, vDocuments
    <3> QED
      BY <3>1, Assumed, SellStep
  <2>7. ASSUME part = "pay" PROVE PayInv'
    <3>1. PayInv /\ (Pay!Next \/ UNCHANGED <<invoices, payments, txn, report>>)
      BY <2>1, <2>7 DEF TradeInv, TradeNext, vAll, vFinance
    <3> QED
      BY <3>1, PayInvStep
  <2>8. ASSUME part = "income" PROVE BookInv(Stating)'
    <3>1. BookInv(Stating) /\ (Book(Stating)!Next \/ UNCHANGED <<invoices, payments, txn, report>>)
      BY <2>1, <2>8 DEF TradeInv, TradeNext, vAll, vFinance
    <3> QED
      BY <3>1, Assumed, BookStep
  <2>9. ASSUME part = "aging" PROVE BookInv(Ageing)'
    <3>1. BookInv(Ageing) /\ (Book(Ageing)!Next \/ UNCHANGED <<invoices, payments, txn, report>>)
      BY <2>1, <2>9 DEF TradeInv, TradeNext, vAll, vFinance
    <3> QED
      BY <3>1, Assumed, BookStep
  <2> QED
    BY <2>2, <2>3, <2>4, <2>5, <2>6, <2>7, <2>8, <2>9, <2>10 DEF TradeInv
<1> QED
  BY <1>1, <1>2, PTL DEF TradeSpec

\* An order line shows exactly what its receipts or deliveries posted, on
\* approved orders, whatever integers were ordered; once one of them names
\* it, it is not over what was ordered, and closed just when complete.
THEOREM LinesAsPostedHolds == TradeSpec => []LinesAsPosted
<1>1. TradeInv => LinesAsPosted
  BY Assumed, BuyTypeOK, BuyReceived, SellDelivered DEF TradeInv, LinesAsPosted
<1> QED
  BY <1>1, TradeInvariant, PTL

\* A row of inventories that was there from the start is what it was, plus
\* receipts, less returns and deliveries, whatever happens to rows that are
\* created; an approved return takes its goods out exactly once, and
\* deliveries leave nothing below zero.
THEOREM StockAsPostedHolds == TradeSpec => []StockAsPosted
<1>1. TradeInv => StockAsPosted
  BY Assumed, BuyStocked, SellTypeOK, SellDelivered DEF TradeInv, StockAsPosted
<1> QED
  BY <1>1, TradeInvariant, PTL

\* The change records of an order are a chain from its creation to its row.
THEOREM OrderHistoryHolds == TradeSpec => []OrderHistory
<1>1. TradeInv => OrderHistory
  BY BuyTold, SellTold DEF TradeInv, OrderHistory
<1> QED
  BY <1>1, TradeInvariant, PTL

\* paid_amount is the sum of the posted payments and never exceeds the total.
THEOREM PaidAsPostedHolds == TradeSpec => []PaidAsPosted
<1>1. TradeInv => PaidAsPosted
  BY PayInvBalances DEF TradeInv, PaidAsPosted
<1> QED
  BY <1>1, TradeInvariant, PTL

\* A report shows invoices of its months only, and all that were there when
\* it began; what is open of an invoice is in one bucket or to be returned.
THEOREM ReportsCoverHolds == TradeSpec => []ReportsCover
<1>1. TradeInv => ReportsCover
  BY BookCovered, BookAged DEF TradeInv, ReportsCover
<1> QED
  BY <1>1, TradeInvariant, PTL
=============================================================================
