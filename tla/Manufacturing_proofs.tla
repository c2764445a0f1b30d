-------------------------- MODULE Manufacturing_proofs ------------------------
(***************************************************************************)
(* Proofs about Production, Quality and Planning.  What a work order shows *)
(* as picked or completed is a sum over the ledger or over its reports,    *)
(* what an inspection order shows follows from its results, and what       *)
(* planning counts as coming or demanded is a sum over rows that appear    *)
(* one at a time, so that every sum is a finite one.  The invariants say   *)
(* so, and say of every open request what it may still rely on: the lines  *)
(* of a pick go on fitting its order, because the row is locked; the       *)
(* totals of a report without a transaction are still those of some first  *)
(* reports, because reports are only ever added; the BOM that a release    *)
(* has read is the one it writes, because its row is locked too.           *)
(***************************************************************************)
EXTENDS MCManufacturing, FiniteSets, Sequences, SequenceTheorems, SumLemmas, TLAPS

Gone == [row |-> "absent"]
Still == [op |-> "idle"]
Nothing == [row |-> "none"]

-----------------------------------------------------------------------------
(* Make: what the tables and the requests hold. *)

Places(c) == c.items \X c.warehouses
Material(c) == [item : c.items, required : Int, picked : Int]
Operation == [completed : Int, scrap : Int, status : {0, 2}]
WorkOrder(c) == [item : c.items, planned : Int, completed : Int, scrap : Int, status : 0..3,
                 materials : Seq(Material(c)), operations : [1..c.operations -> Operation]]
View == [status : 0..3, completed : Int, scrap : Int]
Movement(c) == [type : {"pick", "inbound"}, ref : c.orders \cup c.receipts,
                cell : c.items \X c.warehouses, quantity : Int]
Pick(c) == [material : 1..Make(c)!Max({Len(b) : b \in c.boms}), item : c.items,
            warehouse : c.warehouses, quantity : c.picks]
Pair == Int \X Int

Changing(c) == [op : {"release", "read_after", "complete"}, ref : c.orders, before : View]
Telling(c) == [op : {"record"}, ref : c.orders, before : View, after : View]
Counting(c) == [op : {"report", "sum"}, ref : c.orders, before : View, operation : Int, report : Pair]
Totalling(c) == [op : {"total", "read_after"}, ref : c.orders, before : View, totals : Pair]
\* A row of inventories never goes, so that no row of the start is ever missed.
Missing(c) == SUBSET (Places(c) \ DOMAIN c.opening)
Taking(c) == [op : {"pick"}, ref : c.orders, before : View, todo : Seq(Pick(c)), done : Seq(Pick(c)),
              missed : Missing(c)]
Storing(c) == [op : {"receipt"}, ref : c.orders, id : c.receipts, warehouse : c.warehouses, quantity : Int,
               missed : Missing(c)]
Requests(c) == Changing(c) \cup Telling(c) \cup Counting(c) \cup Totalling(c) \cup Taking(c) \cup Storing(c)

MakeTypes(c) ==
    /\ orders \in [c.orders -> WorkOrder(c) \cup {Gone}]
    /\ receipts = [r \in c.receipts |-> receipts[r]]
    /\ DOMAIN c.opening \subseteq DOMAIN stock /\ DOMAIN stock \subseteq Places(c)
    /\ stock \in [DOMAIN stock -> Int]
    /\ log \in Seq(Movement(c))
    /\ trail = [o \in c.orders |-> trail[o]]
    /\ reported \in [c.orders -> Seq(Pair)]
    /\ txn \in [Workers -> Requests(c) \cup {Still}]

OfMaterial(ls, m) == {k \in DOMAIN ls : ls[k].material = m}
OfCell(ls, p) == {k \in DOMAIN ls : <<ls[k].item, ls[k].warehouse>> = p}

\* What may be picked of a material: nothing, when the BOM asks for less.
Asked(n) == IF n >= 0 THEN n ELSE 0

\* The lines that a pick has done fit its order as it is now.
PicksFit(x) ==
    LET ms == orders[x.ref].materials IN
    /\ \A k \in DOMAIN x.done : x.done[k].material \in DOMAIN ms
    /\ \A m \in DOMAIN ms : ms[m].picked + Move(x.done, OfMaterial(x.done, m)) <= Asked(ms[m].required)

\* It has read, or missed, the rows of the cells that it takes from.
Found(x) ==
    \A k \in DOMAIN x.done : <<x.done[k].item, x.done[k].warehouse>> \in DOMAIN stock \cup x.missed

\* The sums of the first n reports.
Prefix(rs, n, j) == SumFunctionOnSet([k \in 1..n |-> rs[k][j]], 1..n)
Summed(o, p) == \E n \in 0..Len(reported[o]) : \A j \in {1, 2} : p[j] = Prefix(reported[o], n, j)

Locking(x) == x # Still /\ x.op \in {"pick", "complete", "receipt"}

Served(x) ==
    /\ orders[x.ref] # Gone
    /\ x.op = "pick" => PicksFit(x) /\ Found(x)
    /\ x.op = "total" => Summed(x.ref, x.totals)

MakeLocks(c) ==
    /\ \A w \in Workers : txn[w] # Still => Served(txn[w])
    /\ \A v, w \in Workers :
         Locking(txn[v]) /\ Locking(txn[w]) /\ txn[v].ref = txn[w].ref => v = w

\* What an order shows: the plan covers what is picked, the operations show
\* every report and the order some of the first.
Within(ms) == \A m \in DOMAIN ms : ms[m].picked <= Asked(ms[m].required)
OperationSum(ops, j) ==
    SumFunctionOnSet([k \in DOMAIN ops |-> IF j = 1 THEN ops[k].completed ELSE ops[k].scrap], DOMAIN ops)
MakeOrders(c) ==
    \A o \in c.orders :
      /\ orders[o] = Gone => reported[o] = <<>>
      /\ orders[o] # Gone =>
           /\ Within(orders[o].materials)
           /\ Summed(o, <<orders[o].completed, orders[o].scrap>>)
           /\ \A j \in {1, 2} :
                OperationSum(orders[o].operations, j) = Prefix(reported[o], Len(reported[o]), j)

PicksOf(ls, o) == {k \in DOMAIN ls : ls[k].type = "pick" /\ ls[k].ref = o}
Moves(ls, type, p) == {k \in DOMAIN ls : ls[k].type = type /\ ls[k].cell = p}
AllPicked(ms) == SumFunctionOnSet([m \in DOMAIN ms |-> ms[m].picked], DOMAIN ms)
MakeLedger(c) ==
    /\ \A k \in DOMAIN log : log[k].type = "pick" => log[k].ref \in c.orders /\ orders[log[k].ref] # Gone
    /\ \A o \in c.orders : orders[o] # Gone => AllPicked(orders[o].materials) = Move(log, PicksOf(log, o))
    /\ \A p \in DOMAIN c.opening :
         stock[p] = c.opening[p] + Move(log, Moves(log, "inbound", p)) - Move(log, Moves(log, "pick", p))

MakeInv(c) == MakeTypes(c) /\ MakeLocks(c) /\ MakeOrders(c) /\ MakeLedger(c)
Made(c) == Make(c)!ProductionAssumption

\* The sums of Production are those of SumLemmas.
LEMMA MakeMoved ==
    ASSUME NEW CONSTANT c
    PROVE  /\ \A f : Make(c)!Total(f) = SumFunctionOnSet(f, DOMAIN f)
           /\ \A ls, K : Make(c)!Moved(ls, K) = Move(ls, K)
<1>1. \A f, S : Make(c)!SumFunctionOnSet(f, S) = SumFunctionOnSet(f, S)
  BY DEF Make!SumFunctionOnSet, SumFunctionOnSet, Make!FoldFunctionOnSet, FoldFunctionOnSet,
         Make!MapThenFoldSet, MapThenFoldSet
<1> QED
  BY <1>1 DEF Make!Moved, Make!Total, Move

\* No reports add up to nothing.
LEMMA PrefixEmpty == ASSUME NEW rs PROVE \A j \in {1, 2} : Prefix(rs, 0, j) = 0
<1>1. 1..0 = {}
  OBVIOUS
<1> QED
  BY <1>1, SumEmpty DEF Prefix

\* The invariant holds at the start: there is no order, and the stock is what it was.
LEMMA MakeInit == ASSUME NEW CONSTANT c, Made(c), Make(c)!Init PROVE MakeInv(c)
<1> USE DEF Make!Init, Make!Absent, Make!Idle, Gone, Still
<1>1. MakeTypes(c)
  BY DEF MakeTypes, Made, Make!ProductionAssumption, Make!Cells, Places
<1>2. MakeLocks(c)
  BY DEF MakeLocks, Locking
<1>3. MakeOrders(c)
  BY DEF MakeOrders
<1>4. MakeLedger(c)
  <2>1. log = <<>> /\ DOMAIN log = {}
    OBVIOUS
  <2>2. \A p : Moves(log, "inbound", p) = {} /\ Moves(log, "pick", p) = {}
    BY <2>1 DEF Moves
  <2>3. \A p \in DOMAIN c.opening : stock[p] = c.opening[p] /\ c.opening[p] \in Int
    BY DEF Made, Make!ProductionAssumption, Make!Cells
  <2>4. \A o \in c.orders : orders[o] = Gone
    OBVIOUS
  <2>5. \A p : Move(log, Moves(log, "inbound", p)) = 0 /\ Move(log, Moves(log, "pick", p)) = 0
    BY <2>2, MoveNothing
  <2>6. \A p \in DOMAIN c.opening :
          stock[p] = c.opening[p] + Move(log, Moves(log, "inbound", p)) - Move(log, Moves(log, "pick", p))
    BY <2>3, <2>5
  <2> QED
    BY <2>1, <2>2, <2>3, <2>4, <2>5, <2>6 DEF MakeLedger
<1> QED
  BY <1>1, <1>2, <1>3, <1>4 DEF MakeInv

-----------------------------------------------------------------------------
(* Make: a step that moves no goods and adds no report. *)

MakeAside(c, w, x) ==
    /\ receipts' = receipts /\ stock' = stock /\ log' = log /\ reported' = reported
    /\ trail' = [o \in c.orders |-> trail'[o]]
    /\ orders' \in [c.orders -> WorkOrder(c) \cup {Gone}]
    /\ \A o \in c.orders :
         /\ orders'[o] = Gone <=> orders[o] = Gone
         /\ orders[o] # Gone =>
              /\ orders'[o].materials = orders[o].materials
              /\ orders'[o].operations = orders[o].operations
              /\ Summed(o, <<orders'[o].completed, orders'[o].scrap>>)
    /\ txn' = [txn EXCEPT ![w] = x]
    /\ x # Still => x \in Requests(c) /\ Served(x)
    /\ Locking(x) => \A v \in Workers \ {w} : Locking(txn[v]) => txn[v].ref # x.ref

\* A step that only moves headers and requests keeps the invariant.
LEMMA MakeAsideStep ==
    ASSUME NEW CONSTANT c, Made(c), MakeInv(c), NEW w \in Workers, NEW x, MakeAside(c, w, x)
    PROVE  MakeInv(c)'
<1>1. txn'[w] = x /\ \A v \in Workers \ {w} : txn'[v] = txn[v]
  BY DEF MakeAside, MakeInv, MakeTypes
<1>2. MakeTypes(c)'
  <2>1. txn' \in [Workers -> Requests(c) \cup {Still}]
    BY DEF MakeAside, MakeInv, MakeTypes
  <2> QED
    BY <2>1 DEF MakeAside, MakeInv, MakeTypes
<1>3. ASSUME NEW y, y \in Requests(c), Served(y) PROVE Served(y)'
  <2>1. y.ref \in c.orders
    BY <1>3 DEF Requests, Changing, Telling, Counting, Totalling, Taking, Storing
  <2> QED
    BY <1>3, <2>1 DEF Served, PicksFit, Found, Summed, MakeAside
<1>4. MakeLocks(c)'
  <2>1. ASSUME NEW v \in Workers, txn'[v] # Still PROVE Served(txn[v])'
    <3>1. PICK y : y = txn'[v]
      OBVIOUS
    <3>2. y \in Requests(c) /\ Served(y)
      <4>1. CASE v = w
        BY <1>1, <2>1, <3>1, <4>1 DEF MakeAside
      <4>2. CASE v # w
        BY <1>1, <2>1, <3>1, <4>2 DEF MakeInv, MakeLocks, MakeTypes
      <4> QED
        BY <4>1, <4>2
    <3>3. Served(y)'
      BY <1>3, <3>2
    <3> QED
      BY <3>1, <3>3 DEF Served
  <2>2. \A v, u \in Workers :
          Locking(txn'[v]) /\ Locking(txn'[u]) /\ txn'[v].ref = txn'[u].ref => v = u
    BY <1>1 DEF MakeAside, MakeInv, MakeLocks
  <2> QED
    BY <2>1, <2>2 DEF MakeLocks
<1>5. MakeOrders(c)'
  BY DEF MakeAside, MakeInv, MakeOrders, Summed
<1>6. MakeLedger(c)'
  BY DEF MakeAside, MakeInv, MakeLedger, MakeTypes
<1> QED
  BY <1>2, <1>4, <1>5, <1>6 DEF MakeInv

\* A step of one request that leaves the tables as they are.
LEMMA MakeQuiet ==
    ASSUME NEW CONSTANT c, Made(c), MakeInv(c), NEW w \in Workers, NEW x,
           UNCHANGED <<orders, receipts, stock, log, trail, reported>>,
           txn' = [txn EXCEPT ![w] = x],
           x # Still => x \in Requests(c) /\ Served(x),
           Locking(x) => \A v \in Workers \ {w} : Locking(txn[v]) => txn[v].ref # x.ref
    PROVE  MakeInv(c)'
<1>1. MakeAside(c, w, x)
  BY DEF MakeAside, MakeInv, MakeTypes, MakeOrders
<1> QED
  BY <1>1, MakeAsideStep

-----------------------------------------------------------------------------
(* Make: the actions. *)

LEMMA MakeServed ==
    ASSUME NEW CONSTANT c, MakeInv(c), NEW w \in Workers, txn[w] # Still
    PROVE  /\ txn[w] \in Requests(c) /\ Served(txn[w]) /\ orders[txn[w].ref] \in WorkOrder(c)
           /\ txn[w].ref \in c.orders /\ reported[txn[w].ref] \in Seq(Pair)
<1>1. txn[w] \in Requests(c) /\ Served(txn[w])
  BY DEF MakeInv, MakeTypes, MakeLocks
<1>2. txn[w].ref \in c.orders
  BY <1>1 DEF Requests, Changing, Telling, Counting, Totalling, Taking, Storing
<1> QED
  BY <1>1, <1>2 DEF Served, MakeInv, MakeTypes

\* The work that an open request has left.
LEMMA MakeWork ==
    ASSUME NEW CONSTANT c, NEW x \in Requests(c)
    PROVE  /\ x.op \in {"release", "complete"} => x \in Changing(c)
           /\ x.op = "record" => x \in Telling(c)
           /\ x.op \in {"report", "sum"} => x \in Counting(c)
           /\ x.op = "total" => x \in Totalling(c)
           /\ x.op = "pick" => x \in Taking(c)
           /\ x.op = "receipt" => x \in Storing(c)
           /\ x.op \in {"release", "complete", "record", "report", "sum", "total", "pick", "receipt", "read_after"}
           /\ x.ref \in c.orders
<1>1. x \in Changing(c) \/ x \in Telling(c) \/ x \in Counting(c) \/ x \in Totalling(c)
      \/ x \in Taking(c) \/ x \in Storing(c)
  BY DEF Requests
<1>2. CASE x \in Changing(c)
  BY <1>2 DEF Changing
<1>3. CASE x \in Telling(c)
  BY <1>3 DEF Telling
<1>4. CASE x \in Counting(c)
  BY <1>4 DEF Counting
<1>5. CASE x \in Totalling(c)
  BY <1>5 DEF Totalling
<1>6. CASE x \in Taking(c)
  BY <1>6 DEF Taking
<1>7. CASE x \in Storing(c)
  BY <1>7 DEF Storing
<1> QED
  BY <1>1, <1>2, <1>3, <1>4, <1>5, <1>6, <1>7

\* The snapshot that a change record takes of an order.
LEMMA MakeView ==
    ASSUME NEW CONSTANT c, NEW x \in WorkOrder(c)
    PROVE  Make(c)!Snapshot(x) \in View /\ Make(c)!Snapshot(x).status = x.status
BY DEF WorkOrder, View, Make!Snapshot

\* An order that exists, and who may lock it.
LEMMA MakeOpen ==
    ASSUME NEW CONSTANT c, MakeInv(c), NEW o \in Make(c)!Rows(orders)
    PROVE  /\ o \in c.orders /\ orders[o] # Gone /\ orders[o] \in WorkOrder(c)
           /\ Make(c)!Snapshot(orders[o]) \in View
           /\ Make(c)!Free(o) => \A v \in Workers : Locking(txn[v]) => txn[v].ref # o
<1>1. o \in c.orders /\ orders[o] # Gone /\ orders[o] \in WorkOrder(c)
  BY DEF Make!Rows, Make!Absent, Gone, MakeInv, MakeTypes
<1> QED
  BY <1>1, MakeView DEF Make!Free, Make!Idle, Still, Locking

\* release and report read without a lock; complete takes the row lock.
LEMMA MakeReads ==
    ASSUME NEW CONSTANT c, Made(c), MakeInv(c), NEW w \in Workers, NEW o \in c.orders,
           Make(c)!ReleaseRead(w, o) \/ Make(c)!ReportRead(w, o) \/ Make(c)!CompleteLock(w, o)
    PROVE  MakeInv(c)'
<1>1. o \in Make(c)!Rows(orders)
  BY DEF Make!ReleaseRead, Make!ReportRead, Make!CompleteLock
<1>2. PICK s : s = Make(c)!Snapshot(orders[o])
  OBVIOUS
<1>3. s \in View /\ orders[o] # Gone
  BY <1>1, <1>2, MakeOpen
<1>4. CASE Make(c)!ReleaseRead(w, o)
  <2>1. PICK x : x = [op |-> "release", ref |-> o, before |-> s]
    OBVIOUS
  <2>2. x \in Requests(c) /\ Served(x) /\ ~Locking(x)
    BY <1>3, <2>1 DEF Requests, Changing, Served, Locking
  <2>3. UNCHANGED <<orders, receipts, stock, log, trail, reported>> /\ txn' = [txn EXCEPT ![w] = x]
    BY <1>2, <1>4, <2>1 DEF Make!ReleaseRead, Make!Begin
  <2> QED
    BY <2>2, <2>3, MakeQuiet
<1>5. CASE Make(c)!ReportRead(w, o)
  <2>1. PICK k \in 0..c.operations, r \in c.reports :
          Make(c)!Begin(w, [op |-> "report", ref |-> o, before |-> s, operation |-> k, report |-> r])
    BY <1>2, <1>5 DEF Make!ReportRead
  <2>2. PICK x : x = [op |-> "report", ref |-> o, before |-> s, operation |-> k, report |-> r]
    OBVIOUS
  <2>3. k \in Int /\ r \in Pair
    BY DEF Made, Make!ProductionAssumption, Pair
  <2>4. x \in Requests(c) /\ Served(x) /\ ~Locking(x)
    BY <1>3, <2>2, <2>3 DEF Requests, Counting, Served, Locking
  <2>5. UNCHANGED <<orders, receipts, stock, log, trail, reported>> /\ txn' = [txn EXCEPT ![w] = x]
    BY <2>1, <2>2 DEF Make!Begin
  <2> QED
    BY <2>4, <2>5, MakeQuiet
<1>6. CASE Make(c)!CompleteLock(w, o)
  <2>1. PICK x : x = [op |-> "complete", ref |-> o, before |-> s]
    OBVIOUS
  <2>2. x \in Requests(c) /\ Served(x) /\ x.ref = o
    BY <1>3, <2>1 DEF Requests, Changing, Served
  <2>3. UNCHANGED <<orders, receipts, stock, log, trail, reported>> /\ txn' = [txn EXCEPT ![w] = x]
    BY <1>2, <1>6, <2>1 DEF Make!CompleteLock, Make!Begin
  <2>4. \A v \in Workers : Locking(txn[v]) => txn[v].ref # o
    BY <1>1, <1>6, MakeOpen DEF Make!CompleteLock
  <2> QED
    BY <2>2, <2>3, <2>4, MakeQuiet
<1> QED
  BY <1>4, <1>5, <1>6

\* A pick locks a released order and has taken nothing yet.
LEMMA MakePickLock ==
    ASSUME NEW CONSTANT c, Made(c), MakeInv(c), NEW w \in Workers, NEW o \in c.orders, Make(c)!PickLock(w, o)
    PROVE  MakeInv(c)'
<1>1. o \in Make(c)!Rows(orders) /\ Make(c)!Free(o)
  BY DEF Make!PickLock
<1>2. PICK s : s = Make(c)!Snapshot(orders[o])
  OBVIOUS
<1>3. /\ s \in View /\ orders[o] # Gone /\ orders[o] \in WorkOrder(c)
      /\ \A v \in Workers : Locking(txn[v]) => txn[v].ref # o
  BY <1>1, <1>2, MakeOpen
<1>4. PICK ls \in Make(c)!PickLines :
        Make(c)!Begin(w, [op |-> "pick", ref |-> o, before |-> s, todo |-> ls, done |-> <<>>, missed |-> {}])
  BY <1>2 DEF Make!PickLock
<1>5. PICK x : x = [op |-> "pick", ref |-> o, before |-> s, todo |-> ls, done |-> <<>>, missed |-> {}]
  OBVIOUS
<1>6. ls \in Seq(Pick(c))
  <2>1. PICK n \in 0..c.lines : ls \in [1..n -> Pick(c)]
    BY DEF Make!PickLines, Pick
  <2>2. n \in Nat
    BY DEF Made, Make!ProductionAssumption
  <2> QED
    BY <2>1, <2>2, SeqDef
<1>7. x \in Requests(c) /\ x.ref = o /\ x.op = "pick" /\ x.done = <<>>
  BY <1>3, <1>5, <1>6 DEF Requests, Taking, Missing
<1>8. PicksFit(x)
  <2>1. \A m : OfMaterial(x.done, m) = {}
    BY <1>7 DEF OfMaterial
  <2>2. \A m : Move(x.done, OfMaterial(x.done, m)) = 0
    BY <2>1, MoveNothing
  <2>3. Within(orders[o].materials) /\ orders[o].materials \in Seq(Material(c))
    BY <1>3 DEF MakeInv, MakeOrders, WorkOrder
  <2>4. \A m \in DOMAIN orders[o].materials :
          orders[o].materials[m].picked <= Asked(orders[o].materials[m].required) /\ orders[o].materials[m].picked \in Int
    <3>1. \A m \in DOMAIN orders[o].materials : orders[o].materials[m] \in Material(c)
      BY <2>3
    <3> QED
      BY <2>3, <3>1 DEF Within, Material
  <2> QED
    BY <1>7, <2>2, <2>4 DEF PicksFit
<1>9. Served(x)
  BY <1>3, <1>7, <1>8 DEF Served, Found
<1>10. UNCHANGED <<orders, receipts, stock, log, trail, reported>> /\ txn' = [txn EXCEPT ![w] = x]
  BY <1>4, <1>5 DEF Make!Begin
<1> QED
  BY <1>3, <1>7, <1>9, <1>10, MakeQuiet

\* A receipt locks its order.
LEMMA MakeReceiptLock ==
    ASSUME NEW CONSTANT c, Made(c), MakeInv(c), NEW w \in Workers, NEW r \in c.receipts, Make(c)!ReceiptLock(w, r)
    PROVE  MakeInv(c)'
<1>1. PICK o \in Make(c)!Rows(orders), h \in c.warehouses, n \in c.received :
        /\ Make(c)!Free(o)
        /\ Make(c)!Begin(w, [op |-> "receipt", ref |-> o, id |-> r, warehouse |-> h, quantity |-> n,
                             missed |-> {}])
  BY DEF Make!ReceiptLock
<1>2. PICK x : x = [op |-> "receipt", ref |-> o, id |-> r, warehouse |-> h, quantity |-> n, missed |-> {}]
  OBVIOUS
<1>3. o \in c.orders /\ orders[o] # Gone /\ \A v \in Workers : Locking(txn[v]) => txn[v].ref # o
  BY <1>1, MakeOpen
<1>4. n \in Int
  BY DEF Made, Make!ProductionAssumption
<1>5. x \in Requests(c) /\ Served(x) /\ x.ref = o
  BY <1>2, <1>3, <1>4 DEF Requests, Storing, Missing, Served
<1>6. UNCHANGED <<orders, receipts, stock, log, trail, reported>> /\ txn' = [txn EXCEPT ![w] = x]
  BY <1>1, <1>2 DEF Make!Begin
<1> QED
  BY <1>3, <1>5, <1>6, MakeQuiet

\* An error or a crash leaves the tables as they are.
LEMMA MakeAbandon ==
    ASSUME NEW CONSTANT c, Made(c), MakeInv(c), NEW w \in Workers, Make(c)!Abandon(w)
    PROVE  MakeInv(c)'
<1>1. UNCHANGED <<orders, receipts, stock, log, trail, reported>> /\ txn' = [txn EXCEPT ![w] = Still]
  BY DEF Make!Abandon, Make!Idle, Still
<1> QED
  BY <1>1, MakeQuiet DEF Locking

\* The statements of release and report that come after the first.
LEMMA MakeAfter ==
    ASSUME NEW CONSTANT c, Made(c), MakeInv(c), NEW w \in Workers, Make(c)!ReadAfter(w) \/ Make(c)!ReportSum(w)
    PROVE  MakeInv(c)'
<1> USE DEF Make!Idle, Still, Make!Doing
<1>1. txn[w] # Still
  BY DEF Make!ReadAfter, Make!ReportSum
<1>2. PICK o : o = txn[w].ref
  OBVIOUS
<1>3. /\ txn[w] \in Requests(c) /\ Served(txn[w]) /\ orders[o] \in WorkOrder(c)
      /\ o \in c.orders /\ reported[o] \in Seq(Pair) /\ orders[o] # Gone
  BY <1>1, <1>2, MakeServed DEF Served
<1>4. CASE Make(c)!ReadAfter(w)
  <2>1. PICK x : x = [op |-> "record", ref |-> o, before |-> txn[w].before, after |-> Make(c)!Snapshot(orders[o])]
    OBVIOUS
  <2>2. txn[w].before \in View
    <3>1. txn[w].op = "read_after"
      BY <1>4 DEF Make!ReadAfter
    <3>2. txn[w] \in Changing(c) \/ txn[w] \in Totalling(c)
      BY <1>3, <3>1 DEF Requests, Telling, Counting, Taking, Storing
    <3> QED
      BY <3>2 DEF Changing, Totalling
  <2>3. x \in Requests(c) /\ Served(x) /\ ~Locking(x)
    BY <1>3, <2>1, <2>2, MakeView DEF Requests, Telling, Served, Locking
  <2>4. UNCHANGED <<orders, receipts, stock, log, trail, reported>> /\ txn' = [txn EXCEPT ![w] = x]
    BY <1>2, <1>4, <2>1 DEF Make!ReadAfter, MakeInv, MakeTypes
  <2> QED
    BY <2>3, <2>4, MakeQuiet
<1>5. CASE Make(c)!ReportSum(w)
  <2>1. PICK t : t = Make(c)!Totals(w)
    OBVIOUS
  <2>2. PICK x : x = [op |-> "total", ref |-> o, before |-> txn[w].before, totals |-> t]
    OBVIOUS
  <2>3. txn[w].before \in View
    <3>1. txn[w].op = "sum"
      BY <1>5 DEF Make!ReportSum
    <3> QED
      BY <1>3, <3>1, MakeWork DEF Counting
  <2>4. /\ t[1] = OperationSum(orders[o].operations, 1)
        /\ t[2] = OperationSum(orders[o].operations, 2)
        /\ t = <<t[1], t[2]>>
    <3> DEFINE ops == orders[o].operations
               f1 == [k \in DOMAIN ops |-> ops[k].completed]
               f2 == [k \in DOMAIN ops |-> ops[k].scrap]
    <3>1. t = <<Make(c)!Total(f1), Make(c)!Total(f2)>>
      BY <1>2, <2>1 DEF Make!Totals
    <3>2. Make(c)!Total(f1) = SumFunctionOnSet(f1, DOMAIN ops) /\ Make(c)!Total(f2) = SumFunctionOnSet(f2, DOMAIN ops)
      BY MakeMoved
    <3>3. OperationSum(ops, 1) = SumFunctionOnSet(f1, DOMAIN ops) /\ OperationSum(ops, 2) = SumFunctionOnSet(f2, DOMAIN ops)
      BY DEF OperationSum
    <3> HIDE DEF f1, f2
    <3> QED
      BY <3>1, <3>2, <3>3
  <2>5. \A j \in {1, 2} : t[j] = Prefix(reported[o], Len(reported[o]), j)
    BY <1>3, <2>4 DEF MakeInv, MakeOrders
  <2>6. Summed(o, t)
    <3>1. Len(reported[o]) \in 0..Len(reported[o])
      BY <1>3
    <3> QED
      BY <2>5, <3>1 DEF Summed
  <2>7. \A j \in {1, 2} : OperationSum(orders[o].operations, j) \in Int
    <3> SUFFICES ASSUME NEW j \in {1, 2} PROVE OperationSum(orders[o].operations, j) \in Int
      OBVIOUS
    <3> DEFINE ops == orders[o].operations
               f == [k \in DOMAIN ops |-> IF j = 1 THEN ops[k].completed ELSE ops[k].scrap]
    <3>1. ops \in [1..c.operations -> Operation]
      BY <1>3 DEF WorkOrder
    <3>2. IsFiniteSet(DOMAIN ops)
      <4>1. c.operations \in Int
        BY DEF Made, Make!ProductionAssumption
      <4> QED
        BY <3>1, <4>1, FS_Interval
    <3>3. \A k \in DOMAIN ops : f[k] \in Int
      BY <3>1 DEF Operation
    <3>4. OperationSum(ops, j) = SumFunctionOnSet(f, DOMAIN ops)
      BY DEF OperationSum
    <3> HIDE DEF f
    <3> QED
      BY <3>2, <3>3, <3>4, SumInt
  <2>8. t \in Pair
    BY <2>4, <2>7 DEF Pair
  <2>9. x \in Requests(c)
    BY <1>3, <2>2, <2>3, <2>8 DEF Requests, Totalling
  <2>10. Served(x) /\ ~Locking(x)
    BY <1>3, <2>2, <2>6 DEF Served, Locking
  <2>11. UNCHANGED <<orders, receipts, stock, log, trail, reported>> /\ txn' = [txn EXCEPT ![w] = x]
    BY <1>2, <1>5, <2>1, <2>2 DEF Make!ReportSum, MakeInv, MakeTypes
  <2> QED
    BY <2>9, <2>10, <2>11, MakeQuiet
<1> QED
  BY <1>4, <1>5

\* A line more of a pick.
LEMMA MakePickLine ==
    ASSUME NEW CONSTANT c, Made(c), MakeInv(c), NEW w \in Workers, Make(c)!PickLine(w)
    PROVE  MakeInv(c)'
<1> USE DEF Make!Idle, Still, Make!Doing
<1>1. txn[w] # Still /\ txn[w].op = "pick" /\ txn[w].todo # <<>>
  BY DEF Make!PickLine
<1>2. PICK o, l, done, ms :
        o = txn[w].ref /\ l = Head(txn[w].todo) /\ done = txn[w].done /\ ms = orders[o].materials
  OBVIOUS
<1>3. /\ txn[w] \in Taking(c) /\ PicksFit(txn[w]) /\ o \in c.orders /\ orders[o] # Gone
      /\ ms \in Seq(Material(c))
  BY <1>1, <1>2, MakeServed, MakeWork DEF Served, WorkOrder
<1>14. Found(txn[w])
  BY <1>1, MakeServed DEF Served
<1>4. l \in Pick(c) /\ Tail(txn[w].todo) \in Seq(Pick(c)) /\ done \in Seq(Pick(c)) /\ l.quantity \in Int
  <2>1. txn[w].todo \in Seq(Pick(c)) /\ done \in Seq(Pick(c))
    BY <1>2, <1>3 DEF Taking
  <2>2. l \in Pick(c) /\ Tail(txn[w].todo) \in Seq(Pick(c))
    BY <1>1, <1>2, <2>1
  <2> QED
    BY <2>1, <2>2 DEF Pick, Made, Make!ProductionAssumption
<1>5. PICK x : x = [txn[w] EXCEPT !.todo = Tail(txn[w].todo), !.done = Append(done, l)]
  OBVIOUS
<1>6. /\ x \in Taking(c) /\ x.op = "pick" /\ x.ref = o /\ x.done = Append(done, l)
      /\ x.missed = txn[w].missed
  <2>1. PICK y : y = [txn[w] EXCEPT !.todo = Tail(txn[w].todo)]
    OBVIOUS
  <2>2. y \in Taking(c) /\ y.ref = o /\ y.op = "pick" /\ y.missed = txn[w].missed
    BY <1>1, <1>2, <1>3, <1>4, <2>1 DEF Taking
  <2>3. x = [y EXCEPT !.done = Append(done, l)] /\ Append(done, l) \in Seq(Pick(c))
    BY <1>4, <1>5, <2>1
  <2> QED
    BY <2>2, <2>3 DEF Taking
<1>7. /\ l.material \in DOMAIN ms
      /\ ms[l.material].picked + Move(done, OfMaterial(done, l.material)) + l.quantity <= ms[l.material].required
  BY <1>2, MakeMoved DEF Make!PickLine, Make!Allowed, Make!Fits, Make!NewPicked, Make!PickedOf, OfMaterial
<1>8. \A k \in DOMAIN x.done : x.done[k].material \in DOMAIN ms
  <2>1. \A k \in DOMAIN Append(done, l) : Append(done, l)[k] = l \/ (k \in DOMAIN done /\ Append(done, l)[k] = done[k])
    BY <1>4
  <2> QED
    BY <1>2, <1>3, <1>6, <1>7, <2>1 DEF PicksFit
<1>9. ASSUME NEW m \in DOMAIN ms
      PROVE  ms[m].picked + Move(x.done, OfMaterial(x.done, m)) <= Asked(ms[m].required)
  <2>1. OfMaterial(done, m) \in SUBSET DOMAIN done
    BY DEF OfMaterial
  <2>2. \A y \in Pick(c) : y.quantity \in Int
    BY DEF Pick, Made, Make!ProductionAssumption
  <2>3. /\ Move(Append(done, l), OfMaterial(done, m)) = Move(done, OfMaterial(done, m))
        /\ Move(done, OfMaterial(done, m)) \in Int
        /\ Move(Append(done, l), OfMaterial(done, m) \cup {Len(done) + 1})
             = Move(done, OfMaterial(done, m)) + l.quantity
    BY <1>4, <2>1, <2>2, MoveAppend
  <2>4. OfMaterial(x.done, m)
          = IF l.material = m THEN OfMaterial(done, m) \cup {Len(done) + 1} ELSE OfMaterial(done, m)
    BY <1>4, <1>6 DEF OfMaterial
  <2>5. ms[m].picked + Move(done, OfMaterial(done, m)) <= Asked(ms[m].required)
    BY <1>2, <1>3 DEF PicksFit
  <2>6. ms[m].picked \in Int /\ ms[m].required \in Int
    <3>1. ms[m] \in Material(c)
      BY <1>3
    <3> QED
      BY <3>1 DEF Material
  <2>7. CASE l.material = m
    <3>1. Move(x.done, OfMaterial(x.done, m)) = Move(done, OfMaterial(done, m)) + l.quantity
      BY <1>6, <2>3, <2>4, <2>7, Zenon
    <3> QED
      BY <1>4, <1>7, <2>3, <2>6, <2>7, <3>1 DEF Asked
  <2>8. CASE l.material # m
    <3>1. Move(x.done, OfMaterial(x.done, m)) = Move(done, OfMaterial(done, m))
      BY <1>6, <2>3, <2>4, <2>8, Zenon
    <3> QED
      BY <2>5, <3>1
  <2> QED
    BY <2>7, <2>8
<1>15. Found(x)
  <2>1. \A k \in DOMAIN Append(done, l) : Append(done, l)[k] = l \/ (k \in DOMAIN done /\ Append(done, l)[k] = done[k])
    BY <1>4
  <2>2. <<l.item, l.warehouse>> \in DOMAIN stock \cup txn[w].missed
    BY <1>2 DEF Make!PickLine, Make!Known, Make!CellOf
  <2> QED
    BY <1>2, <1>6, <1>14, <2>1, <2>2 DEF Found
<1>10. Served(x)
  BY <1>2, <1>3, <1>6, <1>8, <1>9, <1>15 DEF Served, PicksFit
<1>11. UNCHANGED <<orders, receipts, stock, log, trail, reported>> /\ txn' = [txn EXCEPT ![w] = x]
  BY <1>2, <1>5 DEF Make!PickLine, MakeInv, MakeTypes
<1>12. \A v \in Workers \ {w} : Locking(txn[v]) => txn[v].ref # x.ref
  BY <1>1, <1>2, <1>6 DEF MakeInv, MakeLocks, Locking
<1>13. x \in Requests(c)
  BY <1>6 DEF Requests
<1> QED
  BY <1>10, <1>11, <1>12, <1>13, MakeQuiet

\* A row that a transaction does not find was not there at the start.
LEMMA MakeUnstocked ==
    ASSUME NEW CONSTANT c, MakeInv(c), NEW w \in Workers, NEW S \in Missing(c), NEW p \in Places(c),
           p \notin DOMAIN stock
    PROVE  S \cup {p} \in Missing(c)
BY DEF Missing, MakeInv, MakeTypes

\* A pick or a receipt finds no row of a cell: nothing else changes.
LEMMA MakeMissed ==
    ASSUME NEW CONSTANT c, Made(c), MakeInv(c), NEW w \in Workers, Make(c)!MissPicked(w) \/ Make(c)!MissReceived(w)
    PROVE  MakeInv(c)'
<1> USE DEF Make!Idle, Still, Make!Doing
<1>1. txn[w] # Still /\ txn[w].op \in {"pick", "receipt"}
  BY DEF Make!MissPicked, Make!MissReceived
<1>2. PICK t, o : t = txn[w] /\ o = txn[w].ref
  OBVIOUS
<1>3. /\ t \in Requests(c) /\ Served(t) /\ orders[o] \in WorkOrder(c) /\ t.op = txn[w].op /\ t.ref = o
      /\ t.op = "pick" => t \in Taking(c)
      /\ t.op = "receipt" => t \in Storing(c)
  BY <1>1, <1>2, MakeServed, MakeWork
<1>4. PICK p : Make(c)!Miss(w, p) /\ p \in Places(c)
  <2>1. CASE Make(c)!MissPicked(w)
    <3>1. t.todo \in Seq(Pick(c)) /\ t.todo # <<>> /\ Make(c)!Miss(w, Make(c)!CellOf(Head(t.todo)))
      BY <1>2, <1>3, <2>1 DEF Make!MissPicked, Taking
    <3>2. Head(t.todo) \in Pick(c)
      BY <3>1
    <3>3. Make(c)!CellOf(Head(t.todo)) \in Places(c)
      BY <3>2 DEF Pick, Places, Make!CellOf
    <3> QED
      BY <3>1, <3>3
  <2>2. CASE Make(c)!MissReceived(w)
    <3>1. t.warehouse \in c.warehouses /\ Make(c)!Miss(w, Make(c)!Into(w))
      BY <1>2, <1>3, <2>2 DEF Make!MissReceived, Storing
    <3>2. Make(c)!Into(w) \in Places(c)
      BY <1>2, <1>3, <3>1 DEF Make!Into, Places, WorkOrder
    <3> QED
      BY <3>1, <3>2
  <2> QED
    BY <2>1, <2>2
<1>5. PICK x : x = [t EXCEPT !.missed = t.missed \cup {p}]
  OBVIOUS
<1>6. t.missed \cup {p} \in Missing(c)
  BY <1>1, <1>3, <1>4, MakeUnstocked DEF Taking, Storing, Make!Miss
<1>7. CASE t.op = "pick"
  <2>1. /\ x \in Taking(c) /\ x.op = "pick" /\ x.ref = o /\ x.done = t.done
        /\ t.missed \in SUBSET x.missed
    BY <1>3, <1>5, <1>6, <1>7 DEF Taking
  <2>2. Served(x)
    BY <1>3, <1>7, <2>1 DEF Served, PicksFit, Found
  <2>3. UNCHANGED <<orders, receipts, stock, log, trail, reported>> /\ txn' = [txn EXCEPT ![w] = x]
    BY <1>2, <1>4, <1>5 DEF Make!Miss, MakeInv, MakeTypes
  <2>4. \A v \in Workers \ {w} : Locking(txn[v]) => txn[v].ref # x.ref
    BY <1>1, <1>2, <2>1 DEF MakeInv, MakeLocks, Locking
  <2>5. x \in Requests(c)
    BY <2>1 DEF Requests
  <2> QED
    BY <2>2, <2>3, <2>4, <2>5, MakeQuiet
<1>8. CASE t.op = "receipt"
  <2>1. x \in Storing(c) /\ x.op = "receipt" /\ x.ref = o
    BY <1>3, <1>5, <1>6, <1>8 DEF Storing
  <2>2. Served(x)
    BY <1>3, <1>8, <2>1 DEF Served
  <2>3. UNCHANGED <<orders, receipts, stock, log, trail, reported>> /\ txn' = [txn EXCEPT ![w] = x]
    BY <1>2, <1>4, <1>5 DEF Make!Miss, MakeInv, MakeTypes
  <2>4. \A v \in Workers \ {w} : Locking(txn[v]) => txn[v].ref # x.ref
    BY <1>1, <1>2, <2>1 DEF MakeInv, MakeLocks, Locking
  <2>5. x \in Requests(c)
    BY <2>1 DEF Requests
  <2> QED
    BY <2>2, <2>3, <2>4, <2>5, MakeQuiet
<1> QED
  BY <1>1, <1>3, <1>7, <1>8

\* A work order is not the absent row.
LEMMA OrderNotGone == ASSUME NEW CONSTANT c, NEW x \in WorkOrder(c) PROVE x # Gone
BY DEF WorkOrder, Gone

\* A new status changes nothing else of an order.
LEMMA OrderStatus ==
    ASSUME NEW CONSTANT c, NEW z \in WorkOrder(c), NEW s \in 0..3, NEW y, y = [z EXCEPT !.status = s]
    PROVE  /\ y \in WorkOrder(c) /\ y.materials = z.materials /\ y.operations = z.operations
           /\ y.completed = z.completed /\ y.scrap = z.scrap
BY DEF WorkOrder

\* One order gets a new header; its materials and operations stay.
LEMMA MakeHeader ==
    ASSUME NEW CONSTANT c, Made(c), MakeInv(c), NEW w \in Workers, NEW x, NEW y, NEW o \in c.orders,
           receipts' = receipts, stock' = stock, log' = log, reported' = reported,
           trail' = [d \in c.orders |-> trail'[d]],
           orders' = [orders EXCEPT ![o] = y],
           y \in WorkOrder(c), orders[o] # Gone,
           y.materials = orders[o].materials, y.operations = orders[o].operations,
           Summed(o, <<y.completed, y.scrap>>),
           txn' = [txn EXCEPT ![w] = x],
           x # Still => x \in Requests(c) /\ Served(x) /\ ~Locking(x)
    PROVE  MakeInv(c)'
<1>1. /\ orders'[o] = y /\ \A d \in c.orders \ {o} : orders'[d] = orders[d]
      /\ orders' \in [c.orders -> WorkOrder(c) \cup {Gone}]
  BY DEF MakeInv, MakeTypes
<1>2. y # Gone
  BY OrderNotGone
<1>3. \A d \in c.orders :
         /\ orders'[d] = Gone <=> orders[d] = Gone
         /\ orders[d] # Gone =>
              /\ orders'[d].materials = orders[d].materials
              /\ orders'[d].operations = orders[d].operations
              /\ Summed(d, <<orders'[d].completed, orders'[d].scrap>>)
  BY <1>1, <1>2 DEF MakeInv, MakeOrders
<1>4. MakeAside(c, w, x)
  BY <1>1, <1>3 DEF MakeAside, Locking
<1> QED
  BY <1>4, MakeAsideStep

\* The UPDATE statements of release, report and complete change a header only.
LEMMA MakeWrites ==
    ASSUME NEW CONSTANT c, Made(c), MakeInv(c), NEW w \in Workers,
           Make(c)!ReleaseWrite(w) \/ Make(c)!ReportTotal(w) \/ Make(c)!CommitComplete(w)
    PROVE  MakeInv(c)'
<1> USE DEF Make!Idle, Still, Make!Doing
<1>1. txn[w] # Still
  BY DEF Make!ReleaseWrite, Make!ReportTotal, Make!CommitComplete
<1>2. PICK o, z : o = txn[w].ref /\ z = orders[o]
  OBVIOUS
<1>3. /\ txn[w] \in Requests(c) /\ Served(txn[w]) /\ z \in WorkOrder(c)
      /\ o \in c.orders /\ reported[o] \in Seq(Pair) /\ orders[o] # Gone
  BY <1>1, <1>2, MakeServed DEF Served
<1>4. Summed(o, <<z.completed, z.scrap>>) /\ trail = [d \in c.orders |-> trail[d]]
  BY <1>2, <1>3 DEF MakeInv, MakeOrders, MakeTypes
<1>5. CASE Make(c)!ReleaseWrite(w)
  <2>1. PICK y : y = [z EXCEPT !.status = 1]
    OBVIOUS
  <2>2. /\ y \in WorkOrder(c) /\ y.materials = z.materials /\ y.operations = z.operations
        /\ y.completed = z.completed /\ y.scrap = z.scrap
    BY <1>3, <2>1, OrderStatus
  <2>3. PICK x : x = [txn[w] EXCEPT !.op = "read_after"]
    OBVIOUS
  <2>4. txn[w] \in Changing(c)
    <3>1. txn[w].op = "release"
      BY <1>5 DEF Make!ReleaseWrite
    <3> QED
      BY <1>3, <3>1, MakeWork
  <2>5. x \in Changing(c) /\ x.ref = o /\ x.op = "read_after"
    BY <1>2, <2>3, <2>4 DEF Changing
  <2>6. x \in Requests(c) /\ Served(x) /\ ~Locking(x)
    BY <1>3, <2>5 DEF Requests, Served, Locking
  <2>7. /\ receipts' = receipts /\ stock' = stock /\ log' = log /\ reported' = reported /\ trail' = trail
        /\ orders' = [orders EXCEPT ![o] = y] /\ txn' = [txn EXCEPT ![w] = x]
    BY <1>2, <1>3, <1>5, <2>1, <2>3 DEF Make!ReleaseWrite, Make!Become, Make!Released, MakeInv, MakeTypes
  <2> QED
    BY <1>2, <1>3, <1>4, <2>2, <2>6, <2>7, MakeHeader
<1>6. CASE Make(c)!ReportTotal(w)
  <2>1. PICK t : t = txn[w].totals
    OBVIOUS
  <2>2. txn[w].op = "total" /\ txn[w] \in Totalling(c)
    <3>1. txn[w].op = "total"
      BY <1>6 DEF Make!ReportTotal
    <3> QED
      BY <1>3, <3>1, MakeWork
  <2>3. t \in Pair /\ Summed(o, t)
    BY <1>2, <1>3, <2>1, <2>2 DEF Totalling, Served
  <2>4. t[1] \in Int /\ t[2] \in Int
    BY <2>3 DEF Pair
  <2>5. PICK z1 : z1 = [z EXCEPT !.completed = t[1]]
    OBVIOUS
  <2>6. /\ z1 \in WorkOrder(c) /\ z1.materials = z.materials /\ z1.operations = z.operations
        /\ z1.completed = t[1]
    BY <1>3, <2>4, <2>5 DEF WorkOrder
  <2>7. PICK y : y = [z1 EXCEPT !.scrap = t[2]]
    OBVIOUS
  <2>8. /\ y \in WorkOrder(c) /\ y.materials = z.materials /\ y.operations = z.operations
        /\ y.completed = t[1] /\ y.scrap = t[2]
    BY <2>4, <2>6, <2>7 DEF WorkOrder
  <2>9. Summed(o, <<y.completed, y.scrap>>)
    BY <2>3, <2>8 DEF Summed
  <2>10. PICK x : x = [txn[w] EXCEPT !.op = "read_after"]
    OBVIOUS
  <2>11. x \in Totalling(c) /\ x.ref = o /\ x.op = "read_after"
    BY <1>2, <2>2, <2>10 DEF Totalling
  <2>12. x \in Requests(c) /\ Served(x) /\ ~Locking(x)
    BY <1>3, <2>11 DEF Requests, Served, Locking
  <2>13. y = [z EXCEPT !.completed = t[1], !.scrap = t[2]]
    BY <2>5, <2>7
  <2>14. orders' = [orders EXCEPT ![o] = y]
    BY <1>2, <1>3, <1>6, <2>1, <2>13 DEF Make!ReportTotal, MakeInv, MakeTypes
  <2>15. /\ receipts' = receipts /\ stock' = stock /\ log' = log /\ reported' = reported /\ trail' = trail
         /\ txn' = [txn EXCEPT ![w] = x]
    BY <1>6, <2>10 DEF Make!ReportTotal, Make!Become, MakeInv, MakeTypes
  <2> QED
    BY <1>2, <1>3, <1>4, <2>8, <2>9, <2>12, <2>14, <2>15, MakeHeader
<1>7. CASE Make(c)!CommitComplete(w)
  <2>1. PICK y : y = [z EXCEPT !.status = 3]
    OBVIOUS
  <2>2. /\ y \in WorkOrder(c) /\ y.materials = z.materials /\ y.operations = z.operations
        /\ y.completed = z.completed /\ y.scrap = z.scrap
    BY <1>3, <2>1, OrderStatus
  <2>3. /\ receipts' = receipts /\ stock' = stock /\ log' = log /\ reported' = reported
        /\ orders' = [orders EXCEPT ![o] = y] /\ txn' = [txn EXCEPT ![w] = Still]
    BY <1>2, <1>3, <1>7, <2>1 DEF Make!CommitComplete, Make!Completed, MakeInv, MakeTypes
  <2>4. trail' = [d \in c.orders |-> trail'[d]]
    BY <1>4, <1>7 DEF Make!CommitComplete
  <2> QED
    BY <1>2, <1>3, <1>4, <2>2, <2>3, <2>4, MakeHeader
<1> QED
  BY <1>5, <1>6, <1>7

\* The last statement of release and report adds a change record.
LEMMA MakeRecord ==
    ASSUME NEW CONSTANT c, Made(c), MakeInv(c), NEW w \in Workers, Make(c)!Record(w)
    PROVE  MakeInv(c)'
<1>1. /\ UNCHANGED <<orders, receipts, stock, log, reported>> /\ txn' = [txn EXCEPT ![w] = Still]
      /\ trail' = [d \in c.orders |-> trail'[d]]
  BY DEF Make!Record, Make!Idle, Still, MakeInv, MakeTypes
<1>2. MakeAside(c, w, Still)
  BY <1>1 DEF MakeAside, MakeInv, MakeTypes, MakeOrders, Locking
<1> QED
  BY <1>2, MakeAsideStep

\* A new order has picked and reported nothing, and the ledger does not know it.
LEMMA MakeCreate ==
    ASSUME NEW CONSTANT c, Made(c), MakeInv(c), NEW o \in c.orders, Make(c)!CreateWorkOrder(o)
    PROVE  MakeInv(c)'
<1>1. orders[o] = Gone /\ UNCHANGED <<receipts, stock, log, txn, reported>> /\ trail' = [d \in c.orders |-> trail'[d]]
  BY DEF Make!CreateWorkOrder, Make!Absent, Gone, MakeInv, MakeTypes
<1>20. PICK bom \in c.boms, n \in c.planned, item \in c.items :
         orders' = [orders EXCEPT ![o] =
               [item |-> item, planned |-> n, completed |-> 0, scrap |-> 0, status |-> 0,
                materials |-> [k \in DOMAIN bom |->
                  [item |-> bom[k].item, required |-> bom[k].quantity * n, picked |-> 0]],
                operations |-> [k \in 1..c.operations |-> [completed |-> 0, scrap |-> 0, status |-> 0]]]]
  BY DEF Make!CreateWorkOrder, Make!Draft, Make!Pending
<1>2. PICK y :
        /\ y = [item |-> item, planned |-> n, completed |-> 0, scrap |-> 0, status |-> 0,
                materials |-> [k \in DOMAIN bom |->
                  [item |-> bom[k].item, required |-> bom[k].quantity * n, picked |-> 0]],
                operations |-> [k \in 1..c.operations |-> [completed |-> 0, scrap |-> 0, status |-> 0]]]
        /\ orders' = [orders EXCEPT ![o] = y]
  BY <1>20
<1> DEFINE ms == [k \in DOMAIN bom |-> [item |-> bom[k].item, required |-> bom[k].quantity * n, picked |-> 0]]
           ops == [k \in 1..c.operations |-> [completed |-> 0, scrap |-> 0, status |-> 0]]
<1>3. n \in Int /\ bom \in Seq([item : c.items, quantity : Int]) /\ c.operations \in Nat
  BY DEF Made, Make!ProductionAssumption
<1>4. ms \in Seq(Material(c)) /\ \A k \in DOMAIN ms : ms[k] \in Material(c) /\ ms[k].picked = 0 /\ ms[k].required \in Int
  <2>1. \A k \in DOMAIN bom : bom[k].item \in c.items /\ bom[k].quantity \in Int
    <3>1. \A k \in DOMAIN bom : bom[k] \in [item : c.items, quantity : Int]
      <4> DEFINE R == [item : c.items, quantity : Int]
      <4>1. bom \in Seq(R)
        BY <1>3
      <4> HIDE DEF R
      <4>2. \A k \in DOMAIN bom : bom[k] \in R
        BY <4>1
      <4> QED
        BY <4>2 DEF R
    <3> QED
      BY <3>1
  <2>2. \A k \in DOMAIN bom : bom[k].quantity * n \in Int
    BY <1>3, <2>1
  <2>3. \A k \in DOMAIN ms : ms[k] \in Material(c) /\ ms[k].picked = 0 /\ ms[k].required \in Int
    BY <2>1, <2>2 DEF Material
  <2>4. DOMAIN ms = 1..Len(bom) /\ Len(bom) \in Nat
    BY <1>3
  <2>5. ms \in [1..Len(bom) -> Material(c)]
    BY <2>3, <2>4
  <2> HIDE DEF ms
  <2> QED
    BY <2>3, <2>4, <2>5, SeqDef
<1>5. ops \in [1..c.operations -> Operation] /\ \A k \in DOMAIN ops : ops[k].completed = 0 /\ ops[k].scrap = 0
  BY DEF Operation
<1>6. y = [item |-> item, planned |-> n, completed |-> 0, scrap |-> 0, status |-> 0, materials |-> ms, operations |-> ops]
  BY <1>2
<1> HIDE DEF ms, ops
<1>7. /\ y \in WorkOrder(c) /\ y.materials = ms /\ y.operations = ops /\ y.completed = 0 /\ y.scrap = 0
  BY <1>3, <1>4, <1>5, <1>6 DEF WorkOrder
<1>8. y # Gone
  BY <1>7, OrderNotGone
<1>9. /\ orders'[o] = y /\ \A d \in c.orders \ {o} : orders'[d] = orders[d]
      /\ orders' \in [c.orders -> WorkOrder(c) \cup {Gone}]
  BY <1>2, <1>7 DEF MakeInv, MakeTypes
<1>10. MakeTypes(c)'
  BY <1>1, <1>9 DEF MakeInv, MakeTypes
<1>11. MakeLocks(c)'
  <2>1. ASSUME NEW w \in Workers, txn[w] # Still PROVE Served(txn[w])'
    <3>1. /\ txn[w] \in Requests(c) /\ Served(txn[w]) /\ txn[w].ref \in c.orders
      BY <2>1, MakeServed
    <3>2. orders'[txn[w].ref] = orders[txn[w].ref] /\ txn' = txn /\ reported' = reported
      BY <1>1, <1>9, <3>1 DEF Served
    <3> QED
      BY <1>1, <3>1, <3>2 DEF Served, PicksFit, Found, Summed
  <2>2. txn' = txn
    BY <1>1
  <2>3. \A w \in Workers : txn'[w] # Still => Served(txn[w])'
    BY <2>1, <2>2
  <2> QED
    BY <2>2, <2>3 DEF MakeInv, MakeLocks
<1>12. MakeOrders(c)'
  <2>1. ASSUME NEW d \in c.orders \ {o}
        PROVE  /\ orders'[d] = Gone => reported'[d] = <<>>
               /\ orders'[d] # Gone =>
                    /\ Within(orders'[d].materials)
                    /\ Summed(d, <<orders[d].completed, orders[d].scrap>>)'
                    /\ \A j \in {1, 2} :
                         OperationSum(orders'[d].operations, j) = Prefix(reported'[d], Len(reported'[d]), j)
    BY <1>1, <1>9 DEF MakeInv, MakeOrders, Summed
  <2>2. reported'[o] = <<>> /\ Len(reported'[o]) = 0
    <3>1. reported[o] = <<>> /\ reported' = reported
      BY <1>1 DEF MakeInv, MakeOrders
    <3>2. Len(<<>>) = 0
      OBVIOUS
    <3> QED
      BY <3>1, <3>2
  <2>3. Within(orders'[o].materials)
    BY <1>4, <1>7, <1>9 DEF Within, Asked
  <2>4. \A j \in {1, 2} : Prefix(reported'[o], 0, j) = 0
    BY PrefixEmpty
  <2>5. Summed(o, <<orders[o].completed, orders[o].scrap>>)'
    <3>1. 0 \in 0..Len(reported'[o])
      BY <2>2
    <3> QED
      BY <1>7, <1>9, <2>4, <3>1 DEF Summed
  <2>6. \A j \in {1, 2} : OperationSum(orders'[o].operations, j) = 0
    <3> SUFFICES ASSUME NEW j \in {1, 2} PROVE OperationSum(ops, j) = 0
      BY <1>7, <1>9
    <3> DEFINE f == [k \in DOMAIN ops |-> IF j = 1 THEN ops[k].completed ELSE ops[k].scrap]
    <3>1. \A k \in DOMAIN ops : f[k] = 0
      BY <1>5
    <3>2. IsFiniteSet(DOMAIN ops)
      <4>1. c.operations \in Int /\ 1 \in Int
        BY <1>3
      <4> QED
        BY <1>5, <4>1, FS_Interval
    <3>3. OperationSum(ops, j) = SumFunctionOnSet(f, DOMAIN ops)
      BY DEF OperationSum
    <3> HIDE DEF f
    <3> QED
      BY <3>1, <3>2, <3>3, SumZero
  <2>7. /\ orders'[o] = Gone => reported'[o] = <<>>
        /\ orders'[o] # Gone =>
             /\ Within(orders'[o].materials)
             /\ Summed(o, <<orders[o].completed, orders[o].scrap>>)'
             /\ \A j \in {1, 2} :
                  OperationSum(orders'[o].operations, j) = Prefix(reported'[o], Len(reported'[o]), j)
    BY <2>2, <2>3, <2>4, <2>5, <2>6
  <2> QED
    BY <2>1, <2>7 DEF MakeOrders, Summed
<1>13. MakeLedger(c)'
  <2>1. log' = log /\ stock' = stock
    BY <1>1
  <2>2. \A k \in DOMAIN log' : log'[k].type = "pick" => log'[k].ref \in c.orders /\ orders'[log'[k].ref] # Gone
    BY <1>1, <1>9, <2>1 DEF MakeInv, MakeLedger
  <2>3. PicksOf(log, o) = {}
    BY <1>1 DEF PicksOf, MakeInv, MakeLedger
  <2>4. AllPicked(ms) = 0
    <3> DEFINE f == [m \in DOMAIN ms |-> ms[m].picked]
    <3>1. \A m \in DOMAIN ms : f[m] = 0
      BY <1>4
    <3>2. IsFiniteSet(DOMAIN ms)
      <4>1. DOMAIN ms = 1..Len(ms) /\ Len(ms) \in Int /\ 1 \in Int
        BY <1>4
      <4> QED
        BY <4>1, FS_Interval
    <3>3. AllPicked(ms) = SumFunctionOnSet(f, DOMAIN ms)
      BY DEF AllPicked
    <3> HIDE DEF f
    <3> QED
      BY <3>1, <3>2, <3>3, SumZero
  <2>5. \A d \in c.orders : orders'[d] # Gone => AllPicked(orders'[d].materials) = Move(log', PicksOf(log', d))
    <3>1. AllPicked(orders'[o].materials) = Move(log', PicksOf(log', o))
      BY <1>7, <1>9, <2>1, <2>3, <2>4, MoveNothing, Zenon
    <3>2. \A d \in c.orders \ {o} :
            orders'[d] # Gone => AllPicked(orders'[d].materials) = Move(log', PicksOf(log', d))
      BY <1>9, <2>1 DEF MakeInv, MakeLedger
    <3> QED
      BY <3>1, <3>2
  <2> QED
    BY <2>1, <2>2, <2>5 DEF MakeInv, MakeLedger
<1> QED
  BY <1>10, <1>11, <1>12, <1>13 DEF MakeInv

\* A report more changes no earlier sum.
LEMMA PrefixMore ==
    ASSUME NEW rs \in Seq(Pair), NEW r \in Pair, NEW n \in 0..Len(rs), NEW j \in {1, 2}
    PROVE  /\ Prefix(Append(rs, r), n, j) = Prefix(rs, n, j) /\ Prefix(rs, n, j) \in Int
           /\ Prefix(Append(rs, r), Len(rs) + 1, j) = Prefix(rs, Len(rs), j) + r[j]
<1>1. ASSUME NEW m \in 0..Len(rs)
      PROVE  /\ Prefix(Append(rs, r), m, j) = Prefix(rs, m, j) /\ Prefix(rs, m, j) \in Int
             /\ IsFiniteSet(1..m)
  <2> DEFINE f == [k \in 1..m |-> rs[k][j]]
             e == [k \in 1..m |-> Append(rs, r)[k][j]]
  <2>1. m \in Int /\ 1 \in Int /\ IsFiniteSet(1..m)
    BY FS_Interval
  <2>2. ASSUME NEW k \in 1..m PROVE f[k] \in Int /\ e[k] = f[k]
    <3>1. k \in 1..Len(rs) /\ Append(rs, r)[k] = rs[k]
      OBVIOUS
    <3>2. rs[k] \in Pair
      BY <3>1
    <3> QED
      BY <3>1, <3>2 DEF Pair
  <2>3. Prefix(rs, m, j) = SumFunctionOnSet(f, 1..m) /\ Prefix(Append(rs, r), m, j) = SumFunctionOnSet(e, 1..m)
    BY DEF Prefix
  <2> HIDE DEF f, e
  <2> QED
    <3> DEFINE D == 1..m
    <3>1. IsFiniteSet(D) /\ \A k \in D : f[k] \in Int /\ e[k] = f[k]
      BY <2>1, <2>2
    <3>2. Prefix(rs, m, j) = SumFunctionOnSet(f, D) /\ Prefix(Append(rs, r), m, j) = SumFunctionOnSet(e, D)
      BY <2>3
    <3> HIDE DEF D
    <3>3. SumFunctionOnSet(f, D) = SumFunctionOnSet(e, D) /\ SumFunctionOnSet(f, D) \in Int
      BY <3>1, SumCongruent, SumInt
    <3> QED
      BY <2>1, <3>2, <3>3
<1>2. Prefix(Append(rs, r), Len(rs) + 1, j) = Prefix(rs, Len(rs), j) + r[j]
  <2> DEFINE m == Len(rs)
             f == [k \in 1..m |-> rs[k][j]]
             e == [k \in 1..(m + 1) |-> Append(rs, r)[k][j]]
  <2>1. m \in Nat /\ m \in 0..Len(rs) /\ 1..(m + 1) = (1..m) \cup {m + 1} /\ m + 1 \notin 1..m
    OBVIOUS
  <2>2. ASSUME NEW k \in 1..m PROVE f[k] \in Int /\ e[k] = f[k]
    <3>1. k \in 1..Len(rs) /\ Append(rs, r)[k] = rs[k] /\ k \in 1..(m + 1)
      OBVIOUS
    <3>2. rs[k] \in Pair
      BY <3>1
    <3> QED
      BY <3>1, <3>2 DEF Pair
  <2>3. e[m + 1] = r[j] /\ r[j] \in Int
    <3>1. Append(rs, r)[m + 1] = r /\ m + 1 \in 1..(m + 1)
      OBVIOUS
    <3> QED
      BY <3>1 DEF Pair
  <2>4. /\ Prefix(rs, m, j) = SumFunctionOnSet(f, 1..m)
        /\ Prefix(Append(rs, r), m + 1, j) = SumFunctionOnSet(e, 1..(m + 1))
    BY DEF Prefix
  <2>5. m \in Nat /\ e[m + 1] \in Int /\ \A k \in 1..m : f[k] \in Int /\ e[k] = f[k]
    BY <2>1, <2>2, <2>3
  <2> HIDE DEF f, e, m
  <2>6. SumFunctionOnSet(e, 1..(m + 1)) = SumFunctionOnSet(f, 1..m) + e[m + 1]
    BY <2>5, SumNext
  <2> QED
    BY <2>3, <2>4, <2>6 DEF m
<1> QED
  BY <1>1, <1>2

\* A report raises one operation, and the reports by one.
LEMMA MakeReportOperation ==
    ASSUME NEW CONSTANT c, Made(c), MakeInv(c), NEW w \in Workers, Make(c)!ReportOperation(w)
    PROVE  MakeInv(c)'
<1> USE DEF Make!Idle, Still, Make!Doing
<1>1. txn[w] # Still /\ txn[w].op = "report"
  BY DEF Make!ReportOperation
<1>2. PICK o, z, k, r, ops :
        o = txn[w].ref /\ z = orders[o] /\ k = txn[w].operation /\ r = txn[w].report /\ ops = z.operations
  OBVIOUS
<1>3. /\ txn[w] \in Counting(c) /\ z \in WorkOrder(c) /\ o \in c.orders /\ reported[o] \in Seq(Pair)
      /\ orders[o] # Gone
  BY <1>1, <1>2, MakeServed, MakeWork DEF Served
<1>4. r \in Pair /\ k \in Int /\ ops \in [1..c.operations -> Operation]
  BY <1>2, <1>3 DEF Counting, WorkOrder
<1>5. PICK x : x = [txn[w] EXCEPT !.op = "sum"]
  OBVIOUS
<1>6. x \in Counting(c) /\ x.ref = o /\ x.op = "sum"
  BY <1>2, <1>3, <1>5 DEF Counting
<1>7. x \in Requests(c) /\ ~Locking(x)
  BY <1>6 DEF Requests, Locking
<1>8. txn' = [txn EXCEPT ![w] = x] /\ UNCHANGED <<receipts, stock, log, trail>>
  BY <1>5 DEF Make!ReportOperation, Make!Become, MakeInv, MakeTypes
<1>9. CASE k \notin DOMAIN ops
  <2>1. orders' = orders /\ reported' = reported
    BY <1>2, <1>9 DEF Make!ReportOperation
  <2>2. Served(x)
    BY <1>3, <1>6 DEF Served
  <2> QED
    BY <1>7, <1>8, <2>1, <2>2, MakeQuiet
<1>10. CASE k \in DOMAIN ops
  <2>1. PICK p : p = [completed |-> ops[k].completed + r[1], scrap |-> ops[k].scrap + r[2], status |-> 2]
    OBVIOUS
  <2>2. PICK nops : nops = [ops EXCEPT ![k] = p]
    OBVIOUS
  <2>3. PICK y : y = [z EXCEPT !.operations = nops]
    OBVIOUS
  <2>4. /\ orders' = [orders EXCEPT ![o] = y]
        /\ reported' = [reported EXCEPT ![o] = Append(reported[o], r)]
    <3>1. /\ orders' = [orders EXCEPT ![o].operations[k] =
                 [completed |-> @.completed + r[1], scrap |-> @.scrap + r[2], status |-> 2]]
          /\ reported' = [reported EXCEPT ![o] = Append(@, r)]
      BY <1>2, <1>10 DEF Make!ReportOperation, Make!Reported
    <3> QED
      BY <1>2, <1>3, <1>4, <1>10, <2>1, <2>2, <2>3, <3>1 DEF MakeInv, MakeTypes
  <2>5. ops[k] \in Operation /\ r[1] \in Int /\ r[2] \in Int
    BY <1>4, <1>10 DEF Pair
  <2>6. p \in Operation /\ p.completed = ops[k].completed + r[1] /\ p.scrap = ops[k].scrap + r[2]
    BY <2>1, <2>5 DEF Operation
  <2>7. /\ nops \in [1..c.operations -> Operation] /\ nops[k] = p
        /\ \A i \in DOMAIN ops \ {k} : nops[i] = ops[i]
    BY <1>4, <1>10, <2>2, <2>6
  <2>8. /\ y \in WorkOrder(c) /\ y.materials = z.materials /\ y.operations = nops
        /\ y.completed = z.completed /\ y.scrap = z.scrap
    BY <1>3, <2>3, <2>7 DEF WorkOrder
  <2>9. /\ orders'[o] = y /\ \A d \in c.orders \ {o} : orders'[d] = orders[d]
        /\ orders' \in [c.orders -> WorkOrder(c) \cup {Gone}] /\ y # Gone
    <3>1. y # Gone
      BY <2>8, OrderNotGone
    <3>2. orders \in [c.orders -> WorkOrder(c) \cup {Gone}]
      BY DEF MakeInv, MakeTypes
    <3> QED
      BY <1>3, <2>4, <2>8, <3>1, <3>2
  <2>10. /\ reported'[o] = Append(reported[o], r) /\ \A d \in c.orders \ {o} : reported'[d] = reported[d]
         /\ reported' \in [c.orders -> Seq(Pair)]
    BY <1>3, <1>4, <2>4 DEF MakeInv, MakeTypes
  <2>11. MakeTypes(c)'
    <3>1. txn' \in [Workers -> Requests(c) \cup {Still}]
      BY <1>7, <1>8 DEF MakeInv, MakeTypes
    <3> QED
      BY <1>8, <2>9, <2>10, <3>1 DEF MakeInv, MakeTypes
  <2>12. ASSUME NEW d \in c.orders, NEW t, Summed(d, t) PROVE Summed(d, t)'
    <3>1. CASE d # o
      BY <2>10, <2>12, <3>1 DEF Summed
    <3>2. CASE d = o
      <4>1. PICK n \in 0..Len(reported[o]) : \A j \in {1, 2} : t[j] = Prefix(reported[o], n, j)
        BY <2>12, <3>2 DEF Summed
      <4>2. \A j \in {1, 2} : Prefix(reported'[o], n, j) = Prefix(reported[o], n, j)
        BY <1>3, <1>4, <2>10, PrefixMore
      <4>3. n \in 0..Len(reported'[o])
        BY <1>3, <2>10
      <4> QED
        BY <3>2, <4>1, <4>2, <4>3 DEF Summed
    <3> QED
      BY <3>1, <3>2
  <2>13. ASSUME NEW q, q \in Requests(c), Served(q) PROVE Served(q)'
    <3>1. q.ref \in c.orders /\ orders[q.ref] # Gone
      BY <2>13, MakeWork DEF Served
    <3>2. orders'[q.ref] # Gone /\ orders'[q.ref].materials = orders[q.ref].materials
      BY <1>2, <2>8, <2>9, <3>1
    <3>3. q.op = "total" => Summed(q.ref, q.totals)'
      BY <2>12, <2>13, <3>1 DEF Served
    <3>4. q.op = "pick" => PicksFit(q)' /\ Found(q)'
      BY <1>8, <2>13, <3>2 DEF Served, PicksFit, Found
    <3> QED
      BY <3>2, <3>3, <3>4 DEF Served
  <2>14. txn'[w] = x /\ \A v \in Workers \ {w} : txn'[v] = txn[v]
    BY <1>8 DEF MakeInv, MakeTypes
  <2>15. MakeLocks(c)'
    <3>1. ASSUME NEW v \in Workers, txn'[v] # Still PROVE Served(txn[v])'
      <4>1. PICK q : q = txn'[v]
        OBVIOUS
      <4>2. q \in Requests(c) /\ Served(q)
        <5>1. CASE v = w
          BY <1>3, <1>6, <1>7, <2>14, <4>1, <5>1 DEF Served
        <5>2. CASE v # w
          BY <2>14, <3>1, <4>1, <5>2 DEF MakeInv, MakeLocks, MakeTypes
        <5> QED
          BY <5>1, <5>2
      <4>3. Served(q)'
        BY <2>13, <4>2
      <4> QED
        BY <4>1, <4>3 DEF Served
    <3>2. \A v, u \in Workers :
            Locking(txn'[v]) /\ Locking(txn'[u]) /\ txn'[v].ref = txn'[u].ref => v = u
      BY <1>7, <2>14 DEF MakeInv, MakeLocks
    <3> QED
      BY <3>1, <3>2 DEF MakeLocks
  <2>16. \A j \in {1, 2} : OperationSum(nops, j) = Prefix(reported'[o], Len(reported'[o]), j)
    <3> SUFFICES ASSUME NEW j \in {1, 2}
                 PROVE  OperationSum(nops, j) = Prefix(reported'[o], Len(reported'[o]), j)
      OBVIOUS
    <3> DEFINE D == DOMAIN ops
               f == [i \in D |-> IF j = 1 THEN ops[i].completed ELSE ops[i].scrap]
               e == [i \in D |-> IF j = 1 THEN nops[i].completed ELSE nops[i].scrap]
    <3>1. D = 1..c.operations /\ DOMAIN nops = D /\ IsFiniteSet(D)
      <4>1. c.operations \in Int /\ 1 \in Int
        BY DEF Made, Make!ProductionAssumption
      <4> QED
        BY <1>4, <2>7, <4>1, FS_Interval
    <3>2. \A i \in D : f[i] \in Int
      BY <1>4 DEF Operation
    <3>3. \A i \in D \ {k} : e[i] = f[i]
      BY <2>7
    <3>4. e[k] = f[k] + r[j] /\ r[j] \in Int /\ k \in D
      BY <1>10, <2>5, <2>6, <2>7
    <3>5. OperationSum(ops, j) = SumFunctionOnSet(f, D) /\ OperationSum(nops, j) = SumFunctionOnSet(e, D)
      BY <3>1 DEF OperationSum
    <3> HIDE DEF f, e, D
    <3>6. f[k] \in Int /\ e[k] \in Int
      BY <3>2, <3>4
    <3>7. SumFunctionOnSet(e, D) = SumFunctionOnSet(f, D) - f[k] + e[k] /\ SumFunctionOnSet(f, D) \in Int
      <4>1. SumFunctionOnSet(f, D) \in Int
        BY <3>1, <3>2, SumInt
      <4>2. IsFiniteSet(D) /\ k \in D
        BY <3>1, <3>4
      <4>3. SumFunctionOnSet(e, D) = SumFunctionOnSet(f, D) - f[k] + e[k]
        BY <3>2, <3>3, <3>6, <4>2, SumUpdate
      <4> QED
        BY <4>1, <4>3
    <3>8. OperationSum(ops, j) = Prefix(reported[o], Len(reported[o]), j)
      BY <1>2, <1>3 DEF MakeInv, MakeOrders
    <3>9. /\ Prefix(reported'[o], Len(reported[o]) + 1, j) = Prefix(reported[o], Len(reported[o]), j) + r[j]
          /\ Len(reported'[o]) = Len(reported[o]) + 1
      <4>1. Len(reported[o]) \in 0..Len(reported[o])
        BY <1>3
      <4> QED
        BY <1>3, <1>4, <2>10, <4>1, PrefixMore
    <3> QED
      BY <3>4, <3>5, <3>6, <3>7, <3>8, <3>9
  <2>17. MakeOrders(c)'
    <3>1. ASSUME NEW d \in c.orders \ {o}
          PROVE  /\ orders'[d] = Gone => reported'[d] = <<>>
                 /\ orders'[d] # Gone =>
                      /\ Within(orders'[d].materials)
                      /\ Summed(d, <<orders[d].completed, orders[d].scrap>>)'
                      /\ \A j \in {1, 2} :
                           OperationSum(orders'[d].operations, j) = Prefix(reported'[d], Len(reported'[d]), j)
      <4>1. orders'[d] = orders[d] /\ reported'[d] = reported[d]
        BY <2>9, <2>10
      <4>2. orders[d] # Gone => Summed(d, <<orders[d].completed, orders[d].scrap>>)'
        BY <4>1 DEF MakeInv, MakeOrders, Summed
      <4> QED
        BY <4>1, <4>2 DEF MakeInv, MakeOrders
    <3>2. Summed(o, <<orders[o].completed, orders[o].scrap>>)'
      <4>1. PICK t : t = <<z.completed, z.scrap>>
        OBVIOUS
      <4>2. Summed(o, t)
        BY <1>2, <1>3, <4>1 DEF MakeInv, MakeOrders
      <4>3. Summed(o, t)'
        BY <1>3, <2>12, <4>2
      <4>4. t = <<orders'[o].completed, orders'[o].scrap>>
        BY <2>8, <2>9, <4>1
      <4> QED
        BY <4>3, <4>4 DEF Summed
    <3>3. Within(orders'[o].materials)
      BY <1>2, <1>3, <2>8, <2>9 DEF MakeInv, MakeOrders
    <3>4. /\ orders'[o] # Gone
          /\ \A j \in {1, 2} :
               OperationSum(orders'[o].operations, j) = Prefix(reported'[o], Len(reported'[o]), j)
      BY <2>8, <2>9, <2>16
    <3> QED
      BY <3>1, <3>2, <3>3, <3>4 DEF MakeOrders, Summed
  <2>18. MakeLedger(c)'
    <3>1. log' = log /\ stock' = stock
      BY <1>8
    <3>2. \A d \in c.orders : /\ orders'[d] # Gone <=> orders[d] # Gone
                              /\ orders[d] # Gone => orders'[d].materials = orders[d].materials
      BY <1>2, <1>3, <2>8, <2>9
    <3> QED
      BY <3>1, <3>2 DEF MakeInv, MakeLedger
  <2> QED
    BY <2>11, <2>15, <2>17, <2>18 DEF MakeInv
<1> QED
  BY <1>9, <1>10

\* The ledger is longer and the stock has followed it.
LEMMA LedgerJoined ==
    ASSUME NEW CONSTANT c, NEW g \in Seq(Movement(c)), NEW h \in Seq(Movement(c))
    PROVE  /\ \A type, p :
                /\ Move(g \o h, Moves(g \o h, type, p)) = Move(g, Moves(g, type, p)) + Move(h, Moves(h, type, p))
                /\ Move(g, Moves(g, type, p)) \in Int /\ Move(h, Moves(h, type, p)) \in Int
           /\ \A o :
                /\ Move(g \o h, PicksOf(g \o h, o)) = Move(g, PicksOf(g, o)) + Move(h, PicksOf(h, o))
                /\ Move(g, PicksOf(g, o)) \in Int /\ Move(h, PicksOf(h, o)) \in Int
<1> DEFINE S == Movement(c)
<1>1. \A l \in S : l.quantity \in Int
  BY DEF Movement
<1> HIDE DEF S
<1>2. g \in Seq(S) /\ h \in Seq(S)
  BY DEF S
<1>3. /\ DOMAIN g = 1..Len(g) /\ DOMAIN h = 1..Len(h) /\ Len(g) \in Nat /\ Len(h) \in Nat
      /\ DOMAIN (g \o h) = 1..(Len(g) + Len(h))
      /\ \A k \in 1..Len(g) : (g \o h)[k] = g[k]
      /\ \A j \in 1..Len(h) : (g \o h)[Len(g) + j] = h[j]
  BY <1>2
<1>4. \A k \in 1..(Len(g) + Len(h)) : k \in 1..Len(g) \/ (k - Len(g) \in 1..Len(h) /\ k = Len(g) + (k - Len(g)))
  BY <1>3
<1>5. ASSUME NEW type, NEW p
      PROVE  Moves(g \o h, type, p) = Moves(g, type, p) \cup {Len(g) + j : j \in Moves(h, type, p)}
  BY <1>3, <1>4 DEF Moves
<1>6. ASSUME NEW o
      PROVE  PicksOf(g \o h, o) = PicksOf(g, o) \cup {Len(g) + j : j \in PicksOf(h, o)}
  BY <1>3, <1>4 DEF PicksOf
<1>7. ASSUME NEW K \in SUBSET DOMAIN g, NEW L \in SUBSET DOMAIN h
      PROVE  /\ Move(g \o h, K \cup {Len(g) + j : j \in L}) = Move(g, K) + Move(h, L)
             /\ Move(g, K) \in Int /\ Move(h, L) \in Int
  <2>1. Move(g \o h, K \cup {Len(g) + j : j \in L}) = Move(g, K) + Move(h, L)
    BY <1>1, <1>2, MoveJoin, SMTT(40)
  <2>2. /\ IsFiniteSet(DOMAIN g) /\ \A k \in DOMAIN g : g[k].quantity \in Int
        /\ IsFiniteSet(DOMAIN h) /\ \A k \in DOMAIN h : h[k].quantity \in Int
    <3>1. IsFiniteSet(1..Len(g)) /\ IsFiniteSet(1..Len(h))
      BY <1>3, FS_Interval
    <3> QED
      BY <1>1, <1>2, <1>3, <3>1
  <2>3. Move(g, K) \in Int /\ Move(h, L) \in Int
    BY <2>2, MoveInt
  <2> QED
    BY <2>1, <2>3
<1>8. ASSUME NEW type, NEW p
      PROVE  /\ Move(g \o h, Moves(g \o h, type, p)) = Move(g, Moves(g, type, p)) + Move(h, Moves(h, type, p))
             /\ Move(g, Moves(g, type, p)) \in Int /\ Move(h, Moves(h, type, p)) \in Int
  <2>1. Moves(g, type, p) \in SUBSET DOMAIN g /\ Moves(h, type, p) \in SUBSET DOMAIN h
    BY DEF Moves
  <2> QED
    BY <1>5, <1>7, <2>1
<1>9. ASSUME NEW o
      PROVE  /\ Move(g \o h, PicksOf(g \o h, o)) = Move(g, PicksOf(g, o)) + Move(h, PicksOf(h, o))
             /\ Move(g, PicksOf(g, o)) \in Int /\ Move(h, PicksOf(h, o)) \in Int
  <2>1. PicksOf(g, o) \in SUBSET DOMAIN g /\ PicksOf(h, o) \in SUBSET DOMAIN h
    BY DEF PicksOf
  <2> QED
    BY <1>6, <1>7, <2>1
<1> QED
  BY <1>8, <1>9

\* Goods move: the ledger gets the movements h, stock and materials follow.
LEMMA LedgerStep ==
    ASSUME NEW CONSTANT c, Made(c), MakeInv(c), NEW h \in Seq(Movement(c)), log' = log \o h,
           \A p \in DOMAIN c.opening :
             stock'[p] = stock[p] + Move(h, Moves(h, "inbound", p)) - Move(h, Moves(h, "pick", p)),
           \A k \in DOMAIN h : h[k].type = "pick" => h[k].ref \in c.orders /\ orders[h[k].ref] # Gone,
           \A d \in c.orders :
             /\ orders'[d] = Gone <=> orders[d] = Gone
             /\ orders[d] # Gone =>
                  AllPicked(orders'[d].materials) = AllPicked(orders[d].materials) + Move(h, PicksOf(h, d))
    PROVE  MakeLedger(c)'
<1>1. log \in Seq(Movement(c))
  BY DEF MakeInv, MakeTypes
<1>2. \A k \in DOMAIN log' : log'[k].type = "pick" => log'[k].ref \in c.orders /\ orders'[log'[k].ref] # Gone
  <2> SUFFICES ASSUME NEW k \in DOMAIN log', log'[k].type = "pick"
               PROVE  log'[k].ref \in c.orders /\ orders'[log'[k].ref] # Gone
    OBVIOUS
  <2>1. \/ k \in DOMAIN log /\ log'[k] = log[k]
        \/ k - Len(log) \in DOMAIN h /\ log'[k] = h[k - Len(log)]
    BY <1>1
  <2> QED
    BY <2>1 DEF MakeInv, MakeLedger
<1>3. ASSUME NEW d \in c.orders, orders'[d] # Gone
      PROVE  AllPicked(orders'[d].materials) = Move(log', PicksOf(log', d))
  <2>1. Move(log \o h, PicksOf(log \o h, d)) = Move(log, PicksOf(log, d)) + Move(h, PicksOf(h, d))
    BY <1>1, LedgerJoined
  <2>2. AllPicked(orders[d].materials) = Move(log, PicksOf(log, d))
    BY <1>3 DEF MakeInv, MakeLedger
  <2> QED
    BY <1>3, <2>1, <2>2
<1>4. ASSUME NEW p \in DOMAIN c.opening
      PROVE  stock'[p] = c.opening[p] + Move(log', Moves(log', "inbound", p)) - Move(log', Moves(log', "pick", p))
  <2>1. /\ Move(log \o h, Moves(log \o h, "inbound", p))
             = Move(log, Moves(log, "inbound", p)) + Move(h, Moves(h, "inbound", p))
        /\ Move(log \o h, Moves(log \o h, "pick", p))
             = Move(log, Moves(log, "pick", p)) + Move(h, Moves(h, "pick", p))
        /\ Move(log, Moves(log, "inbound", p)) \in Int /\ Move(log, Moves(log, "pick", p)) \in Int
        /\ Move(h, Moves(h, "inbound", p)) \in Int /\ Move(h, Moves(h, "pick", p)) \in Int
    BY <1>1, LedgerJoined
  <2>2. stock[p] = c.opening[p] + Move(log, Moves(log, "inbound", p)) - Move(log, Moves(log, "pick", p))
    BY DEF MakeInv, MakeLedger
  <2>3. c.opening[p] \in Int
    BY DEF Made, Make!ProductionAssumption
  <2> QED
    BY <2>1, <2>2, <2>3
<1> QED
  BY <1>2, <1>3, <1>4 DEF MakeLedger

\* What a pick adds to the materials of its order is what it has taken.
Raised(ms, done) ==
    [m \in DOMAIN ms |-> [ms[m] EXCEPT !.picked = ms[m].picked + Move(done, OfMaterial(done, m))]]

\* The picked quantities rise by all that was taken, each by what its lines took.
LEMMA PickedMore ==
    ASSUME NEW CONSTANT c, Made(c), NEW ms \in Seq(Material(c)), NEW done \in Seq(Pick(c)),
           \A k \in DOMAIN done : done[k].material \in DOMAIN ms,
           NEW nm, nm = Raised(ms, done)
    PROVE  /\ nm \in Seq(Material(c)) /\ DOMAIN nm = DOMAIN ms
           /\ \A m \in DOMAIN ms : /\ nm[m].picked = ms[m].picked + Move(done, OfMaterial(done, m))
                                   /\ nm[m].required = ms[m].required
           /\ AllPicked(nm) = AllPicked(ms) + Move(done, DOMAIN done)
           /\ \A K \in SUBSET DOMAIN done : Move(done, K) \in Int /\ IsFiniteSet(K)
<1>1. \A k \in DOMAIN done : done[k].quantity \in Int
  <2>1. \A k \in DOMAIN done : done[k] \in Pick(c)
    OBVIOUS
  <2> QED
    BY <2>1 DEF Pick, Made, Make!ProductionAssumption
<1>2. IsFiniteSet(DOMAIN done) /\ IsFiniteSet(DOMAIN ms)
  <2>1. DOMAIN done = 1..Len(done) /\ DOMAIN ms = 1..Len(ms) /\ Len(done) \in Int /\ Len(ms) \in Int /\ 1 \in Int
    OBVIOUS
  <2> QED
    BY <2>1, FS_Interval
<1>3. \A K \in SUBSET DOMAIN done : Move(done, K) \in Int /\ IsFiniteSet(K)
  BY <1>1, <1>2, MoveInt
<1>4. ASSUME NEW m \in DOMAIN ms
      PROVE  /\ ms[m].picked \in Int /\ Move(done, OfMaterial(done, m)) \in Int
             /\ nm[m] \in Material(c) /\ nm[m].required = ms[m].required
             /\ nm[m].picked = ms[m].picked + Move(done, OfMaterial(done, m))
  <2>1. ms[m] \in Material(c)
    OBVIOUS
  <2>2. Move(done, OfMaterial(done, m)) \in Int
    BY <1>3 DEF OfMaterial
  <2>3. PICK v : v = ms[m].picked + Move(done, OfMaterial(done, m))
    OBVIOUS
  <2>4. v \in Int
    BY <2>1, <2>2, <2>3 DEF Material
  <2>5. nm[m] = [ms[m] EXCEPT !.picked = v]
    BY <2>3 DEF Raised
  <2>6. nm[m] \in Material(c) /\ nm[m].required = ms[m].required /\ nm[m].picked = v
    BY <2>1, <2>4, <2>5 DEF Material
  <2> QED
    BY <2>1, <2>2, <2>3, <2>6 DEF Material
<1>5. nm \in Seq(Material(c)) /\ DOMAIN nm = DOMAIN ms
  <2>1. DOMAIN ms = 1..Len(ms) /\ Len(ms) \in Nat /\ DOMAIN nm = DOMAIN ms
    BY DEF Raised
  <2>2. nm \in [1..Len(ms) -> Material(c)]
    BY <1>4, <2>1 DEF Raised
  <2> QED
    BY <2>1, <2>2, SeqDef
<1>6. AllPicked(nm) = AllPicked(ms) + Move(done, DOMAIN done)
  <2> DEFINE M == DOMAIN ms
             D == DOMAIN done
             f == [m \in M |-> ms[m].picked]
             e == [m \in M |-> Move(done, OfMaterial(done, m))]
             g == [m \in M |-> nm[m].picked]
             q == [k \in D |-> done[k].quantity]
             r == [k \in D |-> done[k].material]
             K == [m \in M |-> OfMaterial(done, m)]
  <2>1. \A m \in M : f[m] \in Int /\ e[m] \in Int /\ g[m] = f[m] + e[m]
    BY <1>4
  <2>2. AllPicked(ms) = SumFunctionOnSet(f, M) /\ AllPicked(nm) = SumFunctionOnSet(g, M)
    BY <1>5 DEF AllPicked
  <2>3. \A k \in D : q[k] \in Int /\ r[k] \in M
    BY <1>1
  <2>4. Move(done, D) = SumFunctionOnSet(q, D)
    BY DEF Move
  <2>5. ASSUME NEW m \in M
        PROVE  /\ K[m] \in SUBSET D /\ \A k \in D : k \in K[m] <=> r[k] = m
               /\ e[m] = SumFunctionOnSet(q, K[m])
    <3> DEFINE L == K[m]
               p == [k \in L |-> done[k].quantity]
    <3>1. L \in SUBSET D /\ (\A k \in D : k \in L <=> r[k] = m) /\ L = OfMaterial(done, m)
      BY DEF OfMaterial
    <3>2. e[m] = SumFunctionOnSet(p, L)
      BY <3>1 DEF Move
    <3>3. \A k \in L : p[k] \in Int /\ q[k] = p[k]
      BY <2>3, <3>1
    <3>4. IsFiniteSet(L)
      BY <1>3, <3>1
    <3> HIDE DEF p, q, r, D, e, L
    <3>5. SumFunctionOnSet(p, L) = SumFunctionOnSet(q, L)
      BY <3>3, <3>4, SumCongruent
    <3> QED
      BY <3>1, <3>2, <3>5 DEF L
  <2>7. IsFiniteSet(M) /\ IsFiniteSet(D)
    BY <1>2
  <2> HIDE DEF f, e, g, q, r, M, D
  <2> HIDE DEF K
  <2>8. SumFunctionOnSet(e, M) = SumFunctionOnSet(q, D)
    <3>1. Classified(D, M, r, K) /\ ClassSums(M, q, K, e)
      BY <2>5 DEF Classified, ClassSums
    <3>2. IsFiniteSet(D) /\ IsFiniteSet(M) /\ \A k \in D : q[k] \in Int /\ r[k] \in M
      BY <2>3, <2>7
    <3> QED
      BY <3>1, <3>2, SumPartition
  <2>9. SumFunctionOnSet(g, M) = SumFunctionOnSet(f, M) + SumFunctionOnSet(e, M)
    BY <2>1, <2>7, SumPlus
  <2> QED
    BY <2>2, <2>4, <2>8, <2>9 DEF D
<1> QED
  BY <1>3, <1>4, <1>5, <1>6

\* What the ledger gets from a pick: the lines it has taken.
Issued(o, done) ==
    [k \in DOMAIN done |-> [type |-> "pick", ref |-> o, cell |-> <<done[k].item, done[k].warehouse>>,
                            quantity |-> done[k].quantity]]

\* The movements of a pick add up to its lines, by cell and for its order.
LEMMA IssuedMoves ==
    ASSUME NEW CONSTANT c, Made(c), NEW done \in Seq(Pick(c)), NEW o \in c.orders,
           NEW h, h = Issued(o, done)
    PROVE  /\ h \in Seq(Movement(c)) /\ \A k \in DOMAIN h : h[k].ref = o
           /\ \A p : /\ Move(h, Moves(h, "pick", p)) = Move(done, OfCell(done, p))
                     /\ Move(h, Moves(h, "pick", p)) \in Int /\ Move(h, Moves(h, "inbound", p)) = 0
           /\ Move(h, PicksOf(h, o)) = Move(done, DOMAIN done)
           /\ \A d : d # o => Move(h, PicksOf(h, d)) = 0
<1>1. \A k \in DOMAIN done :
        done[k].quantity \in Int /\ done[k].item \in c.items /\ done[k].warehouse \in c.warehouses
  <2>1. \A k \in DOMAIN done : done[k] \in Pick(c)
    OBVIOUS
  <2> QED
    BY <2>1 DEF Pick, Made, Make!ProductionAssumption
<1>2. /\ DOMAIN h = DOMAIN done
      /\ \A k \in DOMAIN done :
           /\ h[k].type = "pick" /\ h[k].ref = o /\ h[k].cell = <<done[k].item, done[k].warehouse>>
           /\ h[k].quantity = done[k].quantity
  BY DEF Issued
<1>3. DOMAIN done = 1..Len(done) /\ Len(done) \in Nat /\ IsFiniteSet(DOMAIN done)
  <2>1. DOMAIN done = 1..Len(done) /\ Len(done) \in Nat /\ 1 \in Int /\ Len(done) \in Int
    OBVIOUS
  <2> QED
    BY <2>1, FS_Interval
<1>4. h \in Seq(Movement(c))
  <2>1. \A k \in DOMAIN done : h[k] \in Movement(c)
    BY <1>1 DEF Issued, Movement
  <2>2. h \in [1..Len(done) -> Movement(c)]
    BY <1>3, <2>1 DEF Issued
  <2> QED
    BY <1>3, <2>2, SeqDef
<1>5. ASSUME NEW K \in SUBSET DOMAIN done PROVE Move(h, K) = Move(done, K) /\ Move(h, K) \in Int
  <2>1. IsFiniteSet(K) /\ Move(done, K) \in Int
    BY <1>1, <1>3, MoveInt
  <2>2. \A k \in K : done[k].quantity \in Int /\ h[k].quantity = done[k].quantity
    BY <1>1, <1>2
  <2> QED
    BY <2>1, <2>2, MoveSame
<1>6. ASSUME NEW p
      PROVE  /\ Move(h, Moves(h, "pick", p)) = Move(done, OfCell(done, p))
             /\ Move(h, Moves(h, "pick", p)) \in Int /\ Move(h, Moves(h, "inbound", p)) = 0
  <2>1. Moves(h, "pick", p) = OfCell(done, p) /\ Moves(h, "inbound", p) = {}
    BY <1>2 DEF Moves, OfCell
  <2>2. OfCell(done, p) \in SUBSET DOMAIN done
    BY DEF OfCell
  <2>3. Move(h, OfCell(done, p)) = Move(done, OfCell(done, p)) /\ Move(h, OfCell(done, p)) \in Int
    BY <1>5, <2>2
  <2>4. Move(h, Moves(h, "pick", p)) = Move(h, OfCell(done, p)) /\ Move(h, Moves(h, "inbound", p)) = 0
    BY <2>1, MoveNothing, Zenon
  <2> QED
    BY <2>3, <2>4
<1>7. ASSUME NEW d PROVE Move(h, PicksOf(h, d)) = IF d = o THEN Move(done, DOMAIN done) ELSE 0
  <2>1. CASE d = o
    <3>1. PicksOf(h, d) = DOMAIN done
      BY <1>2, <2>1 DEF PicksOf
    <3>2. Move(h, PicksOf(h, d)) = Move(h, DOMAIN done)
      BY <3>1, Zenon
    <3> QED
      BY <1>5, <2>1, <3>2
  <2>2. CASE d # o
    <3>1. PicksOf(h, d) = {}
      BY <1>2, <2>2 DEF PicksOf
    <3>2. Move(h, PicksOf(h, d)) = Move(h, {})
      BY <3>1, Zenon
    <3> QED
      BY <2>2, <3>2, MoveNothing
  <2> QED
    BY <2>1, <2>2
<1> QED
  BY <1>2, <1>4, <1>6, <1>7

\* A pick commits: materials, stock and ledger move by the same quantities.
LEMMA MakeCommitPick ==
    ASSUME NEW CONSTANT c, Made(c), MakeInv(c), NEW w \in Workers, Make(c)!CommitPick(w)
    PROVE  MakeInv(c)'
<1> USE DEF Make!Idle, Still, Make!Doing
<1>1. txn[w] # Still /\ txn[w].op = "pick"
  BY DEF Make!CommitPick
<1>2. PICK o, z, done, ms :
        o = txn[w].ref /\ z = orders[o] /\ done = txn[w].done /\ ms = z.materials
  OBVIOUS
<1>3. /\ txn[w] \in Taking(c) /\ PicksFit(txn[w]) /\ o \in c.orders /\ orders[o] # Gone
      /\ z \in WorkOrder(c) /\ Locking(txn[w])
  BY <1>1, <1>2, MakeServed, MakeWork DEF Served, Locking
<1>4. /\ ms \in Seq(Material(c)) /\ done \in Seq(Pick(c))
      /\ txn[w].missed \in Missing(c) /\ Found(txn[w])
  BY <1>1, <1>2, <1>3, MakeServed DEF WorkOrder, Taking, Served
<1>5. PICK nm : nm = Raised(ms, done)
  OBVIOUS
<1>6. PICK y : y = [z EXCEPT !.materials = nm]
  OBVIOUS
<1>7. PICK h : h = Issued(o, done)
  OBVIOUS
<1>8. /\ receipts' = receipts /\ reported' = reported /\ txn' = [txn EXCEPT ![w] = Still]
      /\ trail' = [d \in c.orders |-> trail'[d]]
  BY DEF Make!CommitPick, MakeInv, MakeTypes
<1>9. orders' = [orders EXCEPT ![o] = y]
  <2>1. \A m : Make(c)!AfterPick(ms[m], m, done)
               = [ms[m] EXCEPT !.picked = ms[m].picked + Move(done, OfMaterial(done, m))]
    BY MakeMoved DEF Make!AfterPick, Make!NewPicked, Make!PickedOf, OfMaterial
  <2>2. nm = [m \in DOMAIN ms |-> Make(c)!AfterPick(ms[m], m, done)]
    BY <1>5, <2>1 DEF Raised
  <2>3. orders' = [orders EXCEPT ![o].materials = [m \in DOMAIN @ |-> Make(c)!AfterPick(@[m], m, done)]]
    BY <1>2 DEF Make!CommitPick
  <2>4. orders' = [orders EXCEPT ![o].materials = nm]
    BY <1>2, <1>3, <2>2, <2>3 DEF MakeInv, MakeTypes
  <2> QED
    BY <1>2, <1>3, <1>6, <2>4 DEF MakeInv, MakeTypes
<1>10. log' = log \o h
  BY <1>2, <1>7 DEF Make!CommitPick, Make!CellOf, Issued
<1> DEFINE S == DOMAIN stock \cup {<<done[k].item, done[k].warehouse>> : k \in DOMAIN done}
           Left(p) == (IF p \in txn[w].missed THEN 0 ELSE stock[p]) - Move(done, OfCell(done, p))
<1>11. stock' = [p \in S |-> Left(p)]
  <2>1. \A p : Make(c)!OutOf(done, p) = Move(done, OfCell(done, p))
    BY MakeMoved DEF Make!OutOf, Make!CellOf, OfCell
  <2>2. stock' = [p \in S |-> Make(c)!Base(w, p) - Make(c)!OutOf(done, p)]
    BY <1>2 DEF Make!CommitPick, Make!CellOf
  <2> QED
    BY <2>1, <2>2 DEF Make!Base
<1>12. /\ nm \in Seq(Material(c)) /\ DOMAIN nm = DOMAIN ms
       /\ \A m \in DOMAIN ms : /\ nm[m].picked = ms[m].picked + Move(done, OfMaterial(done, m))
                               /\ nm[m].required = ms[m].required
       /\ AllPicked(nm) = AllPicked(ms) + Move(done, DOMAIN done)
  <2>1. \A k \in DOMAIN done : done[k].material \in DOMAIN ms
    BY <1>2, <1>3 DEF PicksFit
  <2> QED
    BY <1>4, <1>5, <2>1, PickedMore
<1>13. /\ h \in Seq(Movement(c)) /\ \A k \in DOMAIN h : h[k].ref = o
       /\ \A p : /\ Move(h, Moves(h, "pick", p)) = Move(done, OfCell(done, p))
                 /\ Move(h, Moves(h, "pick", p)) \in Int /\ Move(h, Moves(h, "inbound", p)) = 0
       /\ Move(h, PicksOf(h, o)) = Move(done, DOMAIN done)
       /\ \A d : d # o => Move(h, PicksOf(h, d)) = 0
  BY <1>3, <1>4, <1>7, IssuedMoves
<1>14. /\ y \in WorkOrder(c) /\ y.materials = nm /\ y.operations = z.operations
       /\ y.completed = z.completed /\ y.scrap = z.scrap /\ y # Gone
  <2>1. /\ y \in WorkOrder(c) /\ y.materials = nm /\ y.operations = z.operations
        /\ y.completed = z.completed /\ y.scrap = z.scrap
    BY <1>3, <1>6, <1>12 DEF WorkOrder
  <2> QED
    BY <2>1, OrderNotGone
<1>15. /\ orders'[o] = y /\ \A d \in c.orders \ {o} : orders'[d] = orders[d]
       /\ orders' \in [c.orders -> WorkOrder(c) \cup {Gone}]
  BY <1>3, <1>9, <1>14 DEF MakeInv, MakeTypes
<1>16. txn'[w] = Still /\ \A v \in Workers \ {w} : txn'[v] = txn[v]
  BY <1>8 DEF MakeInv, MakeTypes
<1>17. \A p \in S : /\ p \in Places(c) /\ (p \in txn[w].missed \/ stock[p] \in Int)
                     /\ Move(done, OfCell(done, p)) \in Int
  <2>1. \A k \in DOMAIN done : done[k] \in Pick(c)
    BY <1>4
  <2>2. \A k \in DOMAIN done :
          /\ <<done[k].item, done[k].warehouse>> \in Places(c)
          /\ <<done[k].item, done[k].warehouse>> \in DOMAIN stock \cup txn[w].missed
    BY <1>2, <1>4, <2>1 DEF Pick, Places, Found
  <2>3. \A p : Move(done, OfCell(done, p)) \in Int
    BY <1>13
  <2> QED
    BY <2>2, <2>3 DEF MakeInv, MakeTypes
<1>18. MakeTypes(c)'
  <2>1. log' \in Seq(Movement(c))
    BY <1>10, <1>13 DEF MakeInv, MakeTypes
  <2>2. /\ stock' \in [DOMAIN stock' -> Int] /\ DOMAIN stock \subseteq DOMAIN stock'
        /\ DOMAIN stock' \subseteq Places(c)
    <3>1. \A p \in S : Left(p) \in Int
      BY <1>17
    <3> QED
      BY <1>11, <1>17, <3>1
  <2>3. txn' \in [Workers -> Requests(c) \cup {Still}]
    BY <1>8 DEF MakeInv, MakeTypes
  <2> QED
    BY <1>8, <1>15, <2>1, <2>2, <2>3 DEF MakeInv, MakeTypes
<1>19. MakeLocks(c)'
  <2>1. ASSUME NEW v \in Workers, txn'[v] # Still PROVE Served(txn[v])'
    <3>1. v # w /\ txn'[v] = txn[v]
      BY <1>16, <2>1
    <3>2. txn[v] \in Requests(c) /\ Served(txn[v]) /\ txn[v].ref \in c.orders /\ orders[txn[v].ref] # Gone
      BY <2>1, <3>1, MakeServed DEF Served
    <3>3. orders'[txn[v].ref] # Gone
      BY <1>14, <1>15, <3>2
    <3>4. txn[v].op = "pick" => txn[v].ref # o
      <4>1. txn[v].op = "pick" => Locking(txn[v])
        BY <2>1, <3>1 DEF Locking
      <4> QED
        BY <1>2, <1>3, <3>1, <4>1 DEF MakeInv, MakeLocks
    <3>5. txn[v].op = "pick" => PicksFit(txn[v]) /\ Found(txn[v]) /\ orders'[txn[v].ref] = orders[txn[v].ref]
      BY <1>15, <3>2, <3>4 DEF Served
    <3>6. DOMAIN stock \subseteq DOMAIN stock'
      BY <1>11
    <3> QED
      BY <1>8, <3>1, <3>2, <3>3, <3>5, <3>6 DEF Served, PicksFit, Found, Summed
  <2>2. \A v, u \in Workers :
          Locking(txn'[v]) /\ Locking(txn'[u]) /\ txn'[v].ref = txn'[u].ref => v = u
    BY <1>16 DEF MakeInv, MakeLocks, Locking
  <2> QED
    BY <2>1, <2>2 DEF MakeLocks
<1>20. MakeOrders(c)'
  <2>1. ASSUME NEW d \in c.orders \ {o}
        PROVE  /\ orders'[d] = Gone => reported'[d] = <<>>
               /\ orders'[d] # Gone =>
                    /\ Within(orders'[d].materials)
                    /\ Summed(d, <<orders[d].completed, orders[d].scrap>>)'
                    /\ \A j \in {1, 2} :
                         OperationSum(orders'[d].operations, j) = Prefix(reported'[d], Len(reported'[d]), j)
    BY <1>8, <1>15 DEF MakeInv, MakeOrders, Summed
  <2>2. Within(nm)
    BY <1>2, <1>3, <1>12 DEF PicksFit, Within
  <2>3. Summed(o, <<orders[o].completed, orders[o].scrap>>)'
    BY <1>2, <1>3, <1>8, <1>14, <1>15 DEF MakeInv, MakeOrders, Summed
  <2>4. \A j \in {1, 2} :
          OperationSum(orders'[o].operations, j) = Prefix(reported'[o], Len(reported'[o]), j)
    BY <1>2, <1>3, <1>8, <1>14, <1>15 DEF MakeInv, MakeOrders
  <2>5. Within(orders'[o].materials) /\ orders'[o] # Gone
    BY <1>14, <1>15, <2>2
  <2> QED
    BY <2>1, <2>3, <2>4, <2>5 DEF MakeOrders, Summed
<1>21. MakeLedger(c)'
  <2>1. ASSUME NEW p \in DOMAIN c.opening
        PROVE  stock'[p] = stock[p] + Move(h, Moves(h, "inbound", p)) - Move(h, Moves(h, "pick", p))
    <3>1. stock'[p] = stock[p] - Move(done, OfCell(done, p)) /\ stock[p] \in Int
      BY <1>4, <1>11 DEF MakeInv, MakeTypes, Missing
    <3>2. /\ Move(h, Moves(h, "inbound", p)) = 0 /\ Move(h, Moves(h, "pick", p)) = Move(done, OfCell(done, p))
          /\ Move(done, OfCell(done, p)) \in Int
      BY <1>13
    <3> QED
      BY <3>1, <3>2
  <2>2. \A k \in DOMAIN h : h[k].type = "pick" => h[k].ref \in c.orders /\ orders[h[k].ref] # Gone
    BY <1>3, <1>13
  <2>3. ASSUME NEW d \in c.orders
        PROVE  /\ orders'[d] = Gone <=> orders[d] = Gone
               /\ orders[d] # Gone =>
                    AllPicked(orders'[d].materials) = AllPicked(orders[d].materials) + Move(h, PicksOf(h, d))
    <3>1. CASE d = o
      BY <1>2, <1>3, <1>12, <1>13, <1>14, <1>15, <3>1
    <3>2. CASE d # o
      <4>1. orders'[d] = orders[d] /\ Move(h, PicksOf(h, d)) = 0
        BY <1>13, <1>15, <3>2
      <4>2. orders[d] # Gone => AllPicked(orders[d].materials) \in Int
        <5>1. orders[d] # Gone => AllPicked(orders[d].materials) = Move(log, PicksOf(log, d))
          BY DEF MakeInv, MakeLedger
        <5>2. Move(log, PicksOf(log, d)) \in Int
          <6>1. log \in Seq(Movement(c))
            BY DEF MakeInv, MakeTypes
          <6> QED
            BY <1>13, <6>1, LedgerJoined
        <5> QED
          BY <5>1, <5>2
      <4> QED
        BY <4>1, <4>2
    <3> QED
      BY <3>1, <3>2
  <2> QED
    BY <1>10, <1>13, <2>1, <2>2, <2>3, LedgerStep
<1> QED
  BY <1>18, <1>19, <1>20, <1>21 DEF MakeInv

\* A receipt commits: stock and ledger move by its quantity.
LEMMA MakeCommitReceipt ==
    ASSUME NEW CONSTANT c, Made(c), MakeInv(c), NEW w \in Workers, Make(c)!CommitReceipt(w)
    PROVE  MakeInv(c)'
<1> USE DEF Make!Idle, Still, Make!Doing
<1>1. txn[w] # Still /\ txn[w].op = "receipt"
  BY DEF Make!CommitReceipt
<1>2. PICK o, t, q : o = txn[w].ref /\ t = txn[w] /\ q = txn[w].quantity
  OBVIOUS
<1>3. /\ t \in Storing(c) /\ o \in c.orders /\ orders[o] \in WorkOrder(c) /\ q \in Int
      /\ t.warehouse \in c.warehouses /\ t.id \in c.receipts
  <2>1. t \in Storing(c) /\ o \in c.orders /\ orders[o] \in WorkOrder(c)
    BY <1>1, <1>2, MakeServed, MakeWork
  <2> QED
    BY <1>2, <2>1 DEF Storing
<1>4. PICK p : p = <<orders[o].item, t.warehouse>>
  OBVIOUS
<1>5. p \in Places(c) /\ p \in DOMAIN stock \cup t.missed /\ t.missed \in Missing(c)
  BY <1>2, <1>3, <1>4 DEF WorkOrder, Places, Storing, Make!CommitReceipt, Make!Known, Make!Into
<1>6. PICK e : e = [type |-> "inbound", ref |-> t.id, cell |-> p, quantity |-> q]
  OBVIOUS
<1>7. PICK h : h = <<e>>
  OBVIOUS
<1>8. e \in Movement(c)
  BY <1>3, <1>5, <1>6 DEF Movement, Places
<1>9. /\ orders' = orders /\ trail' = trail /\ reported' = reported /\ txn' = [txn EXCEPT ![w] = Still]
      /\ stock' = [d \in DOMAIN stock \cup {p} |->
                     IF d = p THEN (IF p \in t.missed THEN 0 ELSE stock[p]) + q ELSE stock[d]]
      /\ log' = Append(log, e)
      /\ receipts' = [receipts EXCEPT ![t.id] = [order |-> o, cell |-> p, quantity |-> q]]
  BY <1>2, <1>4, <1>6 DEF Make!CommitReceipt, Make!Into, Make!Base
<1>10. /\ h \in Seq(Movement(c)) /\ DOMAIN h = {1} /\ h[1] = e /\ log \in Seq(Movement(c)) /\ log' = log \o h
  <2>1. log \in Seq(Movement(c))
    BY DEF MakeInv, MakeTypes
  <2> DEFINE S == Movement(c)
  <2> HIDE DEF S
  <2>2. e \in S /\ log \in Seq(S)
    BY <1>8, <2>1 DEF S
  <2>3. h \in Seq(S) /\ DOMAIN h = {1} /\ h[1] = e /\ Append(log, e) = log \o h
    BY <1>7, <2>2
  <2> QED
    BY <1>9, <2>1, <2>3 DEF S
<1>11. txn'[w] = Still /\ \A v \in Workers \ {w} : txn'[v] = txn[v]
  BY <1>9 DEF MakeInv, MakeTypes
<1>12. /\ stock' \in [DOMAIN stock' -> Int] /\ DOMAIN stock' \subseteq Places(c)
       /\ DOMAIN stock \subseteq DOMAIN stock'
       /\ \A d \in DOMAIN c.opening : stock[d] \in Int /\ stock'[d] = IF d = p THEN stock[d] + q ELSE stock[d]
  BY <1>3, <1>5, <1>9 DEF MakeInv, MakeTypes, Missing
<1>13. MakeTypes(c)'
  <2>1. log' \in Seq(Movement(c))
    BY <1>10
  <2>2. txn' \in [Workers -> Requests(c) \cup {Still}]
    BY <1>9 DEF MakeInv, MakeTypes
  <2>3. receipts' = [r \in c.receipts |-> receipts'[r]]
    BY <1>9 DEF MakeInv, MakeTypes
  <2> QED
    BY <1>9, <1>12, <2>1, <2>2, <2>3 DEF MakeInv, MakeTypes
<1>14. MakeLocks(c)'
  <2>1. ASSUME NEW v \in Workers, txn'[v] # Still PROVE Served(txn[v])'
    <3>1. txn'[v] = txn[v] /\ Served(txn[v])
      BY <1>11, <2>1 DEF MakeInv, MakeLocks
    <3> QED
      BY <1>9, <1>12, <3>1 DEF Served, PicksFit, Found, Summed
  <2>2. \A v, u \in Workers :
          Locking(txn'[v]) /\ Locking(txn'[u]) /\ txn'[v].ref = txn'[u].ref => v = u
    BY <1>11 DEF MakeInv, MakeLocks, Locking
  <2> QED
    BY <2>1, <2>2 DEF MakeLocks
<1>15. MakeOrders(c)'
  BY <1>9 DEF MakeInv, MakeOrders, Summed
<1>16. MakeLedger(c)'
  <2>1. \A d : PicksOf(h, d) = {}
    BY <1>6, <1>10 DEF PicksOf
  <2>2. \A d : Move(h, PicksOf(h, d)) = 0
    BY <2>1, MoveNothing
  <2>3. ASSUME NEW d
        PROVE Move(h, Moves(h, "pick", d)) = 0 /\ Move(h, Moves(h, "inbound", d)) = IF d = p THEN q ELSE 0
    <3>1. Moves(h, "pick", d) = {} /\ Moves(h, "inbound", d) = IF d = p THEN {1} ELSE {}
      BY <1>6, <1>10 DEF Moves
    <3>2. Move(h, {1}) = q
      <4> DEFINE f == [j \in {1} |-> h[j].quantity]
      <4>1. f[1] = q /\ q \in Int
        BY <1>3, <1>6, <1>10
      <4>2. Move(h, {1}) = SumFunctionOnSet(f, {1})
        BY DEF Move
      <4> HIDE DEF f
      <4>3. SumFunctionOnSet(f, {} \cup {1}) = f[1] + SumFunctionOnSet(f, {})
        BY <4>1, FS_EmptySet, SumAdd
      <4>4. {} \cup {1} = {1}
        OBVIOUS
      <4>5. SumFunctionOnSet(f, {1}) = f[1] + SumFunctionOnSet(f, {})
        BY <4>3, <4>4, Zenon
      <4> QED
        BY <4>1, <4>2, <4>5, SumEmpty
    <3>3. Move(h, Moves(h, "pick", d)) = Move(h, {})
      BY <3>1, Zenon
    <3>4. CASE d = p
      <4>1. Moves(h, "inbound", d) = {1}
        BY <3>1, <3>4
      <4>2. Move(h, Moves(h, "inbound", d)) = Move(h, {1})
        BY <4>1, Zenon
      <4> QED
        BY <3>2, <3>3, <3>4, <4>2, MoveNothing
    <3>5. CASE d # p
      <4>1. Moves(h, "inbound", d) = {}
        BY <3>1, <3>5
      <4>2. Move(h, Moves(h, "inbound", d)) = Move(h, {})
        BY <4>1, Zenon
      <4> QED
        BY <3>3, <3>5, <4>2, MoveNothing
    <3> QED
      BY <3>4, <3>5
  <2>4. \A d \in DOMAIN c.opening :
          stock'[d] = stock[d] + Move(h, Moves(h, "inbound", d)) - Move(h, Moves(h, "pick", d))
    BY <1>3, <1>12, <2>3
  <2>5. \A k \in DOMAIN h : h[k].type = "pick" => h[k].ref \in c.orders /\ orders[h[k].ref] # Gone
    BY <1>6, <1>10
  <2>6. ASSUME NEW d \in c.orders
        PROVE  /\ orders'[d] = Gone <=> orders[d] = Gone
               /\ orders[d] # Gone =>
                    AllPicked(orders'[d].materials) = AllPicked(orders[d].materials) + Move(h, PicksOf(h, d))
    <3>1. orders[d] # Gone => AllPicked(orders[d].materials) = Move(log, PicksOf(log, d))
      BY DEF MakeInv, MakeLedger
    <3>2. Move(log, PicksOf(log, d)) \in Int
      BY <1>10, LedgerJoined
    <3> QED
      BY <1>9, <2>2, <3>1, <3>2
  <2> QED
    BY <1>10, <2>4, <2>5, <2>6, LedgerStep
<1> QED
  BY <1>13, <1>14, <1>15, <1>16 DEF MakeInv

\* Every step of Production keeps the invariant.
LEMMA MakeStep ==
    ASSUME NEW CONSTANT c, Made(c), MakeInv(c), [Make(c)!Next]_(Make(c)!vars)
    PROVE  MakeInv(c)'
<1>1. CASE Make(c)!Next
  <2>1. CASE \E o \in c.orders : Make(c)!CreateWorkOrder(o)
    BY <2>1, MakeCreate
  <2>2. CASE \E w \in Workers :
               \/ \E o \in c.orders :
                    \/ Make(c)!ReleaseRead(w, o) \/ Make(c)!ReportRead(w, o)
                    \/ Make(c)!PickLock(w, o) \/ Make(c)!CompleteLock(w, o)
               \/ \E r \in c.receipts : Make(c)!ReceiptLock(w, r)
    BY <2>2, MakeReads, MakePickLock, MakeReceiptLock
  <2>3. CASE \E w \in Workers :
               \/ Make(c)!ReleaseWrite(w) \/ Make(c)!ReadAfter(w) \/ Make(c)!Record(w)
               \/ Make(c)!ReportOperation(w) \/ Make(c)!ReportSum(w) \/ Make(c)!ReportTotal(w)
    BY <2>3, MakeWrites, MakeAfter, MakeRecord, MakeReportOperation
  <2>4. CASE \E w \in Workers :
               \/ Make(c)!MissPicked(w) \/ Make(c)!PickLine(w) \/ Make(c)!CommitPick(w)
               \/ Make(c)!CommitComplete(w) \/ Make(c)!MissReceived(w) \/ Make(c)!CommitReceipt(w)
               \/ Make(c)!Abandon(w)
    BY <2>4, MakeMissed, MakePickLine, MakeCommitPick, MakeWrites, MakeCommitReceipt, MakeAbandon
  <2>5. CASE UNCHANGED Make(c)!vars
    BY <2>5 DEF Make!vars, MakeInv, MakeTypes, MakeLocks, MakeOrders, MakeLedger, Served, PicksFit, Found, Summed
  <2>6. Make(c)!Read => UNCHANGED Make(c)!vars
    BY DEF Make!Read
  <2> QED
    BY <1>1, <2>1, <2>2, <2>3, <2>4, <2>5, <2>6 DEF Make!Next
<1>2. CASE UNCHANGED Make(c)!vars
  BY <1>2 DEF Make!vars, MakeInv, MakeTypes, MakeLocks, MakeOrders, MakeLedger, Served, PicksFit, Found, Summed
<1> QED
  BY <1>1, <1>2

-----------------------------------------------------------------------------
(* Make: what the invariant says. *)

LEMMA MakeTypeOK == ASSUME NEW CONSTANT c, Made(c), MakeInv(c) PROVE Make(c)!TypeOK
<1>1. ASSUME NEW o \in Make(c)!Rows(orders)
      PROVE  /\ Make(c)!Snapshot(orders[o]) \in [status : 0..3, completed : Int, scrap : Int]
             /\ orders[o].operations \in
                  [1..c.operations -> [completed : Int, scrap : Int, status : {Make(c)!Pending, Make(c)!Reported}]]
             /\ orders[o].materials \in Seq([item : c.items, required : Int, picked : Int])
  <2>1. orders[o] \in WorkOrder(c) /\ Make(c)!Snapshot(orders[o]) \in View
    BY MakeOpen
  <2>2. orders[o].operations \in [1..c.operations -> Operation] /\ orders[o].materials \in Seq(Material(c))
    BY <2>1 DEF WorkOrder
  <2> QED
    BY <2>1, <2>2 DEF View, Operation, Material, Make!Pending, Make!Reported
<1>2. /\ DOMAIN stock \subseteq Make(c)!Cells /\ \A p \in DOMAIN stock : stock[p] \in Int
      /\ log \in Seq([type : {"pick", "inbound"}, ref : c.orders \cup c.receipts, cell : Make(c)!Cells,
                      quantity : Int])
  BY DEF MakeInv, MakeTypes, Movement, Places, Make!Cells
<1>3. ASSUME NEW w \in Workers, txn[w] # Make(c)!Idle
      PROVE  /\ txn[w].op \in {"release", "report", "sum", "total", "read_after", "record", "pick",
                               "complete", "receipt"}
             /\ txn[w].ref \in Make(c)!Rows(orders)
  <2>1. txn[w] # Still
    BY <1>3 DEF Make!Idle, Still
  <2>2. txn[w] \in Requests(c) /\ orders[txn[w].ref] # Gone /\ txn[w].ref \in c.orders
    BY <2>1, MakeServed DEF Served
  <2>3. txn[w].ref \in Make(c)!Rows(orders)
    BY <2>2 DEF Make!Rows, Make!Absent, Gone, MakeInv, MakeTypes
  <2> QED
    BY <2>2, <2>3, MakeWork
<1> QED
  BY <1>1, <1>2, <1>3 DEF Make!TypeOK

\* The ledger and the materials agree, and so do the ledger and the stock.
LEMMA MakePicked == ASSUME NEW CONSTANT c, Made(c), MakeInv(c) PROVE Make(c)!PickedWasIssued
<1>1. ASSUME NEW o \in Make(c)!Rows(orders), NEW ms, ms = orders[o].materials
      PROVE  Make(c)!Total([k \in DOMAIN ms |-> ms[k].picked])
               = Make(c)!Moved(log, {k \in DOMAIN log : log[k].type = "pick" /\ log[k].ref = o})
  <2>1. PICK f : f = [k \in DOMAIN ms |-> ms[k].picked]
    OBVIOUS
  <2>2. PICK K : K = {k \in DOMAIN log : log[k].type = "pick" /\ log[k].ref = o}
    OBVIOUS
  <2>3. AllPicked(ms) = SumFunctionOnSet(f, DOMAIN ms) /\ DOMAIN f = DOMAIN ms
    BY <2>1 DEF AllPicked
  <2>4. AllPicked(ms) = Move(log, PicksOf(log, o)) /\ PicksOf(log, o) = K
    BY <1>1, <2>2, MakeOpen DEF MakeInv, MakeLedger, PicksOf
  <2>5. Make(c)!Total(f) = SumFunctionOnSet(f, DOMAIN f) /\ Make(c)!Moved(log, K) = Move(log, K)
    BY MakeMoved
  <2>6. Make(c)!Total(f) = Make(c)!Moved(log, K)
    BY <2>3, <2>4, <2>5, Zenon
  <2> QED
    BY <2>1, <2>2, <2>6
<1>2. ASSUME NEW p \in DOMAIN c.opening
      PROVE  stock[p] = c.opening[p]
               + Make(c)!Moved(log, {k \in DOMAIN log : log[k].type = "inbound" /\ log[k].cell = p})
               - Make(c)!Moved(log, {k \in DOMAIN log : log[k].type = "pick" /\ log[k].cell = p})
  <2>1. PICK K, L : /\ K = {k \in DOMAIN log : log[k].type = "inbound" /\ log[k].cell = p}
                    /\ L = {k \in DOMAIN log : log[k].type = "pick" /\ log[k].cell = p}
    OBVIOUS
  <2>2. Moves(log, "inbound", p) = K /\ Moves(log, "pick", p) = L
    BY <2>1 DEF Moves
  <2>3. stock[p] = c.opening[p] + Move(log, Moves(log, "inbound", p)) - Move(log, Moves(log, "pick", p))
    BY DEF MakeInv, MakeLedger
  <2>4. Make(c)!Moved(log, K) = Move(log, K) /\ Make(c)!Moved(log, L) = Move(log, L)
    BY MakeMoved
  <2>5. stock[p] = c.opening[p] + Make(c)!Moved(log, K) - Make(c)!Moved(log, L)
    BY <2>2, <2>3, <2>4
  <2> QED
    BY <2>1, <2>5
<1>3. \A o \in Make(c)!Rows(orders) : Make(c)!GetWorkOrder(o).materials = orders[o].materials
  BY DEF Make!GetWorkOrder
<1> QED
  BY <1>1, <1>2, <1>3 DEF Make!PickedWasIssued

\* A larger quantity costs no less.
LEMMA TimesMonotonic == ASSUME NEW x \in Int, NEW y \in Int, x <= y, NEW u \in Nat PROVE x * u <= y * u
<1>1. (y - x) \in Nat /\ (y - x) * u \in Nat /\ (y - x) * u = y * u - x * u
  OBVIOUS
<1> QED
  BY <1>1

\* The larger of nothing and what the BOM asks for.
LEMMA MakeAsked == ASSUME NEW CONSTANT c, NEW n \in Int PROVE Make(c)!Max({0, n}) = Asked(n)
BY DEF Make!Max, Asked

\* No more is picked than what the BOM asks for, and it costs no more.
LEMMA MakeCost == ASSUME NEW CONSTANT c, Made(c), MakeInv(c) PROVE Make(c)!CostWithinPlan
<1> SUFFICES ASSUME NEW o \in Make(c)!Rows(orders), NEW ms, ms = orders[o].materials,
                    NEW plan, plan = [k \in DOMAIN ms |-> Make(c)!Max({0, ms[k].required})]
             PROVE  /\ \A k \in DOMAIN ms : ms[k].picked <= plan[k]
                    /\ (\A k \in DOMAIN ms : c.cost[ms[k].item] >= 0)
                         => Make(c)!MaterialCost(o)
                              <= Make(c)!Total([k \in DOMAIN ms |-> plan[k] * c.cost[ms[k].item]])
  BY DEF Make!CostWithinPlan
<1> DEFINE D == DOMAIN ms
           f == [k \in D |-> ms[k].picked * c.cost[ms[k].item]]
           e == [k \in D |-> plan[k] * c.cost[ms[k].item]]
<1>2. orders[o] \in WorkOrder(c) /\ orders[o] # Gone /\ o \in c.orders
  BY MakeOpen
<1>3. ms \in Seq(Material(c)) /\ Within(ms)
  BY <1>2 DEF WorkOrder, MakeInv, MakeOrders
<1>8. ASSUME NEW k \in D
      PROVE  ms[k].picked \in Int /\ plan[k] \in Int /\ ms[k].picked <= plan[k] /\ c.cost[ms[k].item] \in Int
  <2>1. ms[k] \in Material(c)
    BY <1>3
  <2>2. ms[k].required \in Int /\ ms[k].picked \in Int /\ ms[k].item \in c.items
    BY <2>1 DEF Material
  <2>3. plan[k] = Asked(ms[k].required)
    BY <2>2, MakeAsked
  <2> QED
    BY <1>3, <2>2, <2>3 DEF Within, Asked, Made, Make!ProductionAssumption
<1>9. SUFFICES ASSUME \A k \in D : c.cost[ms[k].item] >= 0 PROVE Make(c)!Total(f) <= Make(c)!Total(e)
  BY <1>8 DEF Make!MaterialCost
<1>4. ASSUME NEW k \in D PROVE f[k] \in Int /\ e[k] \in Int /\ f[k] <= e[k]
  <2>2. PICK u, x, y : u = c.cost[ms[k].item] /\ x = ms[k].picked /\ y = plan[k]
    OBVIOUS
  <2>1. ms[k].picked \in Int /\ plan[k] \in Int /\ ms[k].picked <= plan[k] /\ c.cost[ms[k].item] \in Int
    BY <1>8
  <2>6. u >= 0
    BY <1>9, <2>2
  <2>3. u \in Nat /\ x \in Int /\ y \in Int /\ x <= y
    BY <2>1, <2>2, <2>6
  <2>4. f[k] = x * u /\ e[k] = y * u
    BY <2>2
  <2>5. x * u \in Int /\ y * u \in Int
    BY <2>3
  <2> HIDE DEF f, e
  <2> QED
    BY <2>3, <2>4, <2>5, TimesMonotonic
<1>5. IsFiniteSet(D) /\ DOMAIN f = D /\ DOMAIN e = D
  <2>1. DOMAIN ms = 1..Len(ms) /\ Len(ms) \in Int /\ 1 \in Int
    BY <1>3
  <2> QED
    BY <2>1, FS_Interval
<1>6. Make(c)!Total(f) = SumFunctionOnSet(f, D) /\ Make(c)!Total(e) = SumFunctionOnSet(e, D)
  <2> HIDE DEF f, e, D
  <2> QED
    BY <1>5, MakeMoved
<1>7. SumFunctionOnSet(f, D) <= SumFunctionOnSet(e, D)
  <2> HIDE DEF f, e, D
  <2> QED
    BY <1>4, <1>5, SumMonotonic
<1> QED
  BY <1>6, <1>7

\* The totals of an order are those of some first reports.
LEMMA MakePrefix == ASSUME NEW CONSTANT c, Made(c), MakeInv(c) PROVE Make(c)!TotalIsPrefix
<1>1. SUFFICES ASSUME NEW o \in Make(c)!Rows(orders)
               PROVE  \E n \in 0..Len(reported[o]) :
                        /\ orders[o].completed = Make(c)!Total([k \in 1..n |-> reported[o][k][1]])
                        /\ orders[o].scrap = Make(c)!Total([k \in 1..n |-> reported[o][k][2]])
  BY DEF Make!TotalIsPrefix
<1>2. o \in c.orders /\ orders[o] # Gone
  BY MakeOpen
<1>3. PICK t : t = <<orders[o].completed, orders[o].scrap>>
  OBVIOUS
<1>4. PICK n \in 0..Len(reported[o]) : \A j \in {1, 2} : t[j] = Prefix(reported[o], n, j)
  BY <1>2, <1>3 DEF MakeInv, MakeOrders, Summed
<1>5. ASSUME NEW j \in {1, 2} PROVE Make(c)!Total([k \in 1..n |-> reported[o][k][j]]) = Prefix(reported[o], n, j)
  <2>1. PICK f : f = [k \in 1..n |-> reported[o][k][j]]
    OBVIOUS
  <2>2. Prefix(reported[o], n, j) = SumFunctionOnSet(f, 1..n) /\ DOMAIN f = 1..n
    BY <2>1 DEF Prefix
  <2>3. Make(c)!Total(f) = SumFunctionOnSet(f, DOMAIN f)
    BY MakeMoved
  <2>4. Make(c)!Total(f) = Prefix(reported[o], n, j)
    BY <2>2, <2>3, Zenon
  <2> QED
    BY <2>1, <2>4
<1> QED
  BY <1>3, <1>4, <1>5

-----------------------------------------------------------------------------
(* Inspect: what the tables and the requests hold. *)

Tested == [status : {0, 10}, result : 0..2]
TestedEntry == [action : {"created", "updated", "deleted"}, before : Tested \cup {Nothing},
                after : Tested \cup {Nothing}]
Inspection == [code : Int, template : Inspecting.templates, status : {0, 10}, result : 0..2]
Coded == {"IPQC", "OQC", "IQC"} \X (1..seq)
Template == [code : Coded, items : Int]
Drafting == [op : {"second", "template"}, ref : Inspecting.templates, code : Coded, items : Int]
DocIds == Inspecting.templates \cup Inspections \cup Inspecting.ncs
AsTested(x) == [status |-> x.status, result |-> x.result]

QualityTypes ==
    /\ seq \in Nat
    /\ templates \in [Inspecting.templates -> Template \cup {Gone}]
    /\ inspections \in [Inspections -> Inspection \cup {Gone}]
    /\ results = [i \in Inspections |-> results[i]]
    /\ trail = [d \in DocIds |-> trail[d]]
    /\ \A i \in Inspections : trail[i] \in Seq(TestedEntry)
    /\ txn = [w \in Workers |-> txn[w]]

\* An open request has the lock of its order, or its order is not known yet,
\* and what it read still holds.
Working(x) ==
    /\ x.op \in {"second", "template", "record_inspection", "complete", "record_nc"}
    /\ x.op \in {"second", "template"} => x \in Drafting
    /\ x.op = "record_inspection" =>
         x.ref \in Inspections /\ inspections[x.ref] # Gone /\ trail[x.ref] = <<>>
    /\ x.op = "complete" =>
         /\ x.ref \in Inspections /\ inspections[x.ref] # Gone /\ trail[x.ref] # <<>>
         /\ inspections[x.ref].status = 0 /\ x.before = AsTested(inspections[x.ref])
    /\ x.op = "record_nc" => x.ref \in Inspecting.ncs

OnOrder(x) == x # Still /\ x.op \in {"record_inspection", "complete"}

QualityLocks ==
    /\ \A w \in Workers : txn[w] # Still => Working(txn[w])
    /\ \A v, w \in Workers :
         OnOrder(txn[v]) /\ OnOrder(txn[w]) /\ txn[v].ref = txn[w].ref => v = w

\* What the rows of an order say of each other.
Judged(x, rs, told) ==
    /\ x = Gone => rs = <<>> /\ told = <<>>
    /\ x # Gone =>
         /\ told = <<>> => x.status = 0
         /\ x.status = 0 => x.result = 0 /\ rs = <<>>
         /\ x.status = 10 => Len(rs) = 1 /\ (x.result = 2 <=> \E k \in DOMAIN rs[1] : rs[1][k] = 2)
         /\ told # <<>> => Tells(told, AsTested(x))

QualityRows == \A i \in Inspections : Judged(inspections[i], results[i], trail[i])

Holds(x) == IF x = Still THEN 0 ELSE IF x.op = "template" THEN 2 ELSE 1
QualityPool ==
    free \in Int /\ free + SumFunctionOnSet([w \in Workers |-> Holds(txn[w])], Workers) = Inspecting.pool

QualityInv == QualityTypes /\ QualityLocks /\ QualityRows /\ QualityPool
Sampled == Inspect!QualityAssumption

\* The workers are finitely many.
LEMMA SampledFinite == ASSUME Sampled PROVE IsFiniteSet(Workers)
BY DEF Sampled, Inspect!QualityAssumption, Inspect!IsFiniteSet, IsFiniteSet

\* The invariant holds at the start: no order, and every connection free.
LEMMA QualityInit == ASSUME Sampled, Inspect!Init PROVE QualityInv
<1> USE DEF Inspect!Init, Inspect!Absent, Inspect!Idle, Gone, Still
<1>1. QualityTypes
  BY DEF QualityTypes, DocIds, Inspect!Ids
<1>2. QualityLocks
  BY DEF QualityLocks, OnOrder
<1>3. QualityRows
  BY DEF QualityRows, Judged, Inspect!Ids
<1>4. QualityPool
  <2>1. \A w \in Workers : [v \in Workers |-> Holds(txn[v])][w] = 0
    BY DEF Holds
  <2>2. SumFunctionOnSet([v \in Workers |-> Holds(txn[v])], Workers) = 0
    BY <2>1, SumZero, SampledFinite
  <2>3. Inspecting.pool \in Int
    BY DEF Sampled, Inspect!QualityAssumption
  <2> QED
    BY <2>2, <2>3 DEF QualityPool
<1> QED
  BY <1>1, <1>2, <1>3, <1>4 DEF QualityInv

-----------------------------------------------------------------------------
(* Inspect: what a step may do. *)

\* Worker w goes on with x; of the orders, only those of I change.
QualityMoved(w, x, I) ==
    /\ txn' = [txn EXCEPT ![w] = x]
    /\ free' = free + Holds(txn[w]) - Holds(x)
    /\ \A j \in Inspections \ I :
         inspections'[j] = inspections[j] /\ results'[j] = results[j] /\ trail'[j] = trail[j]
    /\ \A v \in Workers \ {w} : OnOrder(txn[v]) => txn[v].ref \notin I
    /\ \A j \in I : Judged(inspections'[j], results'[j], trail'[j])
    /\ x # Still => Working(x)'
    /\ OnOrder(x) => \A v \in Workers \ {w} : OnOrder(txn[v]) => txn[v].ref # x.ref

\* A request goes on, with as many connections as it holds.
LEMMA QualityMovedStep ==
    ASSUME Sampled, QualityInv, QualityTypes', NEW w \in Workers, NEW x, NEW I \in SUBSET Inspections,
           QualityMoved(w, x, I), seq <= seq'
    PROVE  QualityInv'
<1>1. /\ \A v \in Workers \ {w} : txn'[v] = txn[v]
      /\ txn'[w] = x
  BY DEF QualityInv, QualityTypes, QualityMoved
<1>2. \A v \in Workers \ {w} : txn[v] # Still => Working(txn[v])'
  <2> SUFFICES ASSUME NEW v \in Workers \ {w}, txn[v] # Still PROVE Working(txn[v])'
    OBVIOUS
  <2>1. Working(txn[v])
    BY DEF QualityInv, QualityLocks
  <2>2. txn[v] \in Drafting => txn'[v] \in Drafting'
    <3>1. Coded \in SUBSET Coded'
      BY DEF Coded, QualityInv, QualityTypes
    <3> QED
      BY <1>1, <3>1 DEF Drafting
  <2>3. OnOrder(txn[v]) => /\ inspections'[txn[v].ref] = inspections[txn[v].ref]
                           /\ trail'[txn[v].ref] = trail[txn[v].ref]
    BY <2>1 DEF QualityMoved, OnOrder, Working
  <2> QED
    BY <1>1, <2>1, <2>2, <2>3 DEF Working, OnOrder, AsTested
<1>3. QualityLocks'
  <2>1. \A v \in Workers : txn'[v] # Still => Working(txn[v])'
    <3> SUFFICES ASSUME NEW v \in Workers, txn'[v] # Still PROVE Working(txn[v])'
      OBVIOUS
    <3>1. CASE v = w
      <4>1. Working(x)' /\ txn'[v] = x
        BY <1>1, <3>1 DEF QualityMoved
      <4> QED
        BY <4>1 DEF Working
    <3>2. CASE v # w
      BY <1>1, <1>2, <3>2
    <3> QED
      BY <3>1, <3>2
  <2>2. \A v, u \in Workers :
          OnOrder(txn'[v]) /\ OnOrder(txn'[u]) /\ txn'[v].ref = txn'[u].ref => v = u
    BY <1>1 DEF QualityMoved, QualityInv, QualityLocks
  <2> QED
    BY <2>1, <2>2 DEF QualityLocks
<1>4. QualityRows'
  BY DEF QualityMoved, QualityInv, QualityRows
<1>5. QualityPool'
  <2> DEFINE f == [v \in Workers |-> Holds(txn[v])]
             e == [v \in Workers |-> Holds(txn'[v])]
  <2>1. /\ \A v \in Workers : f[v] \in Int /\ e[v] \in Int
        /\ \A v \in Workers \ {w} : e[v] = f[v]
        /\ f[w] = Holds(txn[w]) /\ e[w] = Holds(x)
    BY <1>1 DEF Holds
  <2>2. IsFiniteSet(Workers)
    BY SampledFinite
  <2>3. free \in Int /\ free + SumFunctionOnSet(f, Workers) = Inspecting.pool
    BY DEF QualityInv, QualityPool
  <2>4. QualityPool' <=> free' \in Int /\ free' + SumFunctionOnSet(e, Workers) = Inspecting.pool
    BY DEF QualityPool
  <2>5. free' = free + f[w] - e[w]
    BY <2>1 DEF QualityMoved
  <2> HIDE DEF f, e
  <2>6. SumFunctionOnSet(e, Workers) = SumFunctionOnSet(f, Workers) - f[w] + e[w]
    BY <2>1, <2>2, SumUpdate
  <2>7. SumFunctionOnSet(f, Workers) \in Int
    BY <2>1, <2>2, SumInt
  <2> QED
    BY <2>1, <2>3, <2>4, <2>5, <2>6, <2>7
<1> QED
  BY <1>3, <1>4, <1>5 DEF QualityInv
-----------------------------------------------------------------------------
(* Inspect: the actions. *)

\* Who works on what.
LEMMA QualityWorker ==
    ASSUME QualityInv, NEW w \in Workers, txn[w] # Still
    PROVE  Working(txn[w])
BY DEF QualityInv, QualityLocks

\* The tables stay as they are and no new order is worked on.
QualityAside(w, x) ==
    /\ txn' = [txn EXCEPT ![w] = x]
    /\ free' = free + Holds(txn[w]) - Holds(x)
    /\ seq' \in {seq, seq + 1}
    /\ inspections' = inspections /\ results' = results
    /\ x # Still => Working(x)' /\ ~OnOrder(x)

\* Codes drawn earlier stay among the codes as the sequence goes on.
LEMMA CodedGrows == ASSUME QualityTypes, seq' \in {seq, seq + 1} PROVE Coded \in SUBSET Coded' /\ seq <= seq' /\ seq' \in Nat
<1>1. seq \in Nat /\ seq' \in Nat /\ seq <= seq'
  BY DEF QualityTypes
<1> QED
  BY <1>1 DEF Coded

\* A step that leaves the inspection orders alone keeps the invariant.
LEMMA QualityAsideStep ==
    ASSUME Sampled, QualityInv, NEW w \in Workers, NEW x, QualityAside(w, x),
           \/ templates' = templates
           \/ templates' \in [Inspecting.templates -> Template \cup {Gone}],
           trail' = [d \in DocIds |-> trail'[d]], \A i \in Inspections : trail'[i] = trail[i]
    PROVE  QualityInv'
<1>1. Coded \in SUBSET Coded' /\ seq <= seq' /\ seq' \in Nat
  BY CodedGrows DEF QualityAside, QualityInv
<1>2. Template \in SUBSET Template'
  BY <1>1 DEF Template
<1>3. templates' \in [Inspecting.templates -> Template' \cup {Gone}]
  BY <1>2 DEF QualityInv, QualityTypes
<1>4. QualityTypes'
  BY <1>1, <1>3 DEF QualityTypes, QualityInv, QualityAside
<1>5. QualityMoved(w, x, {})
  BY DEF QualityMoved, QualityAside, OnOrder
<1> QED
  BY <1>1, <1>4, <1>5, QualityMovedStep

\* create_template opens its transaction on one connection.
LEMMA InspectStartTemplate ==
    ASSUME Sampled, QualityInv, NEW w \in Workers, NEW t \in Inspecting.templates, Inspect!StartTemplate(w, t)
    PROVE  QualityInv'
<1> USE DEF Inspect!Idle, Still
<1>1. PICK n \in 0..Inspecting.items, k \in Inspecting.categories :
        Inspect!Acquire(w, [op |-> "second", ref |-> t, code |-> <<Inspect!Prefix(k), seq + 1>>, items |-> n])
  BY DEF Inspect!StartTemplate
<1> DEFINE r == [op |-> "second", ref |-> t, code |-> <<Inspect!Prefix(k), seq + 1>>, items |-> n]
<1>2. PICK x : x = r
  OBVIOUS
<1>3. /\ seq' = seq + 1 /\ templates' = templates /\ inspections' = inspections
      /\ results' = results /\ trail' = trail
  BY DEF Inspect!StartTemplate, Inspect!tables
<1>4. Working(x)'
  <2>1. <<Inspect!Prefix(k), seq + 1>> \in Coded'
    BY <1>3 DEF Coded, Inspect!Prefix, QualityInv, QualityTypes
  <2>2. n \in Int
    BY DEF Sampled, Inspect!QualityAssumption
  <2>3. x \in Drafting'
    BY <1>2, <2>1, <2>2 DEF Drafting
  <2> QED
    BY <1>2, <2>3 DEF Working
<1>5. QualityAside(w, x)
  BY <1>1, <1>2, <1>3, <1>4 DEF QualityAside, Inspect!Acquire, Holds, OnOrder, QualityInv, QualityPool
<1> QED
  BY <1>3, <1>5, QualityAsideStep DEF QualityInv, QualityTypes

\* The code generator of create_template takes a second connection.
LEMMA InspectAcquireSecond ==
    ASSUME Sampled, QualityInv, NEW w \in Workers, Inspect!AcquireSecond(w)
    PROVE  QualityInv'
<1> USE DEF Inspect!Idle, Still, Inspect!Doing
<1>1. PICK x : x = [txn[w] EXCEPT !.op = "template"]
  OBVIOUS
<1>2. /\ seq' = seq /\ templates' = templates /\ inspections' = inspections
      /\ results' = results /\ trail' = trail /\ txn[w] # Still /\ txn[w].op = "second"
  BY DEF Inspect!AcquireSecond, Inspect!tables
<1>3. x \in Drafting' /\ x.op = "template"
  <2>1. txn[w] \in Drafting
    BY <1>2, QualityWorker DEF Working
  <2>2. x \in Drafting /\ x.op = "template"
    BY <1>1, <2>1 DEF Drafting
  <2>3. Drafting' = Drafting
    BY <1>2 DEF Drafting, Coded
  <2> QED
    BY <2>2, <2>3
<1>4. Working(x)'
  BY <1>3 DEF Working
<1>5. txn' = [txn EXCEPT ![w] = x] /\ free' = free - 1 /\ free \in Int
  BY <1>1 DEF Inspect!AcquireSecond, QualityInv, QualityTypes, QualityPool
<1>6. QualityAside(w, x)
  BY <1>2, <1>3, <1>4, <1>5 DEF QualityAside, Holds, OnOrder
<1> QED
  BY <1>2, <1>6, QualityAsideStep DEF QualityInv, QualityTypes

\* A request that ends without a change: the timeout and every failure.
LEMMA InspectGiveUp ==
    ASSUME Sampled, QualityInv, NEW w \in Workers, Inspect!Abandon(w) \/ Inspect!AcquireTimeout(w)
    PROVE  QualityInv'
<1> USE DEF Inspect!Idle, Still, Inspect!Doing, Inspect!Abandon, Inspect!AcquireTimeout
<1>1. /\ seq' = seq /\ templates' = templates /\ inspections' = inspections
      /\ results' = results /\ trail' = trail /\ txn[w] # Still
  BY DEF Inspect!tables
<1>2. txn' = [txn EXCEPT ![w] = Still] /\ free' = free + Holds(txn[w]) /\ free \in Int
  BY DEF Inspect!End, Holds, QualityInv, QualityPool
<1>3. QualityAside(w, Still)
  BY <1>1, <1>2 DEF QualityAside, Holds, OnOrder
<1> QED
  BY <1>1, <1>3, QualityAsideStep DEF QualityInv, QualityTypes

\* create_template commits and gives both connections back.
LEMMA InspectCommitTemplate ==
    ASSUME Sampled, QualityInv, NEW w \in Workers, Inspect!CommitTemplate(w)
    PROVE  QualityInv'
<1> USE DEF Inspect!Idle, Still, Inspect!Doing
<1>1. /\ seq' = seq /\ inspections' = inspections /\ results' = results
      /\ txn[w] # Still /\ txn[w].op = "template"
  BY DEF Inspect!CommitTemplate
<1>2. txn[w] \in Drafting
  BY <1>1, QualityWorker DEF Working
<1>3. txn[w].ref \in Inspecting.templates /\ txn[w].ref \notin Inspections
  BY <1>2 DEF Drafting, Sampled, Inspect!QualityAssumption
<1>4. templates' \in [Inspecting.templates -> Template \cup {Gone}]
  <2>1. [code |-> txn[w].code, items |-> txn[w].items] \in Template
    BY <1>2 DEF Drafting, Template
  <2>2. templates' = [templates EXCEPT ![txn[w].ref] = [code |-> txn[w].code, items |-> txn[w].items]]
    BY DEF Inspect!CommitTemplate
  <2> QED
    BY <2>1, <2>2 DEF QualityInv, QualityTypes
<1>5. trail' = [d \in DocIds |-> trail'[d]] /\ \A i \in Inspections : trail'[i] = trail[i]
  BY <1>3 DEF Inspect!CommitTemplate, QualityInv, QualityTypes, DocIds
<1>6. QualityAside(w, Still)
  BY <1>1 DEF QualityAside, Holds, Inspect!CommitTemplate, Inspect!End, QualityInv, QualityPool
<1> QED
  BY <1>4, <1>5, <1>6, QualityAsideStep

\* A non-conformance is inserted before its change record.
LEMMA InspectNonConformance ==
    ASSUME Sampled, QualityInv, NEW w \in Workers,
           Inspect!RecordNonConformance(w) \/ \E n \in Inspecting.ncs : Inspect!CreateNonConformance(w, n)
    PROVE  QualityInv'
<1> USE DEF Inspect!Idle, Still, Inspect!Doing
<1>1. /\ seq' = seq /\ inspections' = inspections /\ results' = results /\ templates' = templates
  BY DEF Inspect!RecordNonConformance, Inspect!CreateNonConformance
<1>2. CASE Inspect!RecordNonConformance(w)
  <2>1. txn[w] # Still /\ txn[w].op = "record_nc"
    BY <1>2 DEF Inspect!RecordNonConformance
  <2>2. txn[w].ref \in Inspecting.ncs /\ txn[w].ref \notin Inspections
    BY <2>1, QualityWorker DEF Working, Sampled, Inspect!QualityAssumption
  <2>3. trail' = [d \in DocIds |-> trail'[d]] /\ \A i \in Inspections : trail'[i] = trail[i]
    BY <1>2, <2>2 DEF Inspect!RecordNonConformance, QualityInv, QualityTypes, DocIds
  <2>4. QualityAside(w, Still)
    BY <1>1, <1>2, <2>1 DEF QualityAside, Holds, Inspect!RecordNonConformance, Inspect!End, QualityInv, QualityPool
  <2> QED
    BY <1>1, <2>3, <2>4, QualityAsideStep
<1>3. ASSUME NEW n \in Inspecting.ncs, Inspect!CreateNonConformance(w, n) PROVE QualityInv'
  <2>1. PICK x : x = [op |-> "record_nc", ref |-> n]
    OBVIOUS
  <2>2. Working(x)' /\ ~OnOrder(x)
    BY <2>1 DEF Working, OnOrder
  <2>3. QualityAside(w, x) /\ trail' = trail
    BY <1>1, <1>3, <2>1, <2>2 DEF QualityAside, Holds, Inspect!CreateNonConformance, Inspect!Acquire, QualityInv, QualityPool
  <2> QED
    BY <1>1, <2>3, QualityAsideStep DEF QualityInv, QualityTypes
<1> QED
  BY <1>2, <1>3

\* An inspection order is inserted before its change record.
LEMMA InspectCreate ==
    ASSUME Sampled, QualityInv, NEW w \in Workers, NEW i \in Inspections, Inspect!CreateInspection(w, i)
    PROVE  QualityInv'
<1> USE DEF Inspect!Idle, Still, Inspect!Absent, Gone
<1>1. PICK t \in Inspect!Known(templates) :
        inspections' = [inspections EXCEPT ![i] = [code |-> seq + 1, template |-> t, status |-> 0, result |-> 0]]
  BY DEF Inspect!CreateInspection, Inspect!Pending, Inspect!NoVerdict
<1> DEFINE y == [code |-> seq + 1, template |-> t, status |-> 0, result |-> 0]
<1>2. PICK x : x = [op |-> "record_inspection", ref |-> i]
  OBVIOUS
<1>3. /\ seq' = seq + 1 /\ templates' = templates /\ results' = results /\ trail' = trail /\ ncs' = ncs
      /\ txn[w] = Still /\ free' = free - 1 /\ txn' = [txn EXCEPT ![w] = x]
      /\ inspections[i] = Gone /\ \A v \in Workers : txn[v] # Still => txn[v].ref # i
  BY <1>2 DEF Inspect!CreateInspection, Inspect!Acquire, Inspect!Unused
<1>4. y \in Inspection
  <2>1. t \in Inspecting.templates
    BY DEF Inspect!Known, Inspect!Rows, QualityInv, QualityTypes
  <2>2. seq + 1 \in Int
    BY DEF QualityInv, QualityTypes
  <2> QED
    BY <2>1, <2>2 DEF Inspection
<1>5. Coded \in SUBSET Coded' /\ seq <= seq' /\ seq' \in Nat
  BY <1>3, CodedGrows DEF QualityInv
<1>6. QualityTypes'
  <2>1. Template \in SUBSET Template'
    BY <1>5 DEF Template
  <2>2. templates' \in [Inspecting.templates -> Template' \cup {Gone}]
    BY <1>3, <2>1 DEF QualityInv, QualityTypes
  <2>3. inspections' \in [Inspections -> Inspection \cup {Gone}]
    BY <1>1, <1>4 DEF QualityInv, QualityTypes
  <2>4. txn' = [v \in Workers |-> txn'[v]]
    BY <1>3 DEF QualityInv, QualityTypes
  <2> QED
    BY <1>3, <1>5, <2>2, <2>3, <2>4 DEF QualityInv, QualityTypes
<1>7. inspections'[i] = y
  BY <1>1 DEF QualityInv, QualityTypes
<1>8. trail[i] = <<>> /\ results[i] = <<>>
  BY <1>3 DEF QualityInv, QualityRows, Judged
<1>9. Working(x)'
  <2>1. inspections'[i] # Gone
    BY <1>4, <1>7 DEF Inspection
  <2> QED
    BY <1>2, <1>3, <1>8, <2>1 DEF Working
<1>10. Judged(inspections'[i], results'[i], trail'[i])
  <2>1. y # Gone /\ y.status = 0 /\ y.result = 0
    BY <1>4 DEF Inspection
  <2> QED
    BY <1>3, <1>7, <1>8, <2>1 DEF Judged
<1>11. QualityMoved(w, x, {i})
  <2>1. \A j \in Inspections \ {i} :
          inspections'[j] = inspections[j] /\ results'[j] = results[j] /\ trail'[j] = trail[j]
    BY <1>1, <1>3 DEF QualityInv, QualityTypes
  <2>2. free' = free + Holds(txn[w]) - Holds(x)
    BY <1>2, <1>3 DEF Holds, QualityInv, QualityPool
  <2>3. \A v \in Workers \ {w} : OnOrder(txn[v]) => txn[v].ref \notin {i} /\ txn[v].ref # x.ref
    BY <1>2, <1>3 DEF OnOrder
  <2> QED
    BY <1>3, <1>9, <1>10, <2>1, <2>2, <2>3 DEF QualityMoved
<1> QED
  BY <1>5, <1>6, <1>11, QualityMovedStep

\* The first change record of an order.
LEMMA InspectRecord ==
    ASSUME Sampled, QualityInv, NEW w \in Workers, Inspect!RecordInspection(w)
    PROVE  QualityInv'
<1> USE DEF Inspect!Idle, Still, Inspect!Doing
<1>1. /\ txn[w] # Still /\ txn[w].op = "record_inspection" /\ free' = free + 1
      /\ seq' = seq /\ templates' = templates /\ inspections' = inspections /\ results' = results
      /\ txn' = [txn EXCEPT ![w] = Still]
  BY DEF Inspect!RecordInspection, Inspect!End
<1>2. PICK i \in Inspections : i = txn[w].ref /\ inspections[i] # Gone /\ trail[i] = <<>>
  BY <1>1, QualityWorker DEF Working
<1>3. inspections[i] \in Inspection
  BY <1>2 DEF QualityInv, QualityTypes
<1>4. PICK e : e = [action |-> "created", before |-> Nothing, after |-> AsTested(inspections[i])]
  OBVIOUS
<1>5. trail' = [trail EXCEPT ![i] = Append(trail[i], e)]
  BY <1>2, <1>4 DEF Inspect!RecordInspection, Inspect!RecordCreate, Inspect!Nothing, Nothing,
       Inspect!InspectionSnapshot, AsTested
<1>6. e \in TestedEntry /\ e.action = "created" /\ e.after = AsTested(inspections[i])
  <2>1. AsTested(inspections[i]) \in Tested
    BY <1>3 DEF Inspection, AsTested, Tested
  <2> QED
    BY <1>4, <2>1 DEF TestedEntry
<1>7. Tells(Append(<<>>, e), e.after) /\ Append(<<>>, e) \in Seq(TestedEntry)
  BY <1>6, TellsFirst
<1>8. /\ trail'[i] = Append(<<>>, e) /\ \A j \in Inspections \ {i} : trail'[j] = trail[j]
      /\ trail' = [d \in DocIds |-> trail'[d]]
  BY <1>2, <1>5 DEF QualityInv, QualityTypes, DocIds
<1>9. QualityTypes'
  BY <1>1, <1>7, <1>8 DEF QualityInv, QualityTypes, Template, Coded
<1>10. Judged(inspections'[i], results'[i], trail'[i])
  <2>1. Judged(inspections[i], results[i], trail[i]) /\ Append(<<>>, e) # <<>>
    BY DEF QualityInv, QualityRows
  <2> QED
    BY <1>1, <1>2, <1>6, <1>7, <1>8, <2>1 DEF Judged
<1>11. QualityMoved(w, Still, {i})
  <2>1. free' = free + Holds(txn[w]) - Holds(Still)
    BY <1>1 DEF Holds, QualityInv, QualityPool
  <2>2. \A v \in Workers \ {w} : OnOrder(txn[v]) => txn[v].ref \notin {i}
    BY <1>1, <1>2 DEF OnOrder, QualityInv, QualityLocks
  <2> QED
    BY <1>1, <1>8, <1>10, <2>1, <2>2 DEF QualityMoved, OnOrder
<1>12. seq <= seq'
  BY <1>1 DEF QualityInv, QualityTypes
<1> QED
  BY <1>9, <1>11, <1>12, QualityMovedStep

\* complete locks a pending order and reads it.
LEMMA InspectCompleteLock ==
    ASSUME Sampled, QualityInv, NEW w \in Workers, NEW i \in Inspections, Inspect!CompleteLock(w, i)
    PROVE  QualityInv'
<1> USE DEF Inspect!Idle, Still, Inspect!Absent, Gone, Inspect!Doing
<1>1. PICK rs, x : x = [op |-> "complete", ref |-> i, before |-> AsTested(inspections[i]), results |-> rs]
                   /\ Inspect!Acquire(w, x)
  BY DEF Inspect!CompleteLock, Inspect!InspectionSnapshot, AsTested
<1>2. /\ seq' = seq /\ templates' = templates /\ inspections' = inspections
      /\ results' = results /\ trail' = trail
  BY DEF Inspect!CompleteLock, Inspect!tables
<1>3. /\ inspections[i] # Gone /\ trail[i] # <<>> /\ inspections[i].status # 10
      /\ \A v \in Workers : txn[v] # Still /\ txn[v].op = "complete" => txn[v].ref # i
  BY DEF Inspect!CompleteLock, Inspect!Known, Inspect!Rows, Inspect!FreeRow, Inspect!Inspected
<1>4. inspections[i].status = 0
  BY <1>3 DEF QualityInv, QualityTypes, Inspection
<1>5. /\ txn[w] = Still /\ free' = free - 1 /\ txn' = [txn EXCEPT ![w] = x]
      /\ x.op = "complete" /\ x.ref = i /\ x.before = AsTested(inspections[i])
  BY <1>1 DEF Inspect!Acquire
<1>6. Working(x)'
  BY <1>2, <1>3, <1>4, <1>5 DEF Working, AsTested
<1>7. \A v \in Workers \ {w} : OnOrder(txn[v]) => txn[v].ref # i
  BY <1>3, QualityWorker DEF OnOrder, Working
<1>8. QualityTypes'
  BY <1>2, <1>5 DEF QualityInv, QualityTypes, Template, Coded
<1>9. QualityMoved(w, x, {})
  <2>1. free' = free + Holds(txn[w]) - Holds(x)
    BY <1>5 DEF Holds, QualityInv, QualityPool
  <2> QED
    BY <1>2, <1>5, <1>6, <1>7, <2>1 DEF QualityMoved
<1>10. seq <= seq'
  BY <1>2 DEF QualityInv, QualityTypes
<1> QED
  BY <1>8, <1>9, <1>10, QualityMovedStep

\* The verdict of an order, with its results and the change record.
LEMMA InspectCommitComplete ==
    ASSUME Sampled, QualityInv, NEW w \in Workers, Inspect!CommitComplete(w)
    PROVE  QualityInv'
<1> USE DEF Inspect!Idle, Still, Inspect!Doing
<1>1. /\ txn[w] # Still /\ txn[w].op = "complete" /\ free' = free + 1
      /\ seq' = seq /\ templates' = templates /\ txn' = [txn EXCEPT ![w] = Still]
  BY DEF Inspect!CommitComplete, Inspect!End
<1>2. PICK i \in Inspections :
        /\ i = txn[w].ref /\ inspections[i] # Gone /\ trail[i] # <<>> /\ inspections[i].status = 0
        /\ txn[w].before = AsTested(inspections[i])
  BY <1>1, QualityWorker DEF Working
<1>3. PICK rs : rs = txn[w].results
  OBVIOUS
<1>4. PICK v : v = IF \E k \in DOMAIN rs : rs[k] = 2 THEN 2 ELSE 1
  OBVIOUS
<1>5. Inspect!Overall(rs) = v
  BY <1>4 DEF Inspect!Overall, Inspect!Fail, Inspect!Pass
<1>6. PICK y : y = [inspections[i] EXCEPT !.status = 10, !.result = v]
  OBVIOUS
<1>7. inspections[i] \in Inspection /\ v \in {1, 2}
  BY <1>2, <1>4 DEF QualityInv, QualityTypes
<1>8. y \in Inspection /\ y.status = 10 /\ y.result = v /\ y # Gone
  <2>1. PICK z : z = [inspections[i] EXCEPT !.status = 10]
    OBVIOUS
  <2>2. z \in Inspection /\ z.status = 10
    BY <1>7, <2>1 DEF Inspection
  <2>3. y = [z EXCEPT !.result = v]
    BY <1>6, <2>1
  <2>4. y \in Inspection /\ y.status = 10 /\ y.result = v
    BY <1>7, <2>2, <2>3 DEF Inspection
  <2> QED
    BY <2>4 DEF Inspection, Gone
<1>9. PICK e : e = [action |-> "updated", before |-> AsTested(inspections[i]), after |-> [status |-> 10, result |-> v]]
  OBVIOUS
<1>10. /\ inspections' = [inspections EXCEPT ![i] = y]
       /\ results' = [results EXCEPT ![i] = Append(results[i], rs)]
       /\ trail' = [trail EXCEPT ![i] = Append(trail[i], e)]
  BY <1>2, <1>3, <1>5, <1>6, <1>9 DEF Inspect!CommitComplete, Inspect!Inspected, Inspect!RecordUpdated, QualityInv, QualityTypes
<1>11. e \in TestedEntry /\ e.action # "created" /\ e.before = AsTested(inspections[i]) /\ e.after = AsTested(y)
  <2>1. AsTested(inspections[i]) \in Tested /\ AsTested(y) \in Tested
    BY <1>7, <1>8 DEF Inspection, AsTested, Tested
  <2>2. AsTested(y) = [status |-> 10, result |-> v]
    BY <1>8 DEF AsTested
  <2> QED
    BY <1>9, <2>1, <2>2 DEF TestedEntry
<1>12. Judged(inspections[i], results[i], trail[i]) /\ trail[i] \in Seq(TestedEntry)
  BY DEF QualityInv, QualityRows, QualityTypes
<1>13. Tells(Append(trail[i], e), AsTested(y)) /\ Append(trail[i], e) \in Seq(TestedEntry)
  <2>1. Tells(trail[i], AsTested(inspections[i]))
    BY <1>2, <1>12 DEF Judged
  <2> QED
    BY <1>11, <1>12, <2>1, TellsMore
<1>14. /\ inspections'[i] = y /\ results'[i] = Append(results[i], rs) /\ trail'[i] = Append(trail[i], e)
       /\ \A j \in Inspections \ {i} :
            inspections'[j] = inspections[j] /\ results'[j] = results[j] /\ trail'[j] = trail[j]
       /\ trail' = [d \in DocIds |-> trail'[d]] /\ results' = [j \in Inspections |-> results'[j]]
  BY <1>2, <1>10 DEF QualityInv, QualityTypes, DocIds
<1>15. QualityTypes'
  <2>1. inspections' \in [Inspections -> Inspection \cup {Gone}]
    BY <1>8, <1>10 DEF QualityInv, QualityTypes
  <2>2. \A j \in Inspections : trail'[j] \in Seq(TestedEntry)
    BY <1>13, <1>14 DEF QualityInv, QualityTypes
  <2> QED
    BY <1>1, <1>14, <2>1, <2>2 DEF QualityInv, QualityTypes, Template, Coded
<1>16. Judged(inspections'[i], results'[i], trail'[i])
  <2>1. results[i] = <<>>
    BY <1>2, <1>12 DEF Judged
  <2>2. results'[i] = <<rs>>
    BY <1>14, <2>1
  <2>3. Len(results'[i]) = 1 /\ results'[i][1] = rs /\ trail'[i] # <<>>
    BY <1>12, <1>14, <2>2
  <2> QED
    BY <1>4, <1>8, <1>13, <1>14, <2>3 DEF Judged
<1>17. QualityMoved(w, Still, {i})
  <2>1. free' = free + Holds(txn[w]) - Holds(Still)
    BY <1>1 DEF Holds, QualityInv, QualityPool
  <2>2. \A u \in Workers \ {w} : OnOrder(txn[u]) => txn[u].ref \notin {i}
    BY <1>1, <1>2 DEF OnOrder, QualityInv, QualityLocks
  <2> QED
    BY <1>1, <1>14, <1>16, <2>1, <2>2 DEF QualityMoved, OnOrder
<1>18. seq <= seq'
  BY <1>1 DEF QualityInv, QualityTypes
<1> QED
  BY <1>15, <1>17, <1>18, QualityMovedStep

\* Every step of Quality keeps the invariant.
LEMMA InspectStep == ASSUME Sampled, QualityInv, [Inspect!Next]_(Inspect!vars) PROVE QualityInv'
<1>1. CASE UNCHANGED Inspect!vars
  <2>1. UNCHANGED <<templates, inspections, results, ncs, trail, seq, free, txn>>
    BY <1>1 DEF Inspect!vars
  <2> QED
    BY <2>1 DEF QualityInv, QualityTypes, QualityLocks, QualityRows, QualityPool, Template, Coded, Working, Drafting
<1>2. CASE Inspect!Read
  <2>1. UNCHANGED <<templates, inspections, results, ncs, trail, seq, free, txn>>
    BY <1>2 DEF Inspect!Read, Inspect!vars
  <2> QED
    BY <2>1 DEF QualityInv, QualityTypes, QualityLocks, QualityRows, QualityPool, Template, Coded, Working, Drafting
<1>3. ASSUME NEW w \in Workers,
             \/ \E t \in Inspecting.templates : Inspect!StartTemplate(w, t)
             \/ \E i \in Inspections : Inspect!CreateInspection(w, i) \/ Inspect!CompleteLock(w, i)
             \/ \E n \in Inspecting.ncs : Inspect!CreateNonConformance(w, n)
             \/ Inspect!Step(w)
             \/ Inspect!Abandon(w)
      PROVE  QualityInv'
  BY <1>3, InspectStartTemplate, InspectCreate, InspectCompleteLock, InspectNonConformance, InspectGiveUp,
     InspectAcquireSecond, InspectCommitTemplate, InspectRecord, InspectCommitComplete DEF Inspect!Step
<1> QED
  BY <1>1, <1>2, <1>3 DEF Inspect!Next

-----------------------------------------------------------------------------
(* Inspect: what the invariant says of the properties. *)

LEMMA InspectTypeOK == ASSUME Sampled, QualityInv PROVE Inspect!TypeOK
<1> USE DEF Inspect!Idle, Still, Inspect!Absent, Gone
<1>1. \A i \in Inspect!Rows(inspections) :
        Inspect!InspectionSnapshot(inspections[i]) \in
          [status: {Inspect!Pending, Inspect!Inspected},
           result: {Inspect!NoVerdict, Inspect!Pass, Inspect!Fail}]
  BY DEF Inspect!Rows, Inspect!InspectionSnapshot, Inspect!Pending, Inspect!Inspected, Inspect!NoVerdict,
         Inspect!Pass, Inspect!Fail, QualityInv, QualityTypes, Inspection
<1>2. \A t \in Inspect!Rows(templates) : templates[t].code \in {"IPQC", "OQC", "IQC"} \X (1..seq)
  BY DEF Inspect!Rows, QualityInv, QualityTypes, Template, Coded
<1>3. free + Inspect!SumFunctionOnSet([w \in Workers |-> Inspect!Held(w)], Workers) = Inspecting.pool
  <2>1. \A f, S : Inspect!SumFunctionOnSet(f, S) = SumFunctionOnSet(f, S)
    BY DEF Inspect!SumFunctionOnSet, SumFunctionOnSet, Inspect!FoldFunctionOnSet, FoldFunctionOnSet,
           Inspect!MapThenFoldSet, MapThenFoldSet
  <2>2. \A w \in Workers : Inspect!Held(w) = Holds(txn[w])
    <3> SUFFICES ASSUME NEW w \in Workers PROVE Inspect!Held(w) = Holds(txn[w])
      OBVIOUS
    <3>1. CASE txn[w] = Still
      BY <3>1 DEF Inspect!Held, Holds, Inspect!Doing
    <3>2. CASE txn[w] # Still
      BY <3>2 DEF Inspect!Held, Holds, Inspect!Doing
    <3> QED
      BY <3>1, <3>2
  <2>3. [w \in Workers |-> Inspect!Held(w)] = [w \in Workers |-> Holds(txn[w])]
    BY <2>2
  <2> QED
    BY <2>1, <2>3 DEF QualityInv, QualityPool
<1>4. \A w \in Workers : txn[w] # Still => txn[w].ref \in DocIds
  BY QualityWorker DEF Working, Drafting, DocIds
<1> QED
  BY <1>1, <1>2, <1>3, <1>4 DEF Inspect!TypeOK, Inspect!Ids, DocIds

\* A verdict follows from the results of the one completion.
LEMMA InspectVerdict == ASSUME QualityInv PROVE Inspect!VerdictFollowsResults
<1> USE DEF Inspect!Absent, Gone
<1> SUFFICES ASSUME NEW i \in Inspect!Known(inspections)
             PROVE  LET d == Inspect!GetInspection(i) IN
                    /\ d.order.status = Inspect!Pending =>
                         d.order.result = Inspect!NoVerdict /\ d.results = <<>>
                    /\ d.order.status = Inspect!Inspected =>
                         /\ Len(d.results) = 1
                         /\ d.order.result = Inspect!Fail
                              <=> \E k \in DOMAIN d.results[1] : d.results[1][k] = Inspect!Fail
  BY DEF Inspect!VerdictFollowsResults
<1>1. i \in Inspections /\ inspections[i] # Gone
  BY DEF Inspect!Known, Inspect!Rows, QualityInv, QualityTypes
<1> QED
  BY <1>1 DEF QualityInv, QualityRows, Judged, Inspect!GetInspection, Inspect!InspectionSnapshot, Inspect!Pending,
              Inspect!Inspected, Inspect!NoVerdict, Inspect!Fail

\* The change records of an inspection order reconstruct it.
LEMMA InspectHistory == ASSUME QualityInv PROVE Inspect!InspectionHistory
<1> USE DEF Inspect!Absent, Gone
<1>1. ASSUME NEW i \in Inspect!Known(inspections)
      PROVE  Inspect!Chained(trail[i]) /\ Inspect!UpToDate(trail[i], Inspect!InspectionById(i))
  <2>1. i \in Inspections /\ inspections[i] # Gone /\ trail[i] # <<>>
    BY DEF Inspect!Known, Inspect!Rows, QualityInv, QualityTypes
  <2>2. Tells(trail[i], AsTested(inspections[i]))
    BY <2>1 DEF QualityInv, QualityRows, Judged
  <2>3. Inspect!InspectionById(i) = AsTested(inspections[i])
    BY DEF Inspect!InspectionById, Inspect!GetInspection, Inspect!InspectionSnapshot, AsTested
  <2> QED
    BY <2>2, <2>3 DEF Tells, Inspect!Chained, Inspect!UpToDate
<1> QED
  BY <1>1 DEF Inspect!InspectionHistory

-----------------------------------------------------------------------------
(* Plan: what the tables and the requests hold. *)

Line(c) == [item : c.items, quantity : c.quantities]
BomLines(c) == UNION {[1..n -> Line(c)] : n \in 0..c.lines}
Bom(c) == [item : c.items, status : {0, 1}, lines : BomLines(c)]
Mold(c) == [item : c.items]
Sale(c) == [item : c.items, quantity : c.quantities, delivered : Int, closed : BOOLEAN]
Buying(c) == [item : c.items, quantity : c.quantities, received : Int, approved : BOOLEAN]
BomShown(c) == [item : c.items, status : {0, 1}]
Written(c) == BomShown(c) \cup Mold(c)
PlanLine(c) == [action : {"created", "updated"}, before : Written(c) \cup {Nothing}, after : Written(c)]
ToRelease(c) == [op : {"release"}, ref : c.boms, before : BomShown(c)]
ToRecord(c) == [op : {"mold"}, ref : c.molds]
AsBom(row) == [item |-> row.item, status |-> row.status]

\* A table whose rows appear one at a time.
Filled(table, S, Row) == table \in [S -> Row \cup {Gone}] /\ IsFiniteSet({d \in S : table[d] # Gone})

PlanTypes(c) ==
    /\ Filled(boms, c.boms, Bom(c))
    /\ molds \in [c.molds -> Mold(c) \cup {Gone}]
    /\ Filled(sales, c.sales, Sale(c))
    /\ Filled(purchases, c.purchases, Buying(c))
    /\ \A l \in c.sales : sales[l] # Gone => sales[l].delivered <= Asked(sales[l].quantity)
    /\ \A l \in c.purchases : purchases[l] # Gone => purchases[l].received <= Asked(purchases[l].quantity)
    /\ stock \in [c.items -> Int]
    /\ trail \in [c.boms \cup c.molds -> Seq(PlanLine(c))]
    /\ txn \in [c.workers -> ToRelease(c) \cup ToRecord(c) \cup {Still}]

\* The records of a BOM show it as it is.
PlanTrails(c) ==
    \A b \in c.boms :
      /\ boms[b] = Gone => trail[b] = <<>>
      /\ boms[b] # Gone => Tells(trail[b], AsBom(boms[b]))

\* A release has the row of its BOM, a draft, for itself.
PlanLocks(c) ==
    /\ \A w \in c.workers :
         /\ txn[w] # Still /\ txn[w].op = "release" =>
              boms[txn[w].ref] # Gone /\ txn[w].before = AsBom(boms[txn[w].ref])
         /\ txn[w] # Still /\ txn[w].op = "mold" => molds[txn[w].ref] # Gone
    /\ \A v, w \in c.workers :
         txn[v] # Still /\ txn[w] # Still /\ txn[v].op = "release" /\ txn[w].op = "release"
           /\ txn[v].ref = txn[w].ref => v = w

PlanInv(c) == PlanTypes(c) /\ PlanTrails(c) /\ PlanLocks(c)
Planned(c) == Plan(c)!PlanningAssumption

\* The rows of the tables are told from their absence.
LEMMA PlanShapes ==
    ASSUME NEW CONSTANT c
    PROVE  /\ \A x \in Bom(c) : x # Gone
           /\ \A x \in Mold(c) : x # Gone
           /\ \A x \in Sale(c) : x # Gone
           /\ \A x \in Buying(c) : x # Gone
           /\ \A x \in ToRelease(c) : x # Still /\ x.op = "release" /\ x.ref \in c.boms /\ x.before \in BomShown(c)
           /\ \A x \in ToRecord(c) : x # Still /\ x.op = "mold" /\ x.ref \in c.molds
<1> USE DEF Gone, Still
<1>1. "item" \in DOMAIN [item |-> 0] /\ DOMAIN Gone = {"row"} /\ DOMAIN Still = {"op"}
  OBVIOUS
<1>2. \A x \in Bom(c) : DOMAIN x = {"item", "status", "lines"}
  BY DEF Bom
<1>3. \A x \in Mold(c) : DOMAIN x = {"item"}
  BY DEF Mold
<1>4. \A x \in Sale(c) : DOMAIN x = {"item", "quantity", "delivered", "closed"}
  BY DEF Sale
<1>5. \A x \in Buying(c) : DOMAIN x = {"item", "quantity", "received", "approved"}
  BY DEF Buying
<1>6. \A x \in ToRelease(c) : DOMAIN x = {"op", "ref", "before"} /\ x.op = "release" /\ x.ref \in c.boms
                                /\ x.before \in BomShown(c)
  BY DEF ToRelease
<1>7. \A x \in ToRecord(c) : DOMAIN x = {"op", "ref"} /\ x.op = "mold" /\ x.ref \in c.molds
  BY DEF ToRecord
<1> QED
  BY <1>1, <1>2, <1>3, <1>4, <1>5, <1>6, <1>7

\* One row is written: it stays a table.
LEMMA RowWritten ==
    ASSUME NEW t, NEW S, NEW Row, Filled(t, S, Row), NEW d \in S, NEW x \in Row
    PROVE  Filled([t EXCEPT ![d] = x], S, Row)
<1> DEFINE u == [t EXCEPT ![d] = x]
           R == {e \in S : t[e] # Gone}
<1>1. u \in [S -> Row \cup {Gone}]
  BY DEF Filled
<1>2. {e \in S : u[e] # Gone} \in SUBSET (R \cup {d})
  BY DEF Filled
<1>3. IsFiniteSet(R \cup {d})
  BY FS_AddElement DEF Filled
<1>4. IsFiniteSet({e \in S : u[e] # Gone})
  <2> HIDE DEF R, u
  <2> QED
    BY <1>2, <1>3, FS_Subset
<1> QED
  BY <1>1, <1>4 DEF Filled

\* The invariant holds at the start: the tables are empty.
LEMMA PlanInit == ASSUME NEW CONSTANT c, Planned(c), Plan(c)!Init PROVE PlanInv(c)
<1> USE DEF Plan!Init, Plan!Absent, Plan!Idle, Gone, Still
<1>1. ASSUME NEW S, NEW Row PROVE Filled([d \in S |-> Gone], S, Row)
  <2>1. {d \in S : [e \in S |-> Gone][d] # Gone} = {}
    OBVIOUS
  <2>2. [d \in S |-> Gone] \in [S -> Row \cup {Gone}]
    OBVIOUS
  <2> QED
    BY <2>1, <2>2, FS_EmptySet DEF Filled
<1>2. Filled(boms, c.boms, Bom(c)) /\ Filled(sales, c.sales, Sale(c)) /\ Filled(purchases, c.purchases, Buying(c))
  BY <1>1
<1>3. PlanTypes(c)
  BY <1>2 DEF PlanTypes, Planned, Plan!PlanningAssumption
<1>4. PlanTrails(c) /\ PlanLocks(c)
  BY DEF PlanTrails, PlanLocks
<1> QED
  BY <1>3, <1>4 DEF PlanInv

\* What the queries read changes, the BOMs and their records do not.
LEMMA PlanAside ==
    ASSUME NEW CONSTANT c, PlanInv(c), PlanTypes(c)', UNCHANGED <<boms, molds, trail, txn>>
    PROVE  PlanInv(c)'
<1>1. PlanTrails(c)' /\ PlanLocks(c)'
  BY DEF PlanInv, PlanTrails, PlanLocks
<1> QED
  BY <1>1 DEF PlanInv

\* A draft is created with its first record.
LEMMA PlanCreate ==
    ASSUME NEW CONSTANT c, Planned(c), PlanInv(c), NEW b \in c.boms, Plan(c)!CreateBom(b)
    PROVE  PlanInv(c)'
<1> USE DEF Plan!Absent, Gone
<1>1. PICK item \in c.items, ls \in BomLines(c) :
        /\ boms' = [boms EXCEPT ![b] = [item |-> item, status |-> 0, lines |-> ls]]
        /\ trail' = [trail EXCEPT ![b] = Plan(c)!RecordCreate(@, [item |-> item, status |-> 0])]
  BY DEF Plan!CreateBom, Plan!Draft, BomLines, Line
<1>2. boms[b] = Gone /\ UNCHANGED <<molds, txn, sales, purchases, stock, active>>
  BY DEF Plan!CreateBom, Plan!world
<1>3. PICK row : row = [item |-> item, status |-> 0, lines |-> ls]
  OBVIOUS
<1>4. row \in Bom(c) /\ AsBom(row) = [item |-> item, status |-> 0] /\ row # Gone
  <2>2. row \in Bom(c)
    BY <1>3 DEF Bom
  <2> QED
    BY <1>3, <2>2, PlanShapes DEF AsBom
<1>5. PICK e : e = [action |-> "created", before |-> Nothing, after |-> AsBom(row)]
  OBVIOUS
<1>6. e \in PlanLine(c) /\ e.action = "created" /\ e.after = AsBom(row)
  BY <1>4, <1>5 DEF PlanLine, Written, BomShown
<1>7. trail[b] = <<>> /\ b \in DOMAIN trail /\ trail' = [trail EXCEPT ![b] = Append(<<>>, e)]
  BY <1>1, <1>2, <1>4, <1>5 DEF PlanInv, PlanTrails, PlanTypes, Plan!RecordCreate, Plan!Nothing, Nothing
<1>8. Tells(Append(<<>>, e), AsBom(row)) /\ Append(<<>>, e) \in Seq(PlanLine(c))
  BY <1>6, TellsFirst
<1>9. PlanTypes(c)'
  <2>1. Filled(boms, c.boms, Bom(c))'
    BY <1>1, <1>3, <1>4, RowWritten DEF PlanInv, PlanTypes
  <2>2. trail' \in [c.boms \cup c.molds -> Seq(PlanLine(c))]
    BY <1>7, <1>8 DEF PlanInv, PlanTypes
  <2> QED
    BY <1>2, <2>1, <2>2 DEF PlanInv, PlanTypes, Filled
<1>10. \A d \in c.boms : IF d = b THEN boms'[d] = row /\ trail'[d] = Append(<<>>, e)
                                  ELSE boms'[d] = boms[d] /\ trail'[d] = trail[d]
  BY <1>1, <1>3, <1>7 DEF PlanInv, PlanTypes, Filled
<1>11. PlanTrails(c)'
  BY <1>4, <1>8, <1>10 DEF PlanInv, PlanTrails
<1>12. PlanLocks(c)'
  <2>1. \A w \in c.workers : txn[w] # Still /\ txn[w].op = "release" => txn[w].ref \in c.boms /\ txn[w].ref # b
    BY <1>2, PlanShapes DEF PlanInv, PlanTypes, PlanLocks
  <2> QED
    BY <1>2, <1>10, <2>1 DEF PlanInv, PlanLocks
<1> QED
  BY <1>9, <1>11, <1>12 DEF PlanInv

\* A request gets or gives up what it works on; the BOMs do not change.
LEMMA PlanTurn ==
    ASSUME NEW CONSTANT c, Planned(c), PlanInv(c), NEW w \in c.workers,
           NEW x \in ToRelease(c) \cup ToRecord(c) \cup {Still}, txn' = [txn EXCEPT ![w] = x],
           molds' \in [c.molds -> Mold(c) \cup {Gone}],
           \A d \in c.molds : molds[d] # Gone => molds'[d] # Gone,
           x # Still /\ x.op = "mold" => molds'[x.ref] # Gone,
           x # Still /\ x.op = "release" =>
             /\ boms[x.ref] # Gone /\ x.before = AsBom(boms[x.ref])
             /\ \A v \in c.workers : txn[v] # Still => txn[v].ref # x.ref,
           UNCHANGED <<boms, trail, sales, purchases, stock, active>>
    PROVE  PlanInv(c)'
<1>1. PlanTypes(c)'
  BY DEF PlanInv, PlanTypes, Filled
<1>2. PlanTrails(c)'
  BY DEF PlanInv, PlanTrails
<1>3. \A v \in c.workers : txn'[v] = IF v = w THEN x ELSE txn[v]
  BY DEF PlanInv, PlanTypes
<1>4. \A v \in c.workers : txn[v] # Still /\ txn[v].op = "mold" => txn[v].ref \in c.molds
  BY PlanShapes DEF PlanInv, PlanTypes
<1>5. PlanLocks(c)'
  <2>1. ASSUME NEW v \in c.workers, txn'[v] # Still, txn'[v].op = "release"
        PROVE  boms'[txn'[v].ref] # Gone /\ txn'[v].before = AsBom(boms'[txn'[v].ref])
    BY <1>3, <2>1 DEF PlanInv, PlanLocks
  <2>2. ASSUME NEW v \in c.workers, txn'[v] # Still, txn'[v].op = "mold" PROVE molds'[txn'[v].ref] # Gone
    BY <1>3, <1>4, <2>2 DEF PlanInv, PlanLocks
  <2>3. ASSUME NEW v \in c.workers, NEW u \in c.workers, txn'[v] # Still, txn'[u] # Still,
               txn'[v].op = "release", txn'[u].op = "release", txn'[v].ref = txn'[u].ref
        PROVE  v = u
    BY <1>3, <2>3 DEF PlanInv, PlanLocks
  <2> QED
    BY <2>1, <2>2, <2>3 DEF PlanLocks
<1> QED
  BY <1>1, <1>2, <1>5 DEF PlanInv

\* The release of the locked draft commits with its record.
LEMMA PlanRelease ==
    ASSUME NEW CONSTANT c, Planned(c), PlanInv(c), NEW w \in c.workers, Plan(c)!CommitRelease(w)
    PROVE  PlanInv(c)'
<1> USE DEF Plan!Idle, Still
<1>1. PICK b : b = txn[w].ref
  OBVIOUS
<1>2. /\ txn[w] # Still /\ txn[w].op = "release" /\ UNCHANGED <<molds, sales, purchases, stock, active>>
      /\ boms' = [boms EXCEPT ![b].status = 1]
      /\ trail' = [trail EXCEPT ![b] =
           Plan(c)!RecordUpdated(@, txn[w].before, [txn[w].before EXCEPT !.status = 1])]
      /\ txn' = [txn EXCEPT ![w] = Still]
  BY <1>1 DEF Plan!CommitRelease, Plan!world, Plan!Released
<1>3. b \in c.boms /\ txn[w].before \in BomShown(c) /\ boms[b] # Gone /\ txn[w].before = AsBom(boms[b])
  BY <1>1, <1>2, PlanShapes DEF PlanInv, PlanTypes, PlanLocks
<1>4. PICK row : row = [boms[b] EXCEPT !.status = 1]
  OBVIOUS
<1>5. boms[b] \in Bom(c)
  BY <1>3 DEF PlanInv, PlanTypes, Filled
<1>6. row \in Bom(c) /\ row # Gone /\ AsBom(row) = [txn[w].before EXCEPT !.status = 1]
      /\ AsBom(row) \in BomShown(c)
  <2>1. row \in Bom(c) /\ row.item = boms[b].item /\ row.status = 1
    BY <1>4, <1>5 DEF Bom
  <2>2. AsBom(row) \in BomShown(c)
    BY <2>1 DEF AsBom, BomShown, Bom
  <2>3. AsBom(row) = [txn[w].before EXCEPT !.status = 1]
    BY <1>3, <2>1 DEF AsBom
  <2> QED
    BY <2>1, <2>2, <2>3, PlanShapes
<1>7. PICK e : e = [action |-> "updated", before |-> AsBom(boms[b]), after |-> AsBom(row)]
  OBVIOUS
<1>8. e \in PlanLine(c) /\ e.action # "created" /\ e.before = AsBom(boms[b]) /\ e.after = AsBom(row)
  BY <1>3, <1>6, <1>7 DEF PlanLine, Written
<1>9. trail' = [trail EXCEPT ![b] = Append(trail[b], e)]
  BY <1>2, <1>3, <1>6, <1>7 DEF PlanInv, PlanTypes, Plan!RecordUpdated
<1>10. trail[b] \in Seq(PlanLine(c)) /\ Tells(trail[b], AsBom(boms[b])) /\ b \in DOMAIN trail
  BY <1>3 DEF PlanInv, PlanTypes, PlanTrails
<1>11. Tells(Append(trail[b], e), AsBom(row)) /\ Append(trail[b], e) \in Seq(PlanLine(c))
  BY <1>8, <1>10, TellsMore
<1>12. boms' = [boms EXCEPT ![b] = row]
  BY <1>2, <1>4
<1>13. PlanTypes(c)'
  <2>1. Filled(boms, c.boms, Bom(c))'
    BY <1>3, <1>6, <1>12, RowWritten DEF PlanInv, PlanTypes
  <2>2. trail' \in [c.boms \cup c.molds -> Seq(PlanLine(c))]
    BY <1>9, <1>11 DEF PlanInv, PlanTypes
  <2>3. txn' \in [c.workers -> ToRelease(c) \cup ToRecord(c) \cup {Still}]
    BY <1>2 DEF PlanInv, PlanTypes
  <2> QED
    BY <1>2, <2>1, <2>2, <2>3 DEF PlanInv, PlanTypes, Filled
<1>14. \A d \in c.boms : IF d = b THEN boms'[d] = row /\ trail'[d] = Append(trail[b], e)
                                  ELSE boms'[d] = boms[d] /\ trail'[d] = trail[d]
  BY <1>9, <1>12 DEF PlanInv, PlanTypes, Filled
<1>15. PlanTrails(c)'
  BY <1>6, <1>11, <1>14 DEF PlanInv, PlanTrails
<1>16. \A v \in c.workers : txn'[v] = IF v = w THEN Still ELSE txn[v]
  BY <1>2 DEF PlanInv, PlanTypes
<1>17. PlanLocks(c)'
  <2>1. \A v \in c.workers : txn[v] # Still /\ txn[v].op = "release" /\ v # w =>
          txn[v].ref \in c.boms /\ txn[v].ref # b
    BY <1>1, <1>2, PlanShapes DEF PlanInv, PlanTypes, PlanLocks
  <2>2. \A v \in c.workers : txn'[v] # Still => v # w /\ txn'[v] = txn[v]
    BY <1>16
  <2>3. \A v \in c.workers : txn[v] # Still /\ txn[v].op = "release" /\ v # w =>
          boms'[txn[v].ref] # Gone /\ txn[v].before = AsBom(boms'[txn[v].ref])
    BY <1>14, <2>1 DEF PlanInv, PlanLocks
  <2> QED
    BY <1>2, <2>2, <2>3 DEF PlanInv, PlanLocks
<1> QED
  BY <1>13, <1>15, <1>17 DEF PlanInv

\* The record of a mold does not concern the BOMs.
LEMMA PlanMold ==
    ASSUME NEW CONSTANT c, Planned(c), PlanInv(c), NEW w \in c.workers, Plan(c)!RecordMold(w)
    PROVE  PlanInv(c)'
<1> USE DEF Plan!Idle, Still
<1>1. PICK d : d = txn[w].ref
  OBVIOUS
<1>2. /\ txn[w] # Still /\ txn[w].op = "mold" /\ UNCHANGED <<boms, molds, sales, purchases, stock, active>>
      /\ trail' = [trail EXCEPT ![d] = Plan(c)!RecordCreate(@, molds[d])]
      /\ txn' = [txn EXCEPT ![w] = Still]
  BY <1>1 DEF Plan!RecordMold, Plan!world
<1>3. d \in c.molds /\ molds[d] \in Mold(c) /\ d \notin c.boms
  BY <1>1, <1>2, PlanShapes DEF PlanInv, PlanTypes, PlanLocks, Planned, Plan!PlanningAssumption
<1>4. PICK e : e = [action |-> "created", before |-> Nothing, after |-> molds[d]]
  OBVIOUS
<1>5. e \in PlanLine(c)
  BY <1>3, <1>4 DEF PlanLine, Written
<1>6. trail' = [trail EXCEPT ![d] = Append(trail[d], e)]
  BY <1>2, <1>3, <1>4 DEF PlanInv, PlanTypes, Plan!RecordCreate, Plan!Nothing, Nothing
<1>7. PlanTypes(c)'
  <2>1. trail' \in [c.boms \cup c.molds -> Seq(PlanLine(c))]
    BY <1>3, <1>5, <1>6 DEF PlanInv, PlanTypes
  <2>2. txn' \in [c.workers -> ToRelease(c) \cup ToRecord(c) \cup {Still}]
    BY <1>2 DEF PlanInv, PlanTypes
  <2> QED
    BY <1>2, <2>1, <2>2 DEF PlanInv, PlanTypes, Filled
<1>8. \A b \in c.boms : trail'[b] = trail[b]
  BY <1>3, <1>6 DEF PlanInv, PlanTypes
<1>9. PlanTrails(c)'
  BY <1>2, <1>8 DEF PlanInv, PlanTrails
<1>10. \A v \in c.workers : txn'[v] = IF v = w THEN Still ELSE txn[v]
  BY <1>2 DEF PlanInv, PlanTypes
<1>11. PlanLocks(c)'
  BY <1>2, <1>10 DEF PlanInv, PlanLocks
<1> QED
  BY <1>7, <1>9, <1>11 DEF PlanInv

\* The sales and purchases, and the stock they move.
LEMMA PlanWorld ==
    ASSUME NEW CONSTANT c, Planned(c), PlanInv(c),
           \/ \E l \in c.sales : Plan(c)!Sell(l) \/ (\E i \in c.items : Plan(c)!Deliver(l, i))
           \/ \E l \in c.purchases : \/ Plan(c)!Order(l) \/ Plan(c)!Approve(l)
                                     \/ \E i \in c.items : Plan(c)!Receive(l, i)
           \/ \E i \in c.items : Plan(c)!SetActive(i)
           \/ Plan(c)!Read
    PROVE  PlanInv(c)'
<1> USE DEF Plan!Absent, Gone
<1>0. c.quantities \in SUBSET Int
  BY DEF Planned, Plan!PlanningAssumption
<1>8. ASSUME NEW l \in c.sales, NEW row \in Sale(c), row.delivered <= Asked(row.quantity),
             sales' = [sales EXCEPT ![l] = row], stock' \in [c.items -> Int],
             UNCHANGED <<boms, molds, trail, txn, purchases>>
      PROVE  PlanInv(c)'
  <2>1. Filled(sales, c.sales, Sale(c))'
    BY <1>8, RowWritten DEF PlanInv, PlanTypes
  <2>2. \A d \in c.sales : sales'[d] = IF d = l THEN row ELSE sales[d]
    BY <1>8 DEF PlanInv, PlanTypes, Filled
  <2>3. PlanTypes(c)'
    BY <1>8, <2>1, <2>2 DEF PlanInv, PlanTypes, Filled
  <2> QED
    BY <1>8, <2>3, PlanAside
<1>1. ASSUME NEW l \in c.sales, Plan(c)!Sell(l) PROVE PlanInv(c)'
  <2>1. PICK item \in c.items, n \in c.quantities :
          sales' = [sales EXCEPT ![l] = [item |-> item, quantity |-> n, delivered |-> 0, closed |-> FALSE]]
    BY <1>1 DEF Plan!Sell
  <2>2. PICK row : row = [item |-> item, quantity |-> n, delivered |-> 0, closed |-> FALSE]
    OBVIOUS
  <2>3. row \in Sale(c) /\ row.delivered <= Asked(row.quantity)
    BY <1>0, <2>2 DEF Sale, Asked
  <2>4. UNCHANGED <<boms, molds, trail, txn, purchases, stock, active>>
    BY <1>1 DEF Plan!Sell
  <2> QED
    BY <1>8, <2>1, <2>2, <2>3, <2>4 DEF PlanInv, PlanTypes
<1>2. ASSUME NEW l \in c.sales, NEW i \in c.items, Plan(c)!Deliver(l, i) PROVE PlanInv(c)'
  <2>1. sales[l] \in Sale(c)
    BY <1>2 DEF Plan!Deliver, Plan!Rows, PlanInv, PlanTypes, Filled
  <2>11. PICK n \in c.quantities :
           /\ sales[l].delivered + n <= sales[l].quantity
           /\ sales' = [sales EXCEPT ![l].delivered = sales[l].delivered + n,
                                     ![l].closed = (sales[l].delivered + n >= sales[l].quantity)]
           /\ stock' = [stock EXCEPT ![i] = @ - n]
           /\ UNCHANGED <<boms, molds, trail, txn, purchases, active>>
    BY <1>2 DEF Plan!Deliver
  <2>12. PICK sum : sum = sales[l].delivered + n
    OBVIOUS
  <2>2. /\ sum = sales[l].delivered + n /\ sum <= sales[l].quantity
        /\ sales' = [sales EXCEPT ![l].delivered = sum, ![l].closed = (sum >= sales[l].quantity)]
        /\ stock' = [stock EXCEPT ![i] = @ - n]
        /\ UNCHANGED <<boms, molds, trail, txn, purchases, active>>
    BY <2>11, <2>12
  <2>3. PICK row : row = [sales[l] EXCEPT !.delivered = sum, !.closed = (sum >= sales[l].quantity)]
    OBVIOUS
  <2>4. n \in Int /\ sum \in Int /\ sales[l].quantity \in Int
    BY <1>0, <2>1, <2>2 DEF Sale
  <2>9. PICK full \in BOOLEAN : full = (sum >= sales[l].quantity)
    <3>1. (sum >= sales[l].quantity) \in BOOLEAN
      OBVIOUS
    <3> QED
      BY <3>1, Zenon
  <2>10. row = [sales[l] EXCEPT !.delivered = sum, !.closed = full]
    BY <2>3, <2>9
  <2>5. row \in Sale(c) /\ row.delivered = sum /\ row.quantity = sales[l].quantity
    BY <2>1, <2>4, <2>10 DEF Sale
  <2>6. row.delivered <= Asked(row.quantity)
    BY <2>2, <2>4, <2>5 DEF Asked
  <2>7. sales' = [sales EXCEPT ![l] = row]
    BY <2>1, <2>2, <2>3 DEF PlanInv, PlanTypes, Filled
  <2>8. stock' \in [c.items -> Int]
    BY <2>2, <2>4 DEF PlanInv, PlanTypes
  <2> QED
    BY <1>8, <2>2, <2>5, <2>6, <2>7, <2>8
<1>3. ASSUME NEW l \in c.purchases, NEW row \in Buying(c), row.received <= Asked(row.quantity),
             purchases' = [purchases EXCEPT ![l] = row], stock' \in [c.items -> Int],
             UNCHANGED <<boms, molds, trail, txn, sales>>
      PROVE  PlanInv(c)'
  <2>1. Filled(purchases, c.purchases, Buying(c))'
    BY <1>3, RowWritten DEF PlanInv, PlanTypes
  <2>2. \A d \in c.purchases : purchases'[d] = IF d = l THEN row ELSE purchases[d]
    BY <1>3 DEF PlanInv, PlanTypes, Filled
  <2>3. PlanTypes(c)'
    BY <1>3, <2>1, <2>2 DEF PlanInv, PlanTypes, Filled
  <2> QED
    BY <1>3, <2>3, PlanAside
<1>4. ASSUME NEW l \in c.purchases, Plan(c)!Order(l) PROVE PlanInv(c)'
  <2>1. PICK item \in c.items, n \in c.quantities :
          purchases' = [purchases EXCEPT ![l] =
            [item |-> item, quantity |-> n, received |-> 0, approved |-> FALSE]]
    BY <1>4 DEF Plan!Order
  <2>2. PICK row : row = [item |-> item, quantity |-> n, received |-> 0, approved |-> FALSE]
    OBVIOUS
  <2>3. row \in Buying(c) /\ row.received <= Asked(row.quantity)
    BY <1>0, <2>2 DEF Buying, Asked
  <2>4. UNCHANGED <<boms, molds, trail, txn, sales, stock, active>>
    BY <1>4 DEF Plan!Order
  <2> QED
    BY <1>3, <2>1, <2>2, <2>3, <2>4 DEF PlanInv, PlanTypes
<1>5. ASSUME NEW l \in c.purchases, Plan(c)!Approve(l) PROVE PlanInv(c)'
  <2>1. purchases[l] \in Buying(c) /\ purchases[l].received <= Asked(purchases[l].quantity)
    BY <1>5 DEF Plan!Approve, Plan!Rows, PlanInv, PlanTypes, Filled
  <2>2. PICK row : row = [purchases[l] EXCEPT !.approved = TRUE]
    OBVIOUS
  <2>3. row \in Buying(c) /\ row.received <= Asked(row.quantity) /\ purchases' = [purchases EXCEPT ![l] = row]
    BY <1>5, <2>1, <2>2 DEF Plan!Approve, Buying
  <2>4. UNCHANGED <<boms, molds, trail, txn, sales, stock, active>>
    BY <1>5 DEF Plan!Approve
  <2> QED
    BY <1>3, <2>3, <2>4 DEF PlanInv, PlanTypes
<1>6. ASSUME NEW l \in c.purchases, NEW i \in c.items, Plan(c)!Receive(l, i) PROVE PlanInv(c)'
  <2>1. purchases[l] \in Buying(c)
    BY <1>6 DEF Plan!Receive, Plan!Rows, PlanInv, PlanTypes, Filled
  <2>2. PICK n \in c.quantities : /\ purchases[l].received + n <= purchases[l].quantity
                                  /\ purchases' = [purchases EXCEPT ![l].received = @ + n]
                                  /\ stock' = [stock EXCEPT ![i] = @ + n]
    BY <1>6 DEF Plan!Receive
  <2>3. PICK row : row = [purchases[l] EXCEPT !.received = @ + n]
    OBVIOUS
  <2>7. n \in Int /\ purchases[l].received + n \in Int /\ purchases[l].quantity \in Int
    BY <1>0, <2>1 DEF Buying
  <2>8. row \in Buying(c) /\ row.received = purchases[l].received + n /\ row.quantity = purchases[l].quantity
    BY <2>1, <2>3, <2>7 DEF Buying
  <2>9. row.received <= Asked(row.quantity)
    BY <2>2, <2>7, <2>8 DEF Asked
  <2>4. purchases' = [purchases EXCEPT ![l] = row]
    BY <2>1, <2>2, <2>3 DEF PlanInv, PlanTypes, Filled
  <2>5. stock' \in [c.items -> Int]
    BY <2>2, <2>7 DEF PlanInv, PlanTypes
  <2>6. UNCHANGED <<boms, molds, trail, txn, sales, active>>
    BY <1>6 DEF Plan!Receive
  <2> QED
    BY <1>3, <2>4, <2>5, <2>6, <2>8, <2>9
<1>7. ASSUME (\E i \in c.items : Plan(c)!SetActive(i)) \/ Plan(c)!Read PROVE PlanInv(c)'
  <2>1. UNCHANGED <<boms, molds, trail, txn, sales, purchases, stock>>
    BY <1>7 DEF Plan!SetActive, Plan!Read, Plan!vars
  <2>2. PlanTypes(c)'
    BY <2>1 DEF PlanInv, PlanTypes, Filled
  <2> QED
    BY <2>1, <2>2, PlanAside
<1> QED
  BY <1>1, <1>2, <1>4, <1>5, <1>6, <1>7

\* Every step of the planning tables keeps the invariant.
LEMMA PlanStep ==
    ASSUME NEW CONSTANT c, Planned(c), PlanInv(c), [Plan(c)!Next]_(Plan(c)!vars)
    PROVE  PlanInv(c)'
<1> USE DEF Plan!Absent, Gone, Plan!Idle, Still
<1>1. CASE UNCHANGED Plan(c)!vars
  <2>1. UNCHANGED <<boms, molds, trail, txn, sales, purchases, stock>>
    BY <1>1 DEF Plan!vars
  <2> QED
    BY <2>1 DEF PlanInv, PlanTypes, Filled, PlanTrails, PlanLocks
<1>2. ASSUME NEW w \in c.workers, NEW b \in c.boms, Plan(c)!ReleaseLock(w, b) PROVE PlanInv(c)'
  <2>1. /\ b \in c.boms /\ boms[b] # Gone /\ UNCHANGED <<boms, molds, trail, sales, purchases, stock, active>>
        /\ \A v \in c.workers : txn[v] # Still => txn[v].ref # b
        /\ txn' = [txn EXCEPT ![w] = [op |-> "release", ref |-> b, before |-> AsBom(boms[b])]]
    BY <1>2 DEF Plan!ReleaseLock, Plan!Rows, Plan!FreeBom, Plan!world, Plan!BomSnapshot, AsBom,
                PlanInv, PlanTypes, Filled
  <2>2. PICK x : x = [op |-> "release", ref |-> b, before |-> AsBom(boms[b])]
    OBVIOUS
  <2>3. AsBom(boms[b]) \in BomShown(c)
    <3>1. boms[b] \in Bom(c)
      BY <2>1 DEF PlanInv, PlanTypes, Filled
    <3> QED
      BY <3>1 DEF AsBom, BomShown, Bom
  <2>4. x \in ToRelease(c) /\ x.op = "release" /\ x.ref = b /\ x.before = AsBom(boms[b])
    BY <2>2, <2>3 DEF ToRelease
  <2>5. molds' \in [c.molds -> Mold(c) \cup {Gone}]
    BY <2>1 DEF PlanInv, PlanTypes
  <2> QED
    BY <2>1, <2>2, <2>4, <2>5, PlanTurn
<1>3. ASSUME NEW w \in c.workers, NEW d \in c.molds, Plan(c)!InsertMold(w, d) PROVE PlanInv(c)'
  <2>1. PICK item \in c.items : molds' = [molds EXCEPT ![d] = [item |-> item]]
    BY <1>3 DEF Plan!InsertMold
  <2>2. txn' = [txn EXCEPT ![w] = [op |-> "mold", ref |-> d]]
        /\ UNCHANGED <<boms, trail, sales, purchases, stock, active>>
    BY <1>3 DEF Plan!InsertMold, Plan!world
  <2>3. PICK x : x = [op |-> "mold", ref |-> d]
    OBVIOUS
  <2>4. x \in ToRecord(c) /\ x.op = "mold" /\ x.ref = d
    BY <2>3 DEF ToRecord
  <2>5. [item |-> item] \in Mold(c) /\ [item |-> item] # Gone
    BY PlanShapes DEF Mold
  <2>6. molds' \in [c.molds -> Mold(c) \cup {Gone}] /\ molds'[d] # Gone
        /\ \A e \in c.molds : molds[e] # Gone => molds'[e] # Gone
    BY <2>1, <2>5 DEF PlanInv, PlanTypes
  <2> QED
    BY <2>2, <2>3, <2>4, <2>6, PlanTurn
<1>4. ASSUME NEW w \in c.workers, Plan(c)!Abandon(w) PROVE PlanInv(c)'
  <2>1. txn' = [txn EXCEPT ![w] = Still]
        /\ UNCHANGED <<boms, molds, trail, sales, purchases, stock, active>>
    BY <1>4 DEF Plan!Abandon, Plan!world
  <2>2. molds' \in [c.molds -> Mold(c) \cup {Gone}]
    BY <2>1 DEF PlanInv, PlanTypes
  <2> QED
    BY <2>1, <2>2, PlanTurn
<1>5. ASSUME Plan(c)!Next PROVE PlanInv(c)'
  BY <1>2, <1>3, <1>4, <1>5, PlanCreate, PlanRelease, PlanMold, PlanWorld DEF Plan!Next
<1> QED
  BY <1>1, <1>5

-----------------------------------------------------------------------------
(* What the planning queries add up. *)

\* The sums of Planning are those of SumLemmas, and its maximum is the larger.
LEMMA PlanSums ==
    ASSUME NEW CONSTANT c
    PROVE  /\ \A f : Plan(c)!Total(f) = SumFunctionOnSet(f, DOMAIN f)
           /\ \A n \in Int : Plan(c)!Max({0, n}) = Asked(n)
<1>1. \A f, S : Plan(c)!SumFunctionOnSet(f, S) = SumFunctionOnSet(f, S)
  BY DEF Plan!SumFunctionOnSet, SumFunctionOnSet, Plan!FoldFunctionOnSet, FoldFunctionOnSet,
         Plan!MapThenFoldSet, MapThenFoldSet
<1>2. ASSUME NEW n \in Int PROVE Plan(c)!Max({0, n}) = Asked(n)
  BY DEF Plan!Max, Asked
<1> QED
  BY <1>1, <1>2 DEF Plan!Total

\* The rows that the queries read, and what they say.
LEMMA PlanReads ==
    ASSUME NEW CONSTANT c, Planned(c), PlanInv(c)
    PROVE  /\ c.quantities \in SUBSET Int /\ c.lines \in Nat
           /\ IsFiniteSet(Plan(c)!Rows(sales)) /\ IsFiniteSet(Plan(c)!Rows(purchases))
           /\ IsFiniteSet(Plan(c)!Rows(boms))
           /\ \A l \in Plan(c)!Rows(sales) : l \in c.sales /\ sales[l] \in Sale(c) /\ sales[l].quantity \in Int
           /\ \A l \in Plan(c)!Rows(purchases) :
                /\ l \in c.purchases /\ purchases[l] \in Buying(c)
                /\ purchases[l].quantity \in Int /\ purchases[l].received \in Int
                /\ purchases[l].received <= Asked(purchases[l].quantity)
           /\ \A b \in Plan(c)!Rows(boms) :
                /\ b \in c.boms /\ boms[b] \in Bom(c) /\ boms[b].lines \in BomLines(c)
                /\ IsFiniteSet(DOMAIN boms[b].lines) /\ DOMAIN boms[b].lines \in SUBSET (1..c.lines)
                /\ \A k \in DOMAIN boms[b].lines : boms[b].lines[k] \in Line(c) /\ boms[b].lines[k].quantity \in Int
<1> USE DEF Plan!Absent, Gone
<1>1. c.quantities \in SUBSET Int /\ c.lines \in Nat
  BY DEF Planned, Plan!PlanningAssumption
<1>2. /\ Plan(c)!Rows(sales) = {d \in c.sales : sales[d] # Gone}
      /\ Plan(c)!Rows(purchases) = {d \in c.purchases : purchases[d] # Gone}
      /\ Plan(c)!Rows(boms) = {d \in c.boms : boms[d] # Gone}
  BY DEF Plan!Rows, PlanInv, PlanTypes, Filled
<1>3. IsFiniteSet(Plan(c)!Rows(sales)) /\ IsFiniteSet(Plan(c)!Rows(purchases)) /\ IsFiniteSet(Plan(c)!Rows(boms))
  BY <1>2 DEF PlanInv, PlanTypes, Filled
<1>4. ASSUME NEW l \in Plan(c)!Rows(sales)
      PROVE  l \in c.sales /\ sales[l] \in Sale(c) /\ sales[l].quantity \in Int
  <2>1. l \in c.sales /\ sales[l] \in Sale(c)
    BY <1>2 DEF PlanInv, PlanTypes, Filled
  <2> QED
    BY <1>1, <2>1 DEF Sale
<1>5. ASSUME NEW l \in Plan(c)!Rows(purchases)
      PROVE  /\ l \in c.purchases /\ purchases[l] \in Buying(c)
             /\ purchases[l].quantity \in Int /\ purchases[l].received \in Int
             /\ purchases[l].received <= Asked(purchases[l].quantity)
  <2>1. l \in c.purchases /\ purchases[l] \in Buying(c) /\ purchases[l].received <= Asked(purchases[l].quantity)
    BY <1>2 DEF PlanInv, PlanTypes, Filled
  <2> QED
    BY <1>1, <2>1 DEF Buying
<1>6. ASSUME NEW b \in Plan(c)!Rows(boms)
      PROVE  /\ b \in c.boms /\ boms[b] \in Bom(c) /\ boms[b].lines \in BomLines(c)
             /\ IsFiniteSet(DOMAIN boms[b].lines) /\ DOMAIN boms[b].lines \in SUBSET (1..c.lines)
             /\ \A k \in DOMAIN boms[b].lines : boms[b].lines[k] \in Line(c) /\ boms[b].lines[k].quantity \in Int
  <2>1. b \in c.boms /\ boms[b] \in Bom(c)
    BY <1>2 DEF PlanInv, PlanTypes, Filled
  <2>2. boms[b].lines \in BomLines(c)
    BY <2>1 DEF Bom
  <2>3. PICK n \in 0..c.lines : boms[b].lines \in [1..n -> Line(c)]
    BY <2>2 DEF BomLines
  <2>4. DOMAIN boms[b].lines = 1..n /\ IsFiniteSet(1..n) /\ 1..n \in SUBSET (1..c.lines)
    <3>1. n \in Nat /\ n <= c.lines
      BY <1>1
    <3>2. IsFiniteSet(1..n)
      BY <3>1, FS_Interval
    <3>3. 1..n \in SUBSET (1..c.lines)
      BY <1>1, <3>1
    <3> QED
      BY <2>3, <3>2, <3>3
  <2>5. \A k \in 1..n : boms[b].lines[k] \in Line(c) /\ boms[b].lines[k].quantity \in Int
    BY <1>1, <2>3 DEF Line
  <2> QED
    BY <2>1, <2>2, <2>4, <2>5
<1> QED
  BY <1>1, <1>3, <1>4, <1>5, <1>6

Coming(c, i) == {p \in Plan(c)!Rows(purchases) : Plan(c)!OpenPurchase(p) /\ purchases[p].item = i}

\* What is in transit is the sum over the open lines for the item.
LEMMA PlanTransit ==
    ASSUME NEW CONSTANT c, Planned(c), PlanInv(c), NEW i, NEW f,
           \A l \in Coming(c, i) : f[l] = purchases[l].quantity - purchases[l].received
    PROVE  /\ IsFiniteSet(Coming(c, i)) /\ \A l \in Coming(c, i) : f[l] \in Nat
           /\ Plan(c)!InTransit(i) = SumFunctionOnSet(f, Coming(c, i)) /\ Plan(c)!InTransit(i) \in Nat
<1>1. IsFiniteSet(Coming(c, i)) /\ Coming(c, i) \in SUBSET Plan(c)!Rows(purchases)
  BY PlanReads, FS_Subset DEF Coming
<1>2. \A l \in Coming(c, i) : f[l] \in Nat
  BY <1>1, PlanReads DEF Coming, Plan!OpenPurchase
<1>3. PICK g : g = [l \in Coming(c, i) |-> purchases[l].quantity - purchases[l].received]
  OBVIOUS
<1>4. Plan(c)!InTransit(i) = SumFunctionOnSet(g, Coming(c, i))
  BY <1>3, PlanSums DEF Plan!InTransit, Coming
<1>5. \A l \in Coming(c, i) : f[l] \in Int /\ g[l] = f[l]
  BY <1>2, <1>3
<1>6. SumFunctionOnSet(f, Coming(c, i)) = SumFunctionOnSet(g, Coming(c, i))
  BY <1>1, <1>5, SumCongruent
<1>7. SumFunctionOnSet(f, Coming(c, i)) \in Nat
  BY <1>1, <1>2, SumNat
<1> QED
  BY <1>1, <1>2, <1>4, <1>6, <1>7

\* What an open line asks of a BOM line.
Demanded(x) == sales[x[1][1]].quantity * boms[x[1][2]].lines[x[2]].quantity

\* Gross demand is the sum over the joined lines for the item.
LEMMA PlanDemand ==
    ASSUME NEW CONSTANT c, Planned(c), PlanInv(c), NEW i, NEW f,
           \A x \in Plan(c)!Needs(i) : f[x] = Demanded(x)
    PROVE  /\ IsFiniteSet(Plan(c)!Needs(i)) /\ \A x \in Plan(c)!Needs(i) : f[x] \in Int
           /\ Plan(c)!GrossDemand(i) = SumFunctionOnSet(f, Plan(c)!Needs(i)) /\ Plan(c)!GrossDemand(i) \in Int
<1> DEFINE N == Plan(c)!Needs(i)
<1>1. IsFiniteSet(N)
  <2>1. IsFiniteSet(Plan(c)!Rows(sales) \X Plan(c)!Rows(boms))
    BY PlanReads, FS_Product
  <2>2. IsFiniteSet(Plan(c)!Exploded)
    BY <2>1, FS_Subset DEF Plan!Exploded
  <2>3. IsFiniteSet(1..c.lines)
    BY PlanReads, FS_Interval
  <2>4. IsFiniteSet(Plan(c)!Exploded \X (1..c.lines))
    BY <2>2, <2>3, FS_Product
  <2> QED
    BY <2>4, FS_Subset DEF Plan!Needs
<1>2. ASSUME NEW x \in N PROVE f[x] \in Int
  <2>1. /\ x[1][1] \in Plan(c)!Rows(sales) /\ x[1][2] \in Plan(c)!Rows(boms)
        /\ x[2] \in DOMAIN boms[x[1][2]].lines
    BY DEF Plan!Needs, Plan!Exploded
  <2>2. sales[x[1][1]].quantity \in Int /\ boms[x[1][2]].lines[x[2]].quantity \in Int
    BY <2>1, PlanReads
  <2>3. \A u, v \in Int : u * v \in Int
    OBVIOUS
  <2> QED
    BY <2>2, <2>3 DEF Demanded
<1>3. PICK g : g = [x \in N |-> sales[x[1][1]].quantity * boms[x[1][2]].lines[x[2]].quantity]
  OBVIOUS
<1>4. Plan(c)!GrossDemand(i) = SumFunctionOnSet(g, N)
  BY <1>3, PlanSums DEF Plan!GrossDemand
<1>5. \A x \in N : f[x] \in Int /\ g[x] = f[x]
  BY <1>2, <1>3 DEF Demanded
<1> HIDE DEF N
<1>6. SumFunctionOnSet(f, N) = SumFunctionOnSet(g, N)
  BY <1>1, <1>5, SumCongruent
<1>7. SumFunctionOnSet(f, N) \in Int
  BY <1>1, <1>2, SumInt
<1> QED
  BY <1>1, <1>2, <1>4, <1>6, <1>7 DEF N

\* The figures of an item.
LEMMA PlanFigures ==
    ASSUME NEW CONSTANT c, Planned(c), PlanInv(c), NEW i \in c.items
    PROVE  /\ Plan(c)!InTransit(i) \in Nat /\ Plan(c)!GrossDemand(i) \in Int /\ stock[i] \in Int
           /\ c.safety[i] \in Int /\ c.reorder[i] \in Int
           /\ Plan(c)!NetDemand(i) \in Nat
           /\ Plan(c)!NetDemand(i) >= Plan(c)!GrossDemand(i) - stock[i] - Plan(c)!InTransit(i)
           /\ i \notin Plan(c)!MrpItems => Plan(c)!GrossDemand(i) = 0
<1>1. PICK f : f = [l \in Coming(c, i) |-> purchases[l].quantity - purchases[l].received]
  OBVIOUS
<1>2. Plan(c)!InTransit(i) \in Nat
  <2>1. \A l \in Coming(c, i) : f[l] = purchases[l].quantity - purchases[l].received
    BY <1>1
  <2> QED
    BY <2>1, PlanTransit
<1>3. PICK g : g = [x \in Plan(c)!Needs(i) |-> Demanded(x)]
  OBVIOUS
<1>4. Plan(c)!GrossDemand(i) = SumFunctionOnSet(g, Plan(c)!Needs(i)) /\ Plan(c)!GrossDemand(i) \in Int
  BY <1>3, PlanDemand
<1>5. i \notin Plan(c)!MrpItems => Plan(c)!GrossDemand(i) = 0
  <2>1. SUFFICES ASSUME i \notin Plan(c)!MrpItems PROVE Plan(c)!GrossDemand(i) = 0
    OBVIOUS
  <2>2. Plan(c)!Needs(i) = {}
    BY <2>1 DEF Plan!MrpItems
  <2>3. SumFunctionOnSet(g, {}) = 0
    BY SumEmpty
  <2> QED
    BY <1>4, <2>2, <2>3
<1>6. stock[i] \in Int /\ c.safety[i] \in Int /\ c.reorder[i] \in Int
  BY DEF PlanInv, PlanTypes, Planned, Plan!PlanningAssumption
<1>7. PICK n : n = Plan(c)!GrossDemand(i) - stock[i] - Plan(c)!InTransit(i)
  OBVIOUS
<1>8. n \in Int /\ Plan(c)!NetDemand(i) = Asked(n)
  BY <1>2, <1>4, <1>6, <1>7, PlanSums DEF Plan!NetDemand
<1> QED
  BY <1>2, <1>4, <1>5, <1>6, <1>7, <1>8 DEF Asked

\* What MRP suggests covers the demand, and no other list asks for more.
LEMMA PlanCovered == ASSUME NEW CONSTANT c, Planned(c), PlanInv(c) PROVE Plan(c)!MrpCovers
<1> SUFFICES ASSUME NEW i \in c.items
             PROVE  LET mrp == IF i \in DOMAIN Plan(c)!MrpCalculate THEN Plan(c)!MrpCalculate[i].suggested ELSE 0 IN
                    /\ stock[i] + Plan(c)!InTransit(i) + mrp >= Plan(c)!GrossDemand(i) + c.safety[i]
                    /\ Plan(c)!GrossDemand(i) >= 0 \/ stock[i] + Plan(c)!InTransit(i) >= 0 =>
                         /\ i \in DOMAIN Plan(c)!PurchaseSuggestions => Plan(c)!PurchaseSuggestions[i] <= mrp
                         /\ i \in DOMAIN Plan(c)!ReorderAlerts /\ c.reorder[i] <= c.safety[i]
                              /\ Plan(c)!InTransit(i) = 0
                              => Plan(c)!ReorderAlerts[i] <= mrp
  BY DEF Plan!MrpCovers
<1>1. PICK T, G, n : T = Plan(c)!InTransit(i) /\ G = Plan(c)!GrossDemand(i) /\ n = Plan(c)!NetDemand(i)
  OBVIOUS
<1>2. /\ T \in Nat /\ G \in Int /\ stock[i] \in Int /\ c.safety[i] \in Int /\ c.reorder[i] \in Int
      /\ n \in Nat /\ n >= G - stock[i] - T
      /\ i \notin Plan(c)!MrpItems => G = 0
  BY <1>1, PlanFigures
<1>3. PICK mrp : mrp = IF i \in DOMAIN Plan(c)!MrpCalculate THEN Plan(c)!MrpCalculate[i].suggested ELSE 0
  OBVIOUS
<1>4. mrp = IF i \in Plan(c)!MrpItems THEN n + c.safety[i] ELSE 0
  BY <1>1, <1>3 DEF Plan!MrpCalculate, Plan!Suggested
<1>5. i \notin Plan(c)!MrpItems => c.safety[i] <= stock[i] + T
  BY <1>1, <1>2 DEF Plan!MrpItems
<1>6. stock[i] + T + mrp >= G + c.safety[i]
  BY <1>2, <1>4, <1>5
<1>7. ASSUME G >= 0 \/ stock[i] + T >= 0, i \in DOMAIN Plan(c)!PurchaseSuggestions PROVE Plan(c)!PurchaseSuggestions[i] <= mrp
  <2>1. /\ Plan(c)!PurchaseSuggestions[i] = c.safety[i] - stock[i] - T
        /\ c.safety[i] - stock[i] - T > 0
    BY <1>1, <1>7 DEF Plan!PurchaseSuggestions, Plan!StockAndTransit
  <2> QED
    BY <1>2, <1>4, <1>5, <1>7, <2>1
<1>8. ASSUME G >= 0 \/ stock[i] + T >= 0, i \in DOMAIN Plan(c)!ReorderAlerts, c.reorder[i] <= c.safety[i], T = 0
      PROVE  Plan(c)!ReorderAlerts[i] <= mrp
  <2>1. Plan(c)!ReorderAlerts[i] = c.reorder[i] - stock[i] /\ stock[i] < c.reorder[i]
    BY <1>8 DEF Plan!ReorderAlerts, Plan!StockAndTransit
  <2> QED
    BY <1>2, <1>4, <1>5, <1>8, <2>1
<1> QED
  BY <1>1, <1>3, <1>6, <1>7, <1>8

\* Type correctness of the tables and the plans.
LEMMA PlanTypeOK == ASSUME NEW CONSTANT c, Planned(c), PlanInv(c) PROVE Plan(c)!TypeOK
<1>1. \A b \in Plan(c)!Rows(boms) : Plan(c)!BomSnapshot(boms[b]) \in
        [item : c.items, status : {Plan(c)!Draft, Plan(c)!Released}]
  BY PlanReads DEF Bom, Plan!BomSnapshot, Plan!Draft, Plan!Released
<1>2. \A l \in Plan(c)!Rows(purchases) :
        purchases[l].received \in Int /\ purchases[l].received <= Plan(c)!Max({0, purchases[l].quantity})
  BY PlanReads, PlanSums
<1>5. \A l \in Plan(c)!Rows(sales) :
        sales[l].delivered \in Int /\ sales[l].delivered <= Plan(c)!Max({0, sales[l].quantity})
  <2>1. ASSUME NEW l \in Plan(c)!Rows(sales)
        PROVE  sales[l].delivered \in Int /\ sales[l].delivered <= Asked(sales[l].quantity)
    BY PlanReads DEF Sale, Plan!Rows, Plan!Absent, Gone, PlanInv, PlanTypes
  <2> QED
    BY <2>1, PlanReads, PlanSums
<1>3. stock \in [c.items -> Int]
  BY DEF PlanInv, PlanTypes
<1>4. ASSUME NEW i \in DOMAIN Plan(c)!MrpCalculate
      PROVE  Plan(c)!MrpCalculate[i].net \in Nat /\ Plan(c)!MrpCalculate[i].suggested \in Int
  <2>1. i \in c.items /\ Plan(c)!MrpCalculate[i].net = Plan(c)!NetDemand(i)
        /\ Plan(c)!MrpCalculate[i].suggested = Plan(c)!NetDemand(i) + c.safety[i]
    BY DEF Plan!MrpCalculate, Plan!MrpItems, Plan!Suggested
  <2> QED
    BY <2>1, PlanFigures
<1> QED
  BY <1>1, <1>2, <1>3, <1>4, <1>5 DEF Plan!TypeOK

\* The records of a BOM show it as it is.
LEMMA PlanHistory == ASSUME NEW CONSTANT c, PlanInv(c) PROVE Plan(c)!BomHistory
<1> USE DEF Plan!Absent, Gone
<1>1. ASSUME NEW b \in Plan(c)!Rows(boms)
      PROVE  Plan(c)!Chained(trail[b]) /\ Plan(c)!UpToDate(trail[b], Plan(c)!BomSnapshot(boms[b]))
  <2>1. b \in c.boms /\ boms[b] # Gone
    BY DEF Plan!Rows, PlanInv, PlanTypes, Filled
  <2>2. Tells(trail[b], AsBom(boms[b]))
    BY <2>1 DEF PlanInv, PlanTrails
  <2>3. Plan(c)!BomSnapshot(boms[b]) = AsBom(boms[b])
    BY DEF Plan!BomSnapshot, AsBom
  <2> QED
    BY <2>2, <2>3 DEF Tells, Plan!Chained, Plan!UpToDate
<1> QED
  BY <1>1 DEF Plan!BomHistory

\* A receipt of the ordered item moves its quantity from transit to stock.
LEMMA PlanReceived ==
    ASSUME NEW CONSTANT c, Planned(c), PlanInv(c), PlanInv(c)',
           NEW l \in c.purchases, l \in Plan(c)!Rows(purchases),
           purchases[l].received <= purchases[l].quantity, Plan(c)!Receive(l, purchases[l].item)
    PROVE  LET i == purchases[l].item IN
           /\ stock'[i] + Plan(c)!InTransit(i)' = stock[i] + Plan(c)!InTransit(i)
           /\ Plan(c)!NetDemand(i)' = Plan(c)!NetDemand(i)
           /\ i \in Plan(c)!MrpItems' <=> i \in Plan(c)!MrpItems
<1>1. PICK i : i = purchases[l].item
  OBVIOUS
<1>2. i \in c.items /\ purchases[l] \in Buying(c) /\ c.quantities \in SUBSET Int
      /\ purchases[l].quantity \in Int /\ purchases[l].received \in Int
  BY <1>1, PlanReads DEF Buying
<1>3. PICK n \in c.quantities : /\ purchases[l].approved /\ purchases[l].received + n <= purchases[l].quantity
                                /\ purchases' = [purchases EXCEPT ![l].received = @ + n]
                                /\ stock' = [stock EXCEPT ![i] = @ + n]
                                /\ UNCHANGED <<boms, molds, trail, txn, sales, active>>
  BY <1>1 DEF Plan!Receive
<1>4. n \in Int
  BY <1>2
<1>5. PICK D, E : D = Coming(c, i) /\ E = Coming(c, i)'
  OBVIOUS
<1>6. PICK f, g : /\ f = [p \in D |-> purchases[p].quantity - purchases[p].received]
                  /\ g = [p \in E |-> purchases'[p].quantity - purchases'[p].received]
  OBVIOUS
<1>7. /\ IsFiniteSet(D) /\ (\A p \in D : f[p] \in Nat)
      /\ Plan(c)!InTransit(i) = SumFunctionOnSet(f, D)
  <2>1. \A p \in Coming(c, i) : f[p] = purchases[p].quantity - purchases[p].received
    BY <1>5, <1>6
  <2> QED
    BY <1>5, <2>1, PlanTransit
<1>8. Plan(c)!InTransit(i)' = SumFunctionOnSet(g, E)
  <2>1. Plan(c)!InTransit(i)' = Plan(c)!Total(g)
    BY <1>5, <1>6 DEF Plan!InTransit, Coming
  <2>2. DOMAIN g = E
    BY <1>6
  <2> QED
    BY <2>1, <2>2, PlanSums
<1>9. \A p \in c.purchases : purchases'[p] = IF p = l THEN [purchases[l] EXCEPT !.received = @ + n] ELSE purchases[p]
  BY <1>3 DEF PlanInv, PlanTypes, Filled
<1>10. Plan(c)!Rows(purchases)' = Plan(c)!Rows(purchases) /\ \A p \in Plan(c)!Rows(purchases) : p \in c.purchases
  <2>1. purchases'[l] \in Buying(c)
    BY <1>2, <1>4, <1>9 DEF Buying
  <2>2. purchases'[l] # Gone /\ purchases[l] # Gone
    BY <1>2, <2>1, PlanShapes
  <2> QED
    BY <1>9, <2>2 DEF Plan!Rows, Plan!Absent, Gone, PlanInv, PlanTypes, Filled
<1>11. /\ purchases'[l].quantity = purchases[l].quantity /\ purchases'[l].received = purchases[l].received + n
       /\ purchases'[l].item = i /\ purchases'[l].approved
  BY <1>1, <1>2, <1>3, <1>9 DEF Buying
<1>12. PICK R, x, y : /\ R = D \ {l} /\ x = purchases[l].quantity - purchases[l].received /\ y = x - n
  OBVIOUS
<1>13. x \in Nat /\ y \in Nat
  BY <1>2, <1>3, <1>4, <1>12
<1>14. R = E \ {l} /\ \A p \in R : g[p] = f[p]
  BY <1>5, <1>6, <1>9, <1>10, <1>12 DEF Coming, Plan!OpenPurchase
<1>15. IsFiniteSet(R) /\ SumFunctionOnSet(f, R) \in Int /\ SumFunctionOnSet(f, R) = SumFunctionOnSet(g, R)
       /\ (\A p \in R : g[p] \in Int)
  <2>1. IsFiniteSet(R) /\ \A p \in R : f[p] \in Int /\ g[p] = f[p]
    BY <1>7, <1>12, <1>14, FS_Subset
  <2> QED
    BY <2>1, SumCongruent, SumInt
<1>16. SumFunctionOnSet(f, D) = x + SumFunctionOnSet(f, R)
  <2>1. CASE l \in D
    <3>1. f[l] = x /\ \A p \in D : f[p] \in Int
      BY <1>6, <1>7, <1>12, <2>1
    <3>2. SumFunctionOnSet(f, D) = f[l] + SumFunctionOnSet(f, D \ {l})
      BY <1>7, <2>1, <3>1, SumRemove
    <3> QED
      BY <1>12, <3>1, <3>2
  <2>2. CASE l \notin D
    <3>1. R = D
      BY <1>12, <2>2
    <3>2. ~(purchases[l].quantity > purchases[l].received)
      BY <1>1, <1>3, <1>5, <2>2 DEF Coming, Plan!OpenPurchase
    <3>3. x = 0
      BY <1>2, <1>12, <1>13, <3>2
    <3> QED
      BY <1>15, <3>1, <3>3
  <2> QED
    BY <2>1, <2>2
<1>17. SumFunctionOnSet(g, E) = y + SumFunctionOnSet(g, R)
  <2>1. CASE l \in E
    <3>1. g[l] = y
      BY <1>2, <1>4, <1>6, <1>11, <1>12, <2>1
    <3>2. E = R \cup {l} /\ l \notin R
      BY <1>12, <1>14, <2>1
    <3>3. IsFiniteSet(E) /\ \A p \in E : g[p] \in Int
      BY <1>13, <1>15, <3>1, <3>2, FS_AddElement
    <3>4. SumFunctionOnSet(g, E) = g[l] + SumFunctionOnSet(g, E \ {l})
      BY <2>1, <3>3, SumRemove
    <3> QED
      BY <1>14, <3>1, <3>4
  <2>2. CASE l \notin E
    <3>1. R = E
      BY <1>14, <2>2
    <3>2. ~(purchases'[l].quantity > purchases'[l].received)
      BY <1>5, <1>10, <1>11, <2>2 DEF Coming, Plan!OpenPurchase
    <3>3. y = 0
      BY <1>2, <1>4, <1>11, <1>12, <1>13, <3>2
    <3> QED
      BY <1>15, <3>1, <3>3
  <2> QED
    BY <2>1, <2>2
<1>26. stock[i] \in Int /\ stock'[i] = stock[i] + n
  BY <1>2, <1>3 DEF PlanInv, PlanTypes
<1>18. PICK T, T1 : T = Plan(c)!InTransit(i) /\ T1 = Plan(c)!InTransit(i)'
  OBVIOUS
<1>19. T \in Int /\ T1 = T - n /\ stock'[i] + T1 = stock[i] + T
  BY <1>4, <1>7, <1>8, <1>12, <1>13, <1>15, <1>16, <1>17, <1>18, <1>26
<1>20. Plan(c)!Needs(i)' = Plan(c)!Needs(i) /\ Plan(c)!GrossDemand(i)' = Plan(c)!GrossDemand(i)
  BY <1>3, PlanSums DEF Plan!Needs, Plan!Exploded, Plan!Rows, Plan!GrossDemand
<1>21. Plan(c)!GrossDemand(i) \in Int /\ c.safety[i] \in Int
  BY <1>2, PlanFigures
<1>22. Plan(c)!GrossDemand(i) - stock'[i] - T1 = Plan(c)!GrossDemand(i) - stock[i] - T
  BY <1>4, <1>19, <1>21, <1>26
<1>23. Plan(c)!NetDemand(i)' = Plan(c)!NetDemand(i)
  BY <1>18, <1>20, <1>22 DEF Plan!NetDemand
<1>24. c.safety[i] > stock'[i] + T1 <=> c.safety[i] > stock[i] + T
  BY <1>19
<1>25. i \in Plan(c)!MrpItems' <=> i \in Plan(c)!MrpItems
  BY <1>18, <1>20, <1>24 DEF Plan!MrpItems
<1> QED
  <2>1. /\ stock'[i] + Plan(c)!InTransit(i)' = stock[i] + Plan(c)!InTransit(i)
        /\ Plan(c)!NetDemand(i)' = Plan(c)!NetDemand(i)
        /\ i \in Plan(c)!MrpItems' <=> i \in Plan(c)!MrpItems
    BY <1>18, <1>19, <1>23, <1>25
  <2>2. purchases'[l].item = purchases[l].item
    BY <1>1, <1>11
  <2> QED
    BY <1>1, <2>1, <2>2

\* Creating a draft changes no demand.
LEMMA PlanDrafted ==
    ASSUME NEW CONSTANT c, Planned(c), PlanInv(c), NEW b \in c.boms, Plan(c)!CreateBom(b), NEW i
    PROVE  Plan(c)!GrossDemand(i)' = Plan(c)!GrossDemand(i) /\ boms'[b].status = 0
           /\ \A d \in c.boms \ {b} : boms'[d] = boms[d]
<1> USE DEF Plan!Absent, Gone
<1>1. PICK item \in c.items, ls \in BomLines(c) :
        boms' = [boms EXCEPT ![b] = [item |-> item, status |-> 0, lines |-> ls]]
  BY DEF Plan!CreateBom, Plan!Draft, BomLines, Line
<1>2. boms[b] = Gone /\ sales' = sales
  BY DEF Plan!CreateBom, Plan!world
<1>3. boms'[b].status = 0 /\ (\A d \in c.boms \ {b} : boms'[d] = boms[d]) /\ DOMAIN boms = c.boms /\ DOMAIN boms' = c.boms
  BY <1>1 DEF PlanInv, PlanTypes, Filled
<1>4. Plan(c)!Exploded' = Plan(c)!Exploded /\ \A x \in Plan(c)!Exploded : x[2] \in c.boms \ {b}
  BY <1>2, <1>3 DEF Plan!Exploded, Plan!Rows, Plan!Released
<1>5. Plan(c)!Needs(i)' = Plan(c)!Needs(i) /\ \A x \in Plan(c)!Needs(i) : boms'[x[1][2]] = boms[x[1][2]]
  BY <1>3, <1>4 DEF Plan!Needs
<1>6. PICK f, g : f = [x \in Plan(c)!Needs(i) |-> sales[x[1][1]].quantity * boms[x[1][2]].lines[x[2]].quantity]
                  /\ g = [x \in Plan(c)!Needs(i)' |-> sales'[x[1][1]].quantity * boms'[x[1][2]].lines[x[2]].quantity]
  OBVIOUS
<1>7. f = g
  BY <1>2, <1>5, <1>6
<1>8. Plan(c)!GrossDemand(i) = Plan(c)!Total(f) /\ Plan(c)!GrossDemand(i)' = Plan(c)!Total(g)
  BY <1>6 DEF Plan!GrossDemand
<1> QED
  BY <1>3, <1>7, <1>8, PlanSums

\* A release raises the demand of its materials by what the open sales ask.
LEMMA PlanRaised ==
    ASSUME NEW CONSTANT c, Planned(c), PlanInv(c), NEW w \in c.workers, Plan(c)!CommitRelease(w),
           NEW b \in c.boms, boms'[b] # boms[b], NEW i
    PROVE  boms'[b].status = 1 /\ Plan(c)!GrossDemand(i)' - Plan(c)!GrossDemand(i) = Plan(c)!Asked(b, i)'
<1> USE DEF Plan!Absent, Gone, Plan!Idle, Still
<1>1. /\ txn[w] # Still /\ txn[w].op = "release" /\ sales' = sales
      /\ boms' = [boms EXCEPT ![txn[w].ref].status = 1]
  BY DEF Plan!CommitRelease, Plan!world, Plan!Released
<1>2. b = txn[w].ref
  BY <1>1 DEF PlanInv, PlanTypes, Filled
<1>3. boms[b] # Gone /\ boms[b] \in Bom(c)
  BY <1>1, <1>2 DEF PlanInv, PlanTypes, Filled, PlanLocks
<1>4. boms'[b] = [boms[b] EXCEPT !.status = 1]
  BY <1>1, <1>2 DEF PlanInv, PlanTypes, Filled
<1>5. /\ boms'[b].item = boms[b].item /\ boms'[b].lines = boms[b].lines /\ boms'[b].status = 1
      /\ boms[b].status # 1 /\ boms'[b] # Gone
  <2>1. boms[b].status # 1
    BY <1>3, <1>4 DEF Bom
  <2>2. boms'[b] \in Bom(c)
    BY <1>3, <1>4 DEF Bom
  <2> QED
    BY <1>3, <1>4, <2>1, <2>2, PlanShapes DEF Bom
<1>6. \A d \in c.boms \ {b} : boms'[d] = boms[d]
  BY <1>1, <1>2 DEF PlanInv, PlanTypes, Filled
<1>7. Plan(c)!Rows(boms)' = Plan(c)!Rows(boms) /\ b \in Plan(c)!Rows(boms) /\ Plan(c)!Rows(boms) \in SUBSET c.boms
  BY <1>1, <1>3, <1>5, <1>6 DEF Plan!Rows, PlanInv, PlanTypes, Filled
<1>8. \A d \in Plan(c)!Rows(boms) :
        /\ boms'[d].item = boms[d].item /\ boms'[d].lines = boms[d].lines
        /\ d # b => boms'[d].status = boms[d].status
  BY <1>5, <1>6, <1>7
<1>9. PICK S, T : /\ S = {l \in Plan(c)!Rows(sales) : ~sales[l].closed /\ sales[l].item = boms[b].item}
                  /\ T = {k \in DOMAIN boms[b].lines : boms[b].lines[k].item = i}
  OBVIOUS
<1>10. PICK N, M, P : /\ N = Plan(c)!Needs(i) /\ M = Plan(c)!Needs(i)'
                      /\ P = {<<<<p[1], b>>, p[2]>> : p \in S \X T}
  OBVIOUS
<1>11. PICK f : f = [x \in M |-> sales'[x[1][1]].quantity * boms'[x[1][2]].lines[x[2]].quantity]
  OBVIOUS
<1>12. Plan(c)!GrossDemand(i)' = SumFunctionOnSet(f, M)
  <2>1. Plan(c)!GrossDemand(i)' = Plan(c)!Total(f)
    BY <1>10, <1>11 DEF Plan!GrossDemand
  <2>2. DOMAIN f = M
    BY <1>11
  <2> QED
    BY <2>1, <2>2, PlanSums
<1>13. /\ S \in SUBSET Plan(c)!Rows(sales) /\ IsFiniteSet(S) /\ \A l \in S : sales[l].quantity \in Int
       /\ IsFiniteSet(T) /\ T \in SUBSET (1..c.lines) /\ \A k \in T : boms[b].lines[k].quantity \in Int
  <2>1. IsFiniteSet(S) /\ S \in SUBSET Plan(c)!Rows(sales) /\ \A l \in S : sales[l].quantity \in Int
    BY <1>9, PlanReads, FS_Subset
  <2>2. /\ IsFiniteSet(DOMAIN boms[b].lines) /\ DOMAIN boms[b].lines \in SUBSET (1..c.lines)
        /\ \A k \in DOMAIN boms[b].lines : boms[b].lines[k].quantity \in Int
    BY <1>7, PlanReads
  <2>3. T \in SUBSET DOMAIN boms[b].lines
    BY <1>9
  <2>4. IsFiniteSet(T)
    BY <2>2, <2>3, FS_Subset
  <2> QED
    BY <2>1, <2>2, <2>3, <2>4
<1>14. \A x \in Plan(c)!Exploded' : x \in Plan(c)!Exploded \/ (x[2] = b /\ x = <<x[1], b>> /\ x[1] \in S)
  BY <1>1, <1>7, <1>8, <1>9 DEF Plan!Exploded, Plan!Rows
<1>15. \A x \in Plan(c)!Exploded : x \in Plan(c)!Exploded' /\ x[2] \in Plan(c)!Rows(boms) /\ x[2] # b
  BY <1>1, <1>5, <1>7, <1>8 DEF Plan!Exploded, Plan!Rows, Plan!Released
<1>16. \A l \in S : <<l, b>> \in Plan(c)!Exploded'
  BY <1>1, <1>5, <1>7, <1>9, <1>13 DEF Plan!Exploded, Plan!Rows, Plan!Released
<1>17. N \in SUBSET M /\ \A x \in N : x[1][2] # b /\ boms'[x[1][2]].lines = boms[x[1][2]].lines
  BY <1>8, <1>10, <1>15 DEF Plan!Needs
<1>18. P \in SUBSET M
  <2>1. ASSUME NEW l \in S, NEW k \in T PROVE <<<<l, b>>, k>> \in M
    <3>1. <<l, b>> \in Plan(c)!Exploded' /\ k \in 1..c.lines
      BY <1>13, <1>16
    <3>2. k \in DOMAIN boms'[b].lines /\ boms'[b].lines[k].item = i
      BY <1>5, <1>9
    <3> QED
      BY <1>10, <3>1, <3>2 DEF Plan!Needs
  <2> QED
    BY <1>10, <2>1
<1>19. M = N \cup P /\ N \cap P = {}
  <2>1. ASSUME NEW x \in M, x \notin N PROVE x \in P
    <3>1. /\ x[1] \in Plan(c)!Exploded' /\ x = <<x[1], x[2]>> /\ x[2] \in 1..c.lines
          /\ x[2] \in DOMAIN boms'[x[1][2]].lines /\ boms'[x[1][2]].lines[x[2]].item = i
      BY <1>10, <2>1 DEF Plan!Needs
    <3>2. x[1] \notin Plan(c)!Exploded
      <4>1. ASSUME x[1] \in Plan(c)!Exploded PROVE FALSE
        <5>1. boms'[x[1][2]].lines = boms[x[1][2]].lines
          BY <1>8, <1>15, <4>1
        <5>2. x \in Plan(c)!Needs(i)
          BY <3>1, <4>1, <5>1 DEF Plan!Needs
        <5> QED
          BY <1>10, <2>1, <5>2
      <4> QED
        BY <4>1
    <3>3. x[1][2] = b /\ x[1] = <<x[1][1], b>> /\ x[1][1] \in S
      BY <1>14, <3>1, <3>2
    <3>4. x[2] \in T
      BY <1>5, <1>9, <3>1, <3>3
    <3>5. <<x[1][1], x[2]>> \in S \X T /\ x = <<<<x[1][1], b>>, x[2]>>
      BY <3>1, <3>3, <3>4
    <3> QED
      BY <1>10, <3>5
  <2>2. \A x \in P : x[1][2] = b
    BY <1>10
  <2> QED
    BY <1>17, <1>18, <2>1, <2>2
<1>20. PICK v, g : v = [l \in S |-> sales[l].quantity] /\ g = [k \in T |-> boms[b].lines[k].quantity]
  OBVIOUS
<1>21. SumFunctionOnSet(f, P) = SumFunctionOnSet(g, T) * SumFunctionOnSet(v, S)
  <2>1. (\A l \in S : v[l] \in Int) /\ (\A k \in T : g[k] \in Int)
    BY <1>13, <1>20
  <2>2. ASSUME NEW l \in S, NEW k \in T PROVE f[<<<<l, b>>, k>>] = v[l] * g[k]
    <3>1. <<l, k>> \in S \X T
      OBVIOUS
    <3>2. PICK x : x = <<<<l, b>>, k>>
      OBVIOUS
    <3>3. x \in M /\ x[1][1] = l /\ x[1][2] = b /\ x[2] = k
      BY <1>10, <1>18, <3>1, <3>2
    <3>4. f[x] = sales[l].quantity * boms'[b].lines[k].quantity
      BY <1>1, <1>11, <3>3
    <3> QED
      BY <1>5, <1>20, <3>2, <3>4
  <2>3. Multiplies(S, T, b, f, v, g)
    BY <2>1, <2>2 DEF Multiplies
  <2>4. P = Pairs(S, T, b)
    BY <1>10 DEF Pairs
  <2>5. IsFiniteSet(S) /\ IsFiniteSet(T)
    BY <1>13
  <2> QED
    BY <2>1, <2>3, <2>4, <2>5, SumPaired
<1>22. /\ IsFiniteSet(N) /\ (\A x \in N : f[x] \in Int)
       /\ Plan(c)!GrossDemand(i) = SumFunctionOnSet(f, N) /\ Plan(c)!GrossDemand(i) \in Int
  <2>1. \A x \in Plan(c)!Needs(i) : f[x] = Demanded(x)
    BY <1>1, <1>10, <1>11, <1>17 DEF Demanded
  <2> QED
    BY <1>10, <2>1, PlanDemand
<1>23. IsFiniteSet(P) /\ \A x \in P : f[x] \in Int
  <2>1. IsFiniteSet(S \X T)
    BY <1>13, FS_Product
  <2>2. PICK m : m = [p \in S \X T |-> <<<<p[1], b>>, p[2]>>]
    OBVIOUS
  <2>3. m \in Surjection(S \X T, P)
    BY <1>10, <2>2 DEF Surjection
  <2>4. IsFiniteSet(P)
    BY <2>1, <2>3, FS_Surjection
  <2>5. ASSUME NEW x \in P PROVE f[x] \in Int
    <3>1. x \in M /\ x[1][1] \in S /\ x[1][2] = b /\ x[2] \in T
      BY <1>10, <1>18
    <3>2. f[x] = sales[x[1][1]].quantity * boms[b].lines[x[2]].quantity
      BY <1>1, <1>5, <1>11, <3>1
    <3>3. \A a1, a2 \in Int : a1 * a2 \in Int
      OBVIOUS
    <3> QED
      BY <1>13, <3>1, <3>2, <3>3
  <2> QED
    BY <2>4, <2>5
<1>24. SumFunctionOnSet(f, M) = SumFunctionOnSet(f, N) + SumFunctionOnSet(f, P)
  <2>1. \A x \in N \cup P : f[x] \in Int
    BY <1>22, <1>23
  <2>2. SumFunctionOnSet(f, N \cup P) = SumFunctionOnSet(f, N) + SumFunctionOnSet(f, P)
    BY <1>19, <1>22, <1>23, <2>1, SumJoined
  <2> QED
    BY <1>19, <2>2
<1>25. Plan(c)!Asked(b, i)' = SumFunctionOnSet(g, T) * SumFunctionOnSet(v, S)
  <2>1. Plan(c)!OpenSales(boms[b].item)' = S /\ Plan(c)!LinesFor(b, i)' = T
    BY <1>1, <1>5, <1>9 DEF Plan!OpenSales, Plan!LinesFor, Plan!Rows
  <2>4. g = [k \in Plan(c)!LinesFor(b, i)' |-> boms'[b].lines[k].quantity]
    BY <1>5, <1>20, <2>1
  <2>5. v = [l \in Plan(c)!OpenSales(boms[b].item)' |-> sales'[l].quantity]
    BY <1>1, <1>20, <2>1
  <2>2. Plan(c)!Asked(b, i)' = Plan(c)!Total(g) * Plan(c)!Total(v)
    BY <2>4, <2>5 DEF Plan!Asked
  <2>3. DOMAIN g = T /\ DOMAIN v = S
    BY <1>20
  <2> QED
    BY <2>2, <2>3, PlanSums
<1>26. SumFunctionOnSet(f, P) \in Int
  BY <1>23, SumInt
<1> QED
  BY <1>5, <1>12, <1>21, <1>22, <1>24, <1>25, <1>26

\* What a step may do to the figures.
LEMMA PlanActs ==
    ASSUME NEW CONSTANT c, Planned(c), PlanInv(c), PlanInv(c)', [Plan(c)!Next]_(Plan(c)!vars)
    PROVE  Plan(c)!PlanKept /\ Plan(c)!DemandReleased
<1>1. Plan(c)!PlanKept
  BY PlanReceived DEF Plan!PlanKept
<1>2. ASSUME NEW b \in c.boms, boms'[b] # boms[b], NEW i \in c.items
      PROVE  Plan(c)!GrossDemand(i)' - Plan(c)!GrossDemand(i)
               = IF boms'[b].status = Plan(c)!Released THEN Plan(c)!Asked(b, i)' ELSE 0
  <2>1. CASE \E d \in c.boms : Plan(c)!CreateBom(d)
    <3>1. Plan(c)!CreateBom(b)
      BY <1>2, <2>1, PlanDrafted
    <3>2. Plan(c)!GrossDemand(i)' = Plan(c)!GrossDemand(i) /\ boms'[b].status = 0
      BY <3>1, PlanDrafted
    <3>3. Plan(c)!GrossDemand(i) \in Int
      BY PlanFigures
    <3> QED
      BY <3>2, <3>3 DEF Plan!Released
  <2>2. CASE \E w \in c.workers : Plan(c)!CommitRelease(w)
    BY <1>2, <2>2, PlanRaised DEF Plan!Released
  <2>3. CASE boms' = boms
    BY <1>2, <2>3
  <2> QED
    BY <2>1, <2>2, <2>3 DEF Plan!Next, Plan!vars, Plan!ReleaseLock, Plan!InsertMold, Plan!RecordMold,
       Plan!Abandon, Plan!Sell, Plan!Deliver, Plan!Order, Plan!Approve, Plan!Receive, Plan!SetActive, Plan!Read
<1> QED
  BY <1>1, <1>2 DEF Plan!DemandReleased

-----------------------------------------------------------------------------
(* The components side by side. *)

ManufacturingInv ==
    /\ part = "pick" => MakeInv(Picking)
    /\ part = "pick_lines" => MakeInv(PickingLines)
    /\ part = "report" => MakeInv(Reporting)
    /\ part = "inspect" => QualityInv
    /\ part = "mrp" => PlanInv(Reckoning)
    /\ part = "bom" => PlanInv(Releasing)

\* The instances of the harness satisfy the assumptions of their modules.
LEMMA Assumed ==
    /\ Made(Picking) /\ Made(PickingLines) /\ Made(Reporting)
    /\ Sampled /\ Planned(Reckoning) /\ Planned(Releasing)
BY ManufacturingAssumption DEF ManufacturingAssumption, Made, Sampled, Planned

\* The inductive invariant of production and quality: every total is the sum
\* of what was posted or reported, the requests that are open still fit the
\* rows that they locked, and a verdict has the results of one completion.
THEOREM ManufacturingInvariant == ManufacturingSpec => []ManufacturingInv
<1>1. ManufacturingInit => ManufacturingInv
  <2>1. SUFFICES ASSUME ManufacturingInit PROVE ManufacturingInv
    OBVIOUS
  <2>2. part \in {"pick", "pick_lines", "report", "inspect", "mrp", "bom"}
    BY <2>1 DEF ManufacturingInit
  <2>3. CASE part = "pick"
    BY <2>1, <2>3, Assumed, MakeInit DEF ManufacturingInit, ManufacturingInv
  <2>4. CASE part = "pick_lines"
    BY <2>1, <2>4, Assumed, MakeInit DEF ManufacturingInit, ManufacturingInv
  <2>5. CASE part = "report"
    BY <2>1, <2>5, Assumed, MakeInit DEF ManufacturingInit, ManufacturingInv
  <2>6. CASE part = "inspect"
    BY <2>1, <2>6, Assumed, QualityInit DEF ManufacturingInit, ManufacturingInv
  <2>7. CASE part = "mrp"
    BY <2>1, <2>7, Assumed, PlanInit DEF ManufacturingInit, ManufacturingInv
  <2>8. CASE part = "bom"
    BY <2>1, <2>8, Assumed, PlanInit DEF ManufacturingInit, ManufacturingInv
  <2> QED
    BY <2>2, <2>3, <2>4, <2>5, <2>6, <2>7, <2>8
<1>2. ManufacturingInv /\ [ManufacturingNext]_vAll => ManufacturingInv'
  <2>1. SUFFICES ASSUME ManufacturingInv, [ManufacturingNext]_vAll PROVE ManufacturingInv'
    OBVIOUS
  <2>2. part' = part
    BY <2>1 DEF ManufacturingNext, vAll
  <2>3. ASSUME NEW CONSTANT c, Make(c)!Next \/ UNCHANGED vAll PROVE [Make(c)!Next]_(Make(c)!vars)
    BY <2>3 DEF Make!vars, vAll, vProduction
  <2>4. ASSUME part = "pick" PROVE MakeInv(Picking)'
    <3>1. MakeInv(Picking) /\ (Make(Picking)!Next \/ UNCHANGED vAll)
      BY <2>1, <2>4 DEF ManufacturingInv, ManufacturingNext
    <3> QED
      BY <2>3, <3>1, Assumed, MakeStep
  <2>5. ASSUME part = "pick_lines" PROVE MakeInv(PickingLines)'
    <3>1. MakeInv(PickingLines) /\ (Make(PickingLines)!Next \/ UNCHANGED vAll)
      BY <2>1, <2>5 DEF ManufacturingInv, ManufacturingNext
    <3> QED
      BY <2>3, <3>1, Assumed, MakeStep
  <2>6. ASSUME part = "report" PROVE MakeInv(Reporting)'
    <3>1. MakeInv(Reporting) /\ (Make(Reporting)!Next \/ UNCHANGED vAll)
      BY <2>1, <2>6 DEF ManufacturingInv, ManufacturingNext
    <3> QED
      BY <2>3, <3>1, Assumed, MakeStep
  <2>7. ASSUME part = "inspect" PROVE QualityInv'
    <3>1. QualityInv /\ [Inspect!Next]_(Inspect!vars)
      BY <2>1, <2>7 DEF ManufacturingInv, ManufacturingNext, vAll, vQuality, Inspect!vars
    <3> QED
      BY <3>1, Assumed, InspectStep
  <2>8. ASSUME part = "mrp" PROVE PlanInv(Reckoning)'
    <3>1. PlanInv(Reckoning) /\ [Plan(Reckoning)!Next]_(Plan(Reckoning)!vars)
      BY <2>1, <2>8 DEF ManufacturingInv, ManufacturingNext, vAll, vPlanning, Plan!vars
    <3> QED
      BY <3>1, Assumed, PlanStep
  <2>9. ASSUME part = "bom" PROVE PlanInv(Releasing)'
    <3>1. PlanInv(Releasing) /\ [Plan(Releasing)!Next]_(Plan(Releasing)!vars)
      BY <2>1, <2>9 DEF ManufacturingInv, ManufacturingNext, vAll, vPlanning, Plan!vars
    <3> QED
      BY <3>1, Assumed, PlanStep
  <2> QED
    BY <2>2, <2>4, <2>5, <2>6, <2>7, <2>8, <2>9 DEF ManufacturingInv
<1> QED
  BY <1>1, <1>2, PTL DEF ManufacturingSpec

\* What the ledger issued for a work order is what its materials show as
\* picked, a row of inventories that was there from the start is what the
\* ledger says, and neither the picks nor, where no unit cost is negative,
\* the material cost pass what the BOM asked for.
THEOREM PicksAccountedHolds == ManufacturingSpec => []PicksAccounted
<1>1. ManufacturingInv => PicksAccounted
  BY Assumed, MakeTypeOK, MakePicked, MakeCost DEF ManufacturingInv, PicksAccounted
<1> QED
  BY <1>1, ManufacturingInvariant, PTL

\* The totals of a work order are the sums of some of its first reports,
\* whatever reports run together and wherever they stop.
THEOREM TotalIsPrefixHolds == ManufacturingSpec => []TotalIsPrefix
<1>1. ManufacturingInv => TotalIsPrefix
  BY Assumed, MakePrefix DEF ManufacturingInv, TotalIsPrefix
<1> QED
  BY <1>1, ManufacturingInvariant, PTL

\* An inspected order has the results of exactly one completion, its verdict
\* follows from them, and its change records are a chain up to its row.
THEOREM VerdictFollowsResultsHolds == ManufacturingSpec => []VerdictFollowsResults
<1>1. ManufacturingInv => VerdictFollowsResults
  BY Assumed, InspectTypeOK, InspectVerdict, InspectHistory DEF ManufacturingInv, VerdictFollowsResults
<1> QED
  BY <1>1, ManufacturingInvariant, PTL

\* What MRP suggests covers the demand and, unless demand and supply are both
\* negative, no other list asks for more; a receipt within the ordered
\* quantity changes no plan, only a release makes a BOM count, by what its
\* open sales lines ask, and the records of a BOM show it as it is.
THEOREM PlanCoversHolds == ManufacturingSpec => PlanCovers
<1>1. ManufacturingInv =>
        /\ part = "mrp" => Plan(Reckoning)!TypeOK /\ Plan(Reckoning)!MrpCovers
        /\ part = "bom" => Plan(Releasing)!BomHistory
  BY Assumed, PlanTypeOK, PlanCovered, PlanHistory DEF ManufacturingInv
<1>2. ManufacturingInv /\ ManufacturingInv' /\ [ManufacturingNext]_vAll =>
        [part = "mrp" => Plan(Reckoning)!PlanKept /\ Plan(Reckoning)!DemandReleased]_vAll
  <2>1. SUFFICES ASSUME ManufacturingInv, ManufacturingInv', ManufacturingNext, part = "mrp"
                 PROVE  Plan(Reckoning)!PlanKept /\ Plan(Reckoning)!DemandReleased
    OBVIOUS
  <2>2. Plan(Reckoning)!Next /\ part' = part
    BY <2>1 DEF ManufacturingNext
  <2>3. PlanInv(Reckoning) /\ PlanInv(Reckoning)'
    BY <2>1, <2>2 DEF ManufacturingInv
  <2> QED
    BY <2>2, <2>3, Assumed, PlanActs
<1> QED
  BY <1>1, <1>2, ManufacturingInvariant, PTL DEF ManufacturingSpec, PlanCovers
=============================================================================
