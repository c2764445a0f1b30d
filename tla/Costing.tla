------------------------------ MODULE Costing -------------------------------
(***************************************************************************)
(* cross_domain/costing and the item_costs table: the weighted average     *)
(* cost of an item, recalculated in the transaction of every receipt.      *)
(*                                                                         *)
(* A receipt first posts its quantity, which locks the inventories row of  *)
(* its warehouse until the transaction ends, and then reads the current    *)
(* cost and the stock of all warehouses without a lock.  Receipts into the *)
(* same warehouse are thereby serialised, receipts into two warehouses are *)
(* not.                                                                    *)
(***************************************************************************)
EXTENDS Integers, FiniteSetsExt

CONSTANTS
    Workers, Warehouses,
    Opening,    \* quantity in every warehouse at the start
    Receipts,   \* quantities received
    Issues,     \* quantities issued by other documents
    Prices,     \* unit costs
    Manual,     \* whether costs are also entered by hand
    MaxCosts    \* bound on the rows of item_costs

CostAssumption ==
    /\ Opening \in Nat /\ MaxCosts \in Nat
    /\ Receipts \subseteq Int /\ Issues \subseteq Nat \ {0} /\ Prices \subseteq Nat
    /\ IsFiniteSet(Warehouses) /\ IsFiniteSet(Prices)
    /\ Manual \in BOOLEAN

VARIABLES
    costs,  \* item_costs of the item: unit cost and is_current by id
    stock,  \* inventories.quantity by warehouse
    txn     \* the transaction of each worker, or Idle

vars == <<costs, stock, txn>>

Idle == [step |-> "idle"]
Ids == DOMAIN costs
Current == {k \in Ids : costs[k].current}

\* item_costs is not constrained: none of its rows need be current.
Init ==
    /\ costs = <<>>
    /\ stock = [h \in Warehouses |-> Opening]
    /\ txn = [w \in Workers |-> Idle]

\* Faulty form of Insert: is_current is left at the column's default.
InsertDefault(table, unit) ==
    [k \in 1..(Cardinality(DOMAIN table) + 1) |->
       IF k \in DOMAIN table THEN table[k] ELSE [unit |-> unit, current |-> FALSE]]

Insert(table, unit) ==
    [k \in 1..(Cardinality(DOMAIN table) + 1) |->
       IF k \in DOMAIN table THEN table[k] ELSE [unit |-> unit, current |-> TRUE]]

Flip(table, ids) ==
    [k \in DOMAIN table |-> IF k \in ids THEN [table[k] EXCEPT !.current = FALSE] ELSE table[k]]

-----------------------------------------------------------------------------
(* A receipt. *)

Free(h) == \A v \in Workers : txn[v].step \in {"received", "costed", "summed"} => txn[v].warehouse # h

\* Faulty form of Receive: the row is not locked.
ReceiveUnlocked(w) ==
    /\ txn[w] = Idle
    /\ \E h \in Warehouses, n \in Receipts, p \in Prices :
         txn' = [txn EXCEPT ![w] = [step |-> "received", warehouse |-> h, n |-> n, price |-> p]]
    /\ UNCHANGED <<costs, stock>>

\* InventoryLedger::receive; what it writes is only visible to itself.
Receive(w) ==
    /\ txn[w] = Idle
    /\ \E h \in Warehouses, n \in Receipts, p \in Prices :
         /\ Free(h)
         /\ txn' = [txn EXCEPT ![w] = [step |-> "received", warehouse |-> h, n |-> n, price |-> p]]
    /\ UNCHANGED <<costs, stock>>

\* Any current row, id 0 for none.
ReadCost(w) ==
    /\ txn[w].step = "received"
    /\ \E k \in IF Current = {} THEN {0} ELSE Current :
         txn' = [txn EXCEPT ![w] = [step |-> "costed", warehouse |-> txn[w].warehouse,
                  n |-> txn[w].n, price |-> txn[w].price,
                  id |-> k, unit |-> IF k = 0 THEN 0 ELSE costs[k].unit]]
    /\ UNCHANGED <<costs, stock>>

Total == SumFunctionOnSet(stock, Warehouses)

\* The stock of all warehouses, the received quantity included; old is
\* what there was before.
ReadStock(w) ==
    /\ txn[w].step = "costed"
    /\ txn' = [txn EXCEPT ![w] = [step |-> "summed", warehouse |-> txn[w].warehouse,
         n |-> txn[w].n, price |-> txn[w].price, id |-> txn[w].id, unit |-> txn[w].unit,
         old |-> (Total + txn[w].n) - txn[w].n]]
    /\ UNCHANGED <<costs, stock>>

\* Faulty form of NewAverage: the received quantity is missing below.
NewAverageOfOld(t) ==
    IF t.id # 0 /\ t.old > 0 THEN (t.old * t.unit + t.n * t.price) \div t.old ELSE t.price

NewAverage(t) ==
    IF t.id # 0 /\ t.old > 0 THEN (t.old * t.unit + t.n * t.price) \div (t.old + t.n)
    ELSE t.price

\* A negative receipt of all there was divides by zero, and panics.
Divides(t) == t.id # 0 /\ t.old > 0 => t.old + t.n # 0

\* The row read before is flipped, by id, and the new one inserted.
CommitReceipt(w) ==
    /\ txn[w].step = "summed" /\ Cardinality(Ids) < MaxCosts
    /\ Divides(txn[w])
    /\ costs' = Insert(Flip(costs, {txn[w].id}), NewAverage(txn[w]))
    /\ stock' = [stock EXCEPT ![txn[w].warehouse] = @ + txn[w].n]
    /\ txn' = [txn EXCEPT ![w] = Idle]

\* Another document takes stock out, negative stock included (force_issue).
Issue(h) ==
    /\ Free(h)
    /\ \E n \in Issues : stock[h] - n >= -1 /\ stock' = [stock EXCEPT ![h] = @ - n]
    /\ UNCHANGED <<costs, txn>>

-----------------------------------------------------------------------------
(* A cost entered by hand: UPDATE ... WHERE is_current finds its rows when *)
(* it starts, waits for those that another transaction has locked, and     *)
(* skips those that are not current any more.                              *)

StartCost(w) ==
    /\ Manual /\ txn[w] = Idle
    /\ \E p \in Prices :
         txn' = [txn EXCEPT ![w] = [step |-> "entered", price |-> p, ids |-> Current]]
    /\ UNCHANGED <<costs, stock>>

CommitCost(w) ==
    /\ txn[w].step = "entered" /\ Cardinality(Ids) < MaxCosts
    /\ costs' = Insert(Flip(costs, txn[w].ids), txn[w].price)
    /\ txn' = [txn EXCEPT ![w] = Idle]
    /\ UNCHANGED stock

Rollback(w) ==
    /\ txn[w] # Idle
    /\ txn' = [txn EXCEPT ![w] = Idle]
    /\ UNCHANGED <<costs, stock>>

ListCosts == {costs[k] : k \in Ids}
GetWeightedCost == {costs[k].unit : k \in Current}

Read == Cardinality(ListCosts) <= MaxCosts /\ UNCHANGED vars

Next ==
    \/ \E w \in Workers :
         \/ Receive(w) \/ ReadCost(w) \/ ReadStock(w) \/ CommitReceipt(w)
         \/ StartCost(w) \/ CommitCost(w) \/ Rollback(w)
    \/ \E h \in Warehouses : Issue(h)
    \/ Read

Spec == Init /\ [][Next]_vars

-----------------------------------------------------------------------------
(* Properties. *)

\* Type correctness: cost rows are never removed and the newest is current
\* unless a later one replaced it.
TypeOK ==
    /\ \A k \in Ids : costs[k] \in [unit: Nat, current: BOOLEAN]
    /\ stock \in [Warehouses -> Int]
    /\ Ids # {} => Cardinality(Ids) \in Current

\* An item has at most one current weighted average, and one from its first
\* receipt on.
OneCurrent == Cardinality(Current) <= 1 /\ (Ids # {} => Current # {})

\* The average never leaves the range of the prices paid, in whatever order
\* receipts and issues interleave and however stale the figures are that a
\* receipt works with.
AverageWithinPrices ==
    \A u \in GetWeightedCost : Min(Prices) <= u /\ u <= Max(Prices)
=============================================================================
