--------------------------- MODULE MCManufacturing --------------------------
(***************************************************************************)
(* Production, quality and planning, model-checked side by side.  part     *)
(* picks the component that moves, with the instance named after it; the   *)
(* tables of the others are <<>>.                                          *)
(***************************************************************************)
EXTENDS Integers, TLC

CONSTANTS
    Workers, WorkOrders, Inspections, Boms,
    Picking, PickingLines, Reporting,   \* the ids and bounds of Make, as records
    Inspecting,                         \* of Inspect
    Reckoning, Releasing,               \* and of Plan
    w1, t1, o1, r1, n1, b1, m1, s1, p1, a, raw, prod    \* single ids of each kind

VARIABLES
    part,
    orders, receipts, reported, log,
    templates, inspections, results, ncs, seq, free,
    boms, molds, sales, purchases, active,
    stock, trail, txn   \* of whichever part moves

vProduction == <<orders, receipts, reported, log>>
vQuality == <<templates, inspections, results, ncs, seq, free>>
vPlanning == <<boms, molds, sales, purchases, active>>

-----------------------------------------------------------------------------
(* Instances. *)

Make(c) == INSTANCE Production WITH
    WorkOrders <- c.orders, Receipts <- c.receipts, Items <- c.items, Warehouses <- c.warehouses,
    Boms <- c.boms, Operations <- c.operations, Planned <- c.planned, Picks <- c.picks,
    MaxLines <- c.lines, Reports <- c.reports, MaxReports <- c.maxreports,
    MaxRecords <- c.maxrecords, Received <- c.received, Opening <- c.opening, UnitCost <- c.cost

OneMaterial ==
    [items |-> {a}, boms |-> {<<[item |-> a, quantity |-> 2]>>}, received |-> {2},
     opening |-> [c \in {<<a, a>>} |-> 3], cost |-> [i \in {a} |-> 3]]

\* Two work orders that draw on one cell, and a receipt into it or into a
\* warehouse that has no inventories row yet.
TwoPicks ==
    OneMaterial @@
    [orders |-> WorkOrders, receipts |-> {r1}, warehouses |-> {a, m1}, operations |-> 0,
     planned |-> {1}, picks |-> {2}, lines |-> 1,
     reports |-> {}, maxreports |-> 0, maxrecords |-> 3]

\* Picks of two lines for the same material, of a plan that may be negative.
TwoLines ==
    OneMaterial @@
    [orders |-> {o1}, receipts |-> {}, warehouses |-> {a}, operations |-> 0,
     planned |-> {-1, 1}, picks |-> {-1, 2}, lines |-> 2,
     reports |-> {}, maxreports |-> 0, maxrecords |-> 5]

\* Reports on two operations of a work order.
TwoOperations ==
    OneMaterial @@
    [orders |-> {o1}, receipts |-> {}, warehouses |-> {a}, operations |-> 2,
     planned |-> {1}, picks |-> {}, lines |-> 1,
     reports |-> {<<1, 0>>, <<2, 1>>}, maxreports |-> 2, maxrecords |-> 2]

Inspect == INSTANCE Quality WITH
    Pool <- Inspecting.pool, Templates <- Inspecting.templates, NonConformances <- Inspecting.ncs,
    MaxItems <- Inspecting.items, Categories <- Inspecting.categories, MaxSeq <- Inspecting.seq,
    Verdicts <- Inspecting.verdicts

\* Two inspection orders of one template, completed by two workers.
OneTemplate ==
    [pool |-> 2, templates |-> {t1}, ncs |-> {n1}, items |-> 2, categories |-> {1}, seq |-> 4,
     verdicts |-> {1, 2}]

Plan(c) == INSTANCE Planning WITH
    Workers <- c.workers, Items <- c.items, Boms <- c.boms, Molds <- c.molds,
    SalesLines <- c.sales, PurchaseLines <- c.purchases, MaxLines <- c.lines,
    Quantities <- c.quantities, MaxQuantity <- c.maxquantity, Purchased <- c.purchased,
    SafetyStock <- c.safety, ReorderPoint <- c.reorder, Opening <- c.opening

RawAndProduct ==
    [items |-> {raw, prod}, purchased |-> {raw},
     safety |-> [i \in {raw, prod} |-> IF i = raw THEN 2 ELSE 0],
     reorder |-> [i \in {raw, prod} |-> IF i = raw THEN 2 ELSE 0],
     opening |-> [i \in {raw, prod} |-> 0]]

\* One BOM, one sales and one purchase line of a raw item and a product, with
\* deliveries and receipts that are partial or correct others.
OneBom ==
    RawAndProduct @@
    [workers |-> {w1}, boms |-> {b1}, molds |-> {}, sales |-> {s1}, purchases |-> {p1},
     lines |-> 1, quantities |-> {-1, 2}, maxquantity |-> 2]

\* Two BOMs that two workers release, and a mold.
TwoBoms ==
    RawAndProduct @@
    [workers |-> Workers, boms |-> Boms, molds |-> {m1}, sales |-> {}, purchases |-> {},
     lines |-> 1, quantities |-> {1}, maxquantity |-> 1]

ASSUME ManufacturingAssumption ==
    /\ Make(Picking)!ProductionAssumption /\ Make(PickingLines)!ProductionAssumption
    /\ Make(Reporting)!ProductionAssumption
    /\ Inspect!QualityAssumption
    /\ Plan(Reckoning)!PlanningAssumption /\ Plan(Releasing)!PlanningAssumption

-----------------------------------------------------------------------------
NoProduction == orders = <<>> /\ receipts = <<>> /\ reported = <<>> /\ log = <<>>
NoQuality ==
    templates = <<>> /\ inspections = <<>> /\ results = <<>> /\ ncs = <<>> /\ seq = 0 /\ free = 0
NoPlanning == boms = <<>> /\ molds = <<>> /\ sales = <<>> /\ purchases = <<>> /\ active = <<>>

ManufacturingInit ==
    \/ part = "pick" /\ Make(Picking)!Init /\ NoQuality /\ NoPlanning
    \/ part = "pick_lines" /\ Make(PickingLines)!Init /\ NoQuality /\ NoPlanning
    \/ part = "report" /\ Make(Reporting)!Init /\ NoQuality /\ NoPlanning
    \/ part = "inspect" /\ Inspect!Init /\ NoProduction /\ NoPlanning /\ stock = <<>>
    \/ part = "mrp" /\ Plan(Reckoning)!Init /\ NoProduction /\ NoQuality
    \/ part = "bom" /\ Plan(Releasing)!Init /\ NoProduction /\ NoQuality

ManufacturingNext ==
    \/ part = "pick" /\ Make(Picking)!Next /\ UNCHANGED <<part, vQuality, vPlanning>>
    \/ part = "pick_lines" /\ Make(PickingLines)!Next /\ UNCHANGED <<part, vQuality, vPlanning>>
    \/ part = "report" /\ Make(Reporting)!Next /\ UNCHANGED <<part, vQuality, vPlanning>>
    \/ part = "inspect" /\ Inspect!Next /\ UNCHANGED <<part, vProduction, vPlanning, stock>>
    \/ part = "mrp" /\ Plan(Reckoning)!Next /\ UNCHANGED <<part, vProduction, vQuality>>
    \/ part = "bom" /\ Plan(Releasing)!Next /\ UNCHANGED <<part, vProduction, vQuality>>

vAll == <<part, vProduction, vQuality, vPlanning, stock, trail, txn>>
ManufacturingSpec == ManufacturingInit /\ [][ManufacturingNext]_vAll

\* The sets of different parts may share their members: only one moves.
Symmetry == UNION {Permutations(S) : S \in {Workers, WorkOrders, Inspections, Boms}}

-----------------------------------------------------------------------------
(* Properties. *)

\* Whatever picks, receipts and releases run together, the quantities that
\* the ledger issued for a work order add up to what its materials show as
\* picked, and a row of inventories that was there from the start is what the
\* ledger says; and however many picks an order has, in one request or in
\* several at the same time, no material is picked beyond what the BOM asked
\* for (beyond 0, when that is negative).
PicksAccounted ==
    /\ part = "pick" => Make(Picking)!TypeOK /\ Make(Picking)!PickedWasIssued
    /\ part = "pick_lines" => Make(PickingLines)!CostWithinPlan

\* The totals of a work order are those of its operations at one moment,
\* after some first reports and before the others: concurrent reports and
\* crashes may leave them behind, they never mix or lose a report in between.
TotalIsPrefix == part = "report" => Make(Reporting)!TotalIsPrefix

\* An inspected order has the results of exactly one completion, and its
\* verdict is Fail just when one of them is; a pending order has neither, and
\* the change records of an order reconstruct every state it had.
VerdictFollowsResults ==
    part = "inspect" =>
        Inspect!TypeOK /\ Inspect!VerdictFollowsResults /\ Inspect!InspectionHistory

\* An item with what it has, what is coming and what MRP suggests meets its
\* demand and keeps its safety stock, and unless demand and supply are both
\* negative no other list asks for more.  A receipt of the ordered item moves
\* its quantity from transit to stock and changes no plan; only a release makes a BOM count, and it raises the
\* demand of its materials by what its open sales lines ask.  A BOM is
\* released once and stays so, and its records show just that.
PlanCovers ==
    /\ [](/\ part = "mrp" => Plan(Reckoning)!TypeOK /\ Plan(Reckoning)!MrpCovers
          /\ part = "bom" => Plan(Releasing)!BomHistory)
    /\ [][part = "mrp" => Plan(Reckoning)!PlanKept /\ Plan(Reckoning)!DemandReleased]_vAll
=============================================================================
