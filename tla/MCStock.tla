------------------------------- MODULE MCStock ------------------------------
(***************************************************************************)
(* Everything that moves stock, model-checked side by side: the ledger     *)
(* with its row locks (InventoryLedger), and the documents that post to it *)
(* (StockDocuments) or value it (Costing).  part picks the component that  *)
(* moves, with the instance named after it; the tables of the others are   *)
(* <<>>, and the ledger stays in its initial state.                        *)
(***************************************************************************)
EXTENDS InventoryLedger, TLC

CONSTANTS
    Workers, Warehouses, Transfers, Initials,
    Transferring, Counting, Founding,   \* the ids and bounds of Docs, as records
    Receiving, Pricing,                 \* and of Cost
    t1, k1, n1, a   \* single documents of each kind, and an item

VARIABLES
    part,
    docs, used, costs,
    stock, log, trail, txn  \* of whichever part moves

vDocs == <<docs, used>>
vCommon == <<log, trail>>
vStock == <<part, vars, vDocs, costs, vCommon, stock, txn>>

-----------------------------------------------------------------------------
(* Instances. *)

Docs(b) == INSTANCE StockDocuments WITH
    Checks <- b.checks, Transfers <- b.transfers, Initials <- b.initials, Items <- b.items,
    Warehouses <- b.warehouses, MaxLines <- b.lines, Moves <- b.moves, Counts <- b.counts,
    Opening <- b.opening

\* Two transfers between two warehouses, posted by competing workers, and
\* initial stock; in one warehouse the item has no inventories row yet.
TwoTransfers ==
    [checks |-> {}, transfers |-> Transfers, initials |-> {n1}, items |-> {a},
     warehouses |-> {a, k1}, lines |-> 2, moves |-> {-1, 1}, counts |-> {3},
     opening |-> [c \in {<<a, a>>} |-> 3]]

\* A count that a transfer and initial stock overtake.
OneCheck ==
    [checks |-> {k1}, transfers |-> {t1}, initials |-> {n1}, items |-> {a},
     warehouses |-> Warehouses, lines |-> 2, moves |-> {1}, counts |-> {1, 2},
     opening |-> [c \in {a} \X Warehouses |-> 1]]

\* Three requests that set the initial stock of one cell without a row, and
\* a check of it.
OneCell ==
    [checks |-> {k1}, transfers |-> {}, initials |-> Initials, items |-> {a},
     warehouses |-> {a}, lines |-> 1, moves |-> {1}, counts |-> {0, 1, 2},
     opening |-> [c \in {} |-> 0]]

Cost(b) == INSTANCE Costing WITH
    Warehouses <- b.warehouses, Opening <- b.opening, Receipts <- b.receipts, Issues <- b.issues,
    Prices <- b.prices, Manual <- b.manual, MaxCosts <- b.costs

\* Receipts into one warehouse: its row lock orders the recalculations.
OneWarehouse ==
    [warehouses |-> {a}, opening |-> 1, receipts |-> {1, 3}, issues |-> {1},
     prices |-> {2, 3, 7}, manual |-> FALSE, costs |-> 4]

\* Receipts into two warehouses, and costs entered by hand.
ByHand ==
    [warehouses |-> Warehouses, opening |-> 1, receipts |-> {3}, issues |-> {1},
     prices |-> {2, 7}, manual |-> TRUE, costs |-> 2]

\* One current average needs one warehouse, whose lock orders the receipts,
\* and an average of prices no corrections by a negative receipt.
ASSUME StockedAssumption ==
    /\ Docs(Transferring)!StockAssumption /\ Docs(Counting)!StockAssumption
    /\ Docs(Founding)!StockAssumption
    /\ Cost(Receiving)!CostAssumption /\ Cost(Pricing)!CostAssumption
    /\ \A g, h \in Receiving.warehouses : g = h
    /\ ~Receiving.manual
    /\ Pricing.receipts \subseteq Nat

-----------------------------------------------------------------------------
NoDocs == docs = <<>> /\ used = <<>>
NoCosts == costs = <<>>
NoCommon == log = <<>> /\ trail = <<>>

StockInit ==
    /\ Init
    /\ \/ part = "ledger" /\ NoDocs /\ NoCosts /\ NoCommon /\ stock = <<>> /\ txn = <<>>
       \/ part = "transfer" /\ Docs(Transferring)!Init /\ NoCosts
       \/ part = "count" /\ Docs(Counting)!Init /\ NoCosts
       \/ part = "initial" /\ Docs(Founding)!Init /\ NoCosts
       \/ part = "one_warehouse" /\ Cost(Receiving)!Init /\ NoDocs /\ NoCommon
       \/ part = "by_hand" /\ Cost(Pricing)!Init /\ NoDocs /\ NoCommon

StockNext ==
    \/ part = "ledger" /\ Next /\ UNCHANGED <<part, vDocs, costs, vCommon, stock, txn>>
    \/ part = "transfer" /\ Docs(Transferring)!Next /\ UNCHANGED <<part, vars, costs>>
    \/ part = "count" /\ Docs(Counting)!Next /\ UNCHANGED <<part, vars, costs>>
    \/ part = "initial" /\ Docs(Founding)!Next /\ UNCHANGED <<part, vars, costs>>
    \/ part = "one_warehouse" /\ Cost(Receiving)!Next /\ UNCHANGED <<part, vars, vDocs, vCommon>>
    \/ part = "by_hand" /\ Cost(Pricing)!Next /\ UNCHANGED <<part, vars, vDocs, vCommon>>

StockSpec == StockInit /\ [][StockNext]_vStock

\* The sets of different parts may share their members: only one moves.
Symmetry == UNION {Permutations(S) : S \in {Txns, Cells, Workers, Warehouses, Transfers, Initials}}

-----------------------------------------------------------------------------
(* Properties of the documents and of the costs. *)

\* Approvals of transfers that race post each of them once and whole: what is
\* approved went once out of the source and once into the target, what is not
\* posted nothing, the transactions of a row that was there chain up to the
\* quantity on hand, and the audit trail reconstructs every status.
TransfersPosted ==
    part = "transfer" =>
        /\ Docs(Transferring)!TypeOK
        /\ Docs(Transferring)!TransferPostedOnce
        /\ Docs(Transferring)!StockIsLogged
        /\ Docs(Transferring)!DocumentHistory

\* Counts replace what the stock was: the difference an approved check posts
\* is the one it recorded minus everything posted since, and an initial stock
\* recorded as an update shows the row right before and after one posting.
CountsReplace ==
    /\ part = "count" => Docs(Counting)!CheckReplacesMovements
    /\ part = "initial" => Docs(Founding)!InitialIsOneStep

\* Receipts into one warehouse leave one current average, and in whatever
\* order receipts and issues interleave, and however stale the figures are
\* that a receipt works with, an average stays within the prices paid.
CostIsAverage ==
    /\ part = "one_warehouse" => Cost(Receiving)!OneCurrent
    /\ part = "by_hand" => Cost(Pricing)!TypeOK /\ Cost(Pricing)!AverageWithinPrices
=============================================================================
