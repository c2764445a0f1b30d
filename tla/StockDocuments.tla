--------------------------- MODULE StockDocuments ---------------------------
(***************************************************************************)
(* features/warehouse: inventory checks, stock transfers and the initial   *)
(* stock, which post to the stock ledger in their own transactions.        *)
(*                                                                         *)
(* A check notes what is on the books when it is created; its approval     *)
(* sets the counted quantity, whatever was posted in between.  Approvals   *)
(* post line by line and keep every row lock until they end.  A missing    *)
(* inventories row cannot be locked: it reads as 0 and is not waited for,  *)
(* and what is then written replaces whatever was committed in between.    *)
(***************************************************************************)
EXTENDS Approval, AuditTrail, FiniteSetsExt

CONSTANTS
    Workers,
    Checks, Transfers, Initials,  \* ids: documents, and requests of initial stock
    Items, Warehouses,
    MaxLines,   \* bound on the lines of a document
    Moves,      \* quantities of a transfer line; the request does not restrict them
    Counts,     \* counted quantities
    Opening     \* quantity of the inventories rows there are at the start

StockRows == Items \X Warehouses

StockAssumption ==
    /\ \E S \in SUBSET StockRows : Opening \in [S -> Int]
    /\ Moves \subseteq Int /\ Counts \subseteq Int
    /\ MaxLines \in Nat \ {0}
    /\ Checks \cap Transfers = {} /\ Initials \cap (Checks \cup Transfers) = {}
    /\ (Checks \cup Transfers) \cap StockRows = {}

VARIABLES
    docs,   \* inventory_checks and stock_transfers with their lines, or Absent
    stock,  \* inventories: quantity and version per cell, or Absent
    log,    \* inventory_transactions in the order of commit
    trail,  \* audit_logs of each document and each inventories row
    txn,    \* the transaction of each worker, or Idle
    used    \* requests of initial stock already made

vars == <<docs, stock, log, trail, txn, used>>

Absent == [row |-> "absent"]
Idle == [op |-> "idle"]
Rows(table) == {d \in DOMAIN table : table[d] # Absent}
Lines(S) == UNION {[1..n -> S] : n \in 1..MaxLines}

\* Faulty form of TR_FLOW: the two-level approval of purchase orders.
TR_FLOW_Supervised ==
    [submit |-> <<Draft, Submitted>>,
     approvals |-> << <<Submitted, PendingSupervisor>>, <<PendingSupervisor, Approved>> >>,
     reject |-> {}]

TR_FLOW == [submit |-> <<Draft, Submitted>>, approvals |-> << <<Submitted, Approved>> >>,
            reject |-> {}]
CH_FLOW == TR_FLOW

\* The audited part of a document: its own row, not its lines.
Snapshot(d) == [status |-> docs[d].status]

\* What a read of the quantity returns for a row of inventories.
Quantity(row) == IF row = Absent THEN 0 ELSE row.quantity

Init ==
    /\ docs = [d \in Checks \cup Transfers |-> Absent]
    /\ stock = [c \in StockRows |-> IF c \in DOMAIN Opening
                                    THEN [quantity |-> Opening[c], version |-> 1] ELSE Absent]
    /\ log = <<>>
    /\ trail = [x \in Checks \cup Transfers \cup StockRows |-> <<>>]
    /\ txn = [w \in Workers |-> Idle]
    /\ used = {}

-----------------------------------------------------------------------------
(* Creation. *)

\* The book quantity is read without a lock; since notes how long the log
\* was, for CheckReplacesMovements only.
CreateCheck(d) ==
    /\ docs[d] = Absent
    /\ \E h \in Warehouses, ls \in Lines([item: Items, actual: Counts]) :
         docs' = [docs EXCEPT ![d] =
           [kind |-> "check", status |-> Draft, warehouse |-> h, since |-> Len(log),
            lines |-> [k \in DOMAIN ls |->
              LET book == Quantity(stock[<<ls[k].item, h>>]) IN
              [item |-> ls[k].item, actual |-> ls[k].actual, book |-> book,
               diff |-> ls[k].actual - book]]]]
    /\ trail' = [trail EXCEPT ![d] = RecordCreate(@, [status |-> Draft])]
    /\ UNCHANGED <<stock, log, txn, used>>

\* Source and target may be the same warehouse.
CreateTransfer(d) ==
    /\ docs[d] = Absent
    /\ \E from \in Warehouses, to \in Warehouses, ls \in Lines([item: Items, quantity: Moves]) :
         docs' = [docs EXCEPT ![d] =
           [kind |-> "transfer", status |-> Draft, from |-> from, to |-> to, lines |-> ls]]
    /\ trail' = [trail EXCEPT ![d] = RecordCreate(@, [status |-> Draft])]
    /\ UNCHANGED <<stock, log, txn, used>>

-----------------------------------------------------------------------------
(* Locks.  A transaction holds its document row and the inventories rows   *)
(* it has read for update or written.                                      *)

\* Faulty form of Free: a plain SELECT, which waits for nobody.
FreeWithoutLock(d) == TRUE

Free(d) == \A v \in Workers : txn[v] # Idle => txn[v].ref # d

\* Faulty form of FreeCell: the row is read without a lock.
FreeCellWithoutLock(w, c) == TRUE

FreeCell(w, c) == \A v \in Workers \ {w} : txn[v] # Idle => c \notin txn[v].held

\* A transaction that has written no row yet.
Unwritten == [c \in StockRows |-> Absent]

\* read_locked: the row is locked and becomes the before of the audit record.
Begin(w, op, d, status, legs) ==
    /\ txn[w] = Idle
    /\ txn' = [txn EXCEPT ![w] =
         [op |-> op, ref |-> d, before |-> Snapshot(d), status |-> status, todo |-> legs,
          held |-> {}, missed |-> {}, wrote |-> Unwritten, log |-> <<>>]]
    /\ UNCHANGED <<docs, stock, log, trail, used>>

SubmitCheck(w, d) ==
    /\ d \in Rows(docs) /\ Free(d)
    /\ LET s == SubmitStatus(CH_FLOW, docs[d].status) IN
         s # Invalid /\ Begin(w, "submit", d, s, <<>>)

SubmitTransfer(w, d) ==
    /\ d \in Rows(docs) /\ Free(d)
    /\ LET s == SubmitStatus(TR_FLOW, docs[d].status) IN
         s # Invalid /\ Begin(w, "submit", d, s, <<>>)

Leg(op, type, item, warehouse, n) ==
    [op |-> op, type |-> type, cell |-> <<item, warehouse>>, n |-> n]

ApproveCheck(w, d) ==
    /\ d \in Rows(docs) /\ Free(d)
    /\ LET s == ApproveStatus(CH_FLOW, docs[d].status)
           ls == docs[d].lines
       IN  /\ s # Invalid
           /\ Begin(w, "approve_check", d, s,
                [k \in DOMAIN ls |->
                   Leg("adjust", "check", ls[k].item, docs[d].warehouse, ls[k].actual)])

\* Faulty form of TransferLegs: the receipt is forgotten.
TransferLegsOut(d) ==
    [k \in DOMAIN docs[d].lines |->
       Leg("issue", "out", docs[d].lines[k].item, docs[d].from, docs[d].lines[k].quantity)]

\* InventoryLedger::transfer: an issue and then a receipt for each line.
TransferLegs(d) ==
    [k \in 1..(2 * Len(docs[d].lines)) |->
       LET l == docs[d].lines[(k + 1) \div 2] IN
       IF k % 2 = 1 THEN Leg("issue", "out", l.item, docs[d].from, l.quantity)
       ELSE Leg("receive", "in", l.item, docs[d].to, l.quantity)]

ApproveTransfer(w, d) ==
    /\ d \in Rows(docs) /\ Free(d)
    /\ LET s == ApproveStatus(TR_FLOW, docs[d].status) IN
         s # Invalid /\ Begin(w, "approve_transfer", d, s, TransferLegs(d))

\* The existing row is locked and read; a missing one is not waited for.
StartInitial(w, i) ==
    /\ txn[w] = Idle /\ i \notin used
    /\ used' = used \cup {i}
    /\ \E c \in StockRows, n \in Counts :
         /\ stock[c] # Absent => FreeCell(w, c)
         /\ txn' = [txn EXCEPT ![w] =
              [op |-> "initial", ref |-> i, before |-> stock[c], cell |-> c,
               todo |-> <<Leg("adjust", "check", c[1], c[2], n)>>,
               held |-> {c} \cap Rows(stock), missed |-> {}, wrote |-> Unwritten, log |-> <<>>]]
    /\ UNCHANGED <<docs, stock, log, trail>>

-----------------------------------------------------------------------------
(* Posting and commit. *)

Visible(w, c) == IF txn[w].wrote[c] # Absent THEN txn[w].wrote[c] ELSE stock[c]

\* Faulty form of AfterQty: adjust adds the counted quantity.
AfterQtyAdds(before, leg) == IF leg.op = "issue" THEN before - leg.n ELSE before + leg.n

AfterQty(before, leg) ==
    CASE leg.op = "issue" -> before - leg.n
      [] leg.op = "receive" -> before + leg.n
      [] leg.op = "adjust" -> leg.n

Without(s, k) == [j \in 1..(Len(s) - 1) |-> IF j < k THEN s[j] ELSE s[j + 1]]

\* The leg that a request handles next: the lines of a transfer are read in
\* order of id, those of a check in any order.
NextLeg(w, k) ==
    /\ txn[w] # Idle /\ k \in DOMAIN txn[w].todo
    /\ txn[w].op = "approve_transfer" => k = 1

\* read_qty finds no row of the cell.
MissRow(w, k) ==
    /\ NextLeg(w, k) /\ txn[w].missed = {}
    /\ Visible(w, txn[w].todo[k].cell) = Absent
    /\ txn' = [txn EXCEPT ![w].missed = {txn[w].todo[k].cell}]
    /\ UNCHANGED <<docs, stock, log, trail, used>>

\* What read_qty returns for a cell: a row that is there was locked to read
\* it.
Before(w, c) == IF c \in txn[w].missed THEN 0 ELSE Quantity(Visible(w, c))

\* adjust to the quantity already there writes nothing.
Skipped(t, k) ==
    [t EXCEPT !.todo = Without(t.todo, k), !.missed = {},
              !.held = @ \cup ({t.todo[k].cell} \ t.missed)]

\* upsert_and_log: the row, and an inventory_transactions row with before and
\* after.
Upserted(t, k, row, before, after) ==
    LET leg == t.todo[k]
        version == IF row = Absent THEN 1 ELSE row.version + 1
    IN  [t EXCEPT !.todo = Without(t.todo, k), !.missed = {},
                  !.held = @ \cup {leg.cell},
                  !.wrote = [t.wrote EXCEPT ![leg.cell] = [quantity |-> after, version |-> version]],
                  !.log = Append(t.log,
                    [cell |-> leg.cell, type |-> leg.type, ref |-> t.ref,
                     quantity |-> IF leg.op = "adjust" THEN after - before ELSE leg.n,
                     before |-> before, after |-> after])]

\* One leg of the loop over the lines.  Only what reads nothing and writes
\* nothing of a row does not wait for it.
Post(w, k) ==
    /\ NextLeg(w, k)
    /\ LET leg == txn[w].todo[k]
           row == Visible(w, leg.cell)
           before == Before(w, leg.cell)
           after == AfterQty(before, leg)
           skips == leg.op = "adjust" /\ after = before
       IN  /\ txn[w].missed \subseteq {leg.cell}
           /\ row # Absent \/ leg.cell \in txn[w].missed
           /\ FreeCell(w, leg.cell) \/ (skips /\ leg.cell \in txn[w].missed)
           /\ ~(leg.op = "issue" /\ before < leg.n)
           /\ txn' = [txn EXCEPT ![w] =
                IF skips THEN Skipped(txn[w], k) ELSE Upserted(txn[w], k, row, before, after)]
    /\ UNCHANGED <<docs, stock, log, trail, used>>

Apply(w) ==
    /\ stock' = [c \in StockRows |-> Visible(w, c)]
    /\ log' = log \o txn[w].log
    /\ txn' = [txn EXCEPT ![w] = Idle]

\* The status (and approved_at) is written and audited with the postings.
CommitDocument(w) ==
    /\ txn[w].todo = <<>>
    /\ LET t == txn[w] IN
         /\ docs' = [docs EXCEPT ![t.ref].status = t.status]
         /\ trail' = [trail EXCEPT ![t.ref] =
              RecordUpdated(@, t.before, [status |-> t.status])]
    /\ Apply(w)
    /\ UNCHANGED used

CommitCheck(w) == txn[w] # Idle /\ txn[w].ref \in Checks /\ CommitDocument(w)
CommitTransfer(w) == txn[w] # Idle /\ txn[w].ref \in Transfers /\ CommitDocument(w)

\* The row is read back: no row, no record.
CommitInitial(w) ==
    /\ txn[w] # Idle /\ txn[w].op = "initial" /\ txn[w].todo = <<>>
    /\ LET before == txn[w].before
           after == Visible(w, txn[w].cell)
       IN  trail' = [trail EXCEPT ![txn[w].cell] =
             CASE after = Absent -> @
               [] after # Absent /\ before = Absent -> RecordCreate(@, after)
               [] OTHER -> RecordUpdated(@, before, after)]
    /\ Apply(w)
    /\ UNCHANGED <<docs, used>>

\* Insufficient stock, a deadlock or a crash before the commit.
Rollback(w) ==
    /\ txn[w] # Idle
    /\ txn' = [txn EXCEPT ![w] = Idle]
    /\ UNCHANGED <<docs, stock, log, trail, used>>

-----------------------------------------------------------------------------
(* The searches. *)

SearchInventories(warehouses) == {c \in Rows(stock) : c[2] \in warehouses}

\* The rows found, by their place in the order of commit.
SearchTransactions(items, warehouses, types) ==
    {k \in DOMAIN log :
       log[k].cell[1] \in items /\ log[k].cell[2] \in warehouses /\ log[k].type \in types}

History(c) == SearchTransactions({c[1]}, {c[2]}, {"out", "in", "check"})

Read == SearchInventories(Warehouses) \subseteq StockRows /\ UNCHANGED vars

Next ==
    \/ \E d \in Checks : CreateCheck(d)
    \/ \E d \in Transfers : CreateTransfer(d)
    \/ \E w \in Workers :
         \/ \E d \in Checks : SubmitCheck(w, d) \/ ApproveCheck(w, d)
         \/ \E d \in Transfers : SubmitTransfer(w, d) \/ ApproveTransfer(w, d)
         \/ \E i \in Initials : StartInitial(w, i)
         \/ \E k \in 1..(2 * MaxLines) : MissRow(w, k) \/ Post(w, k)
         \/ CommitCheck(w) \/ CommitTransfer(w) \/ CommitInitial(w) \/ Rollback(w)
    \/ Read

Spec == Init /\ [][Next]_vars

-----------------------------------------------------------------------------
(* Properties. *)

InventoryRow == [quantity: Int, version: Nat \ {0}]

\* Type correctness of documents, stock and open transactions.
TypeOK ==
    /\ \A d \in Rows(docs) : docs[d].status \in {Draft, Submitted, Approved}
    /\ \A c \in Rows(stock) : stock[c] \in InventoryRow
    /\ log \in Seq([cell: StockRows, type: {"out", "in", "check"}, quantity: Int, before: Int,
                    after: Int, ref: Checks \cup Transfers \cup Initials])
    /\ \A w \in Workers : txn[w] # Idle =>
         /\ txn[w].held \subseteq StockRows
         /\ \A c \in StockRows : txn[w].wrote[c] # Absent => c \in txn[w].held

\* The transactions of a row that was there from the start form an unbroken
\* chain up to the quantity on hand, and the version counts them: concurrent
\* approvals of documents on the same rows lose no posting.  (First postings
\* to a cell without a row overwrite each other: InventoryLedger.)
StockIsLogged ==
    \A c \in DOMAIN Opening :
      LET h == History(c)
          After(S) == IF S = {} THEN Opening[c] ELSE log[Max(S)].after
      IN  /\ c \in SearchInventories(Warehouses)
          /\ stock[c].quantity = After(h)
          /\ \A k \in h : log[k].before = After({j \in h : j < k})
          /\ stock[c].version = Cardinality(h) + 1

\* An approved transfer has posted each line once out of the source and
\* once into the target, all of them together, and a transfer that is not
\* approved has posted nothing: no approval takes effect twice or in part.
TransferPostedOnce ==
    \A d \in Transfers \cap Rows(docs) :
      LET mine == {k \in DOMAIN log : log[k].ref = d}
          ls == docs[d].lines
          Posted(k, type, h, l) ==
            log[k].type = type /\ log[k].cell = <<l.item, h>> /\ log[k].quantity = l.quantity
      IN  IF docs[d].status = Approved
          THEN \E b \in 0..Len(log) :
                 /\ mine = (b + 1)..(b + 2 * Len(ls))
                 /\ \A k \in DOMAIN ls :
                      /\ Posted(b + 2 * k - 1, "out", docs[d].from, ls[k])
                      /\ Posted(b + 2 * k, "in", docs[d].to, ls[k])
          ELSE mine = {}

\* The difference an approved check posts for an item that it lists once,
\* and that has a row from the start, is the one it recorded minus everything
\* posted since it was created: the count replaces those movements, it is
\* not added to them.
CheckReplacesMovements ==
    \A d \in Checks \cap Rows(docs), n \in DOMAIN log :
      \A k \in DOMAIN docs[d].lines :
        LET c == <<docs[d].lines[k].item, docs[d].warehouse>>
            once == Cardinality({j \in DOMAIN docs[d].lines : docs[d].lines[j].item = c[1]}) = 1
            between == {j \in (docs[d].since + 1)..(n - 1) : log[j].cell = c}
        IN  c \in DOMAIN Opening /\ once /\ log[n].ref = d /\ log[n].cell = c =>
              log[n].quantity = docs[d].lines[k].diff
              - SumFunctionOnSet([j \in between |-> log[j].after - log[j].before], between)

\* The audit trail of a document reconstructs every status it had.
DocumentHistory ==
    \A d \in Rows(docs) : Chained(trail[d]) /\ UpToDate(trail[d], Snapshot(d))

\* A change of the initial stock that is recorded as an update shows the
\* row immediately before and after one posting; also of a row that another
\* request created first.
InitialIsOneStep ==
    \A c \in StockRows : \A k \in DOMAIN trail[c] :
      trail[c][k].action = "updated" =>
        \/ trail[c][k].before = trail[c][k].after
        \/ trail[c][k].after.version = trail[c][k].before.version + 1

\* The row of a cell is recorded as created at most once: before is absent
\* only for the first posting.
CreatedOnce ==
    \A c \in StockRows :
      Cardinality({k \in DOMAIN trail[c] : trail[c][k].action = "created"}) <= 1
=============================================================================
