-------------------------- MODULE InventoryLedger --------------------------
(***************************************************************************)
(* The stock ledger of cross_domain/inventory_ledger: the tables           *)
(* inventories (quantity per item and warehouse, here a cell) and          *)
(* inventory_transactions, and the five operations that sales, purchase,   *)
(* production and warehouse documents call in their own transactions.      *)
(*                                                                         *)
(* A transaction posts a document: one or more lines of the same           *)
(* operation.  The database is PostgreSQL at READ COMMITTED: a read sees   *)
(* committed rows and the reader's own writes, SELECT FOR UPDATE waits for *)
(* the row lock and then reads the latest committed row, and an upsert     *)
(* waits for whoever holds the row or has inserted it without committing.  *)
(* Locks are kept until the transaction ends; a cycle of waiters costs one *)
(* of them its transaction.                                                *)
(***************************************************************************)
EXTENDS Integers, FiniteSetsExt

CONSTANTS
    Txns,      \* transactions (each posts one document)
    Cells,     \* (item, warehouse) pairs
    Amounts,   \* quantities of document lines; the requests do not restrict them
    Targets,   \* counted quantities of inventory checks and initial stock
    MaxLines,  \* ledger operations of one document
    Stocked,   \* cells that have an inventories row at the start
    Opening    \* its quantity

None == "none"

ASSUME LedgerAssumption ==
    /\ Amounts \subseteq Int
    /\ Targets \subseteq Int
    /\ MaxLines \in Nat
    /\ Stocked \subseteq Cells
    /\ Opening \in Int
    /\ None \notin Txns
    /\ None \notin Cells

VARIABLES
    qty,      \* committed inventories.quantity
    present,  \* cells with a committed inventories row
    flow,     \* opening stock plus all committed inventory_transactions
    lock,     \* holder of the row lock, or of the uncommitted insert
    pc,       \* stage of each transaction
    doc,      \* the operation its document posts
    cmd,      \* the LedgerCommand in progress
    lines,    \* commands called so far
    before,   \* before_qty, the result of read_qty
    wrote,    \* cells the transaction has upserted
    seen,     \* the quantities it wrote, visible to itself
    moved     \* its uncommitted inventory_transactions, summed per cell

vars == <<qty, present, flow, lock, pc, doc, cmd, lines, before, wrote, seen, moved>>
tables == <<qty, present, flow>>
local == <<wrote, seen, moved>>

Doc == {"receive", "issue", "force_issue", "adjust", "transfer"}
Op == {"receive", "issue", "force_issue", "adjust"}
Stage == {"idle", "open", "read", "apply", "done"}

\* LedgerCommand; to is where a transfer goes.  For adjust n is the new
\* quantity.
Command == [op: Op, cell: Cells \cup {None}, n: Int, to: Cells \cup {None}]

NoCommand == [op |-> "receive", cell |-> None, n |-> 0, to |-> None]
Zero == [c \in Cells |-> 0]

Init ==
    /\ qty = [c \in Cells |-> IF c \in Stocked THEN Opening ELSE 0]
    /\ present = Stocked
    /\ flow = qty
    /\ lock = [c \in Cells |-> None]
    /\ pc = [t \in Txns |-> "idle"]
    /\ doc = [t \in Txns |-> "receive"]
    /\ cmd = [t \in Txns |-> NoCommand]
    /\ lines = [t \in Txns |-> 0]
    /\ before = [t \in Txns |-> 0]
    /\ wrote = [t \in Txns |-> {}]
    /\ seen = [t \in Txns |-> Zero]
    /\ moved = [t \in Txns |-> Zero]

-----------------------------------------------------------------------------
\* The commands a document of kind d may call next.  A transfer issues from
\* one warehouse and then receives into the other.
Lines(d) ==
    CASE d = "adjust"   -> [op: {"adjust"}, cell: Cells, n: Targets, to: {None}]
      [] d = "transfer" -> [op: {"issue"}, cell: Cells, n: Amounts, to: Cells]
      [] OTHER          -> [op: {d}, cell: Cells, n: Amounts, to: {None}]

\* The document's transaction is opened and its first line is posted, or
\* its loop reaches the next line.
Call(t) ==
    /\ \/ pc[t] = "idle"
       \/ pc[t] = "open" /\ lines[t] < MaxLines
    /\ \E d \in Doc :
         /\ pc[t] = "open" => d = doc[t]
         /\ doc' = [doc EXCEPT ![t] = d]
         /\ \E l \in Lines(d) : cmd' = [cmd EXCEPT ![t] = l]
    /\ lines' = [lines EXCEPT ![t] = @ + 1]
    /\ pc' = [pc EXCEPT ![t] = "read"]
    /\ UNCHANGED <<tables, lock, before, local>>

\* What a read of the cell returns to t; a missing row counts as 0.
Visible(t, c) ==
    CASE c \in wrote[t] -> seen[t][c]
      [] c \notin wrote[t] /\ c \in present -> qty[c]
      [] OTHER -> 0

Free(t, c) == lock[c] \in {None, t}

\* Faulty form of ReadQty: SELECT without FOR UPDATE.
ReadQtyUnlocked(t) ==
    /\ pc[t] = "read"
    /\ before' = [before EXCEPT ![t] = Visible(t, cmd[t].cell)]
    /\ pc' = [pc EXCEPT ![t] = "apply"]
    /\ UNCHANGED <<tables, lock, doc, cmd, lines, local>>

\* read_qty: SELECT ... FOR UPDATE.  A row that does not exist, or is not
\* committed yet, is neither waited for nor locked.
ReadQty(t) ==
    LET c == cmd[t].cell IN
    /\ pc[t] = "read"
    /\ c \in present => Free(t, c)
    /\ lock' = IF c \in present THEN [lock EXCEPT ![c] = t] ELSE lock
    /\ before' = [before EXCEPT ![t] = Visible(t, c)]
    /\ pc' = [pc EXCEPT ![t] = "apply"]
    /\ UNCHANGED <<tables, doc, cmd, lines, local>>

AfterQty(t) ==
    CASE cmd[t].op = "receive" -> before[t] + cmd[t].n
      [] cmd[t].op \in {"issue", "force_issue"} -> before[t] - cmd[t].n
      [] cmd[t].op = "adjust" -> cmd[t].n

\* Faulty form of Insufficient: the last missing unit is not noticed.
InsufficientOffByOne(t) == cmd[t].op = "issue" /\ before[t] + 1 < cmd[t].n

Insufficient(t) == cmd[t].op = "issue" /\ before[t] < cmd[t].n
Unchanged(t) == cmd[t].op = "adjust" /\ cmd[t].n = before[t]

\* The transaction ends: its locks are released, what it wrote is no longer
\* its own.
End(t) ==
    /\ pc' = [pc EXCEPT ![t] = "done"]
    /\ lock' = [c \in Cells |-> IF lock[c] = t THEN None ELSE lock[c]]
    /\ cmd' = [cmd EXCEPT ![t] = NoCommand]
    /\ lines' = [lines EXCEPT ![t] = 0]
    /\ before' = [before EXCEPT ![t] = 0]
    /\ wrote' = [wrote EXCEPT ![t] = {}]
    /\ seen' = [seen EXCEPT ![t] = Zero]
    /\ moved' = [moved EXCEPT ![t] = Zero]
    /\ UNCHANGED doc

\* Faulty form of Refuse: the shortage is retried instead of reported.
RefuseRetries(t) ==
    /\ pc[t] = "apply"
    /\ Insufficient(t)
    /\ pc' = [pc EXCEPT ![t] = "read"]
    /\ UNCHANGED <<tables, lock, doc, cmd, lines, before, local>>

\* InsufficientInventory leaves the handler through ?, which drops and so
\* rolls back the transaction.
Refuse(t) ==
    /\ pc[t] = "apply"
    /\ Insufficient(t)
    /\ End(t)
    /\ UNCHANGED tables

\* Faulty form of Return: a transfer stops after its issue.
ReturnEarly(t) ==
    /\ pc' = [pc EXCEPT ![t] = "open"]
    /\ UNCHANGED cmd

\* Faulty form of Return: the receive follows every operation.
ReturnAlwaysReceives(t) ==
    /\ pc' = [pc EXCEPT ![t] = "read"]
    /\ cmd' = [cmd EXCEPT ![t] = [op |-> "receive", cell |-> cmd[t].to,
                                  n |-> cmd[t].n, to |-> None]]

\* The operation returns Ok; a transfer goes on with its receive.
Return(t) ==
    IF cmd[t].to = None
    THEN /\ pc' = [pc EXCEPT ![t] = "open"]
         /\ UNCHANGED cmd
    ELSE /\ pc' = [pc EXCEPT ![t] = "read"]
         /\ cmd' = [cmd EXCEPT ![t] = [op |-> "receive", cell |-> cmd[t].to,
                                       n |-> cmd[t].n, to |-> None]]

\* adjust to the quantity already there writes nothing.
SkipAdjust(t) ==
    /\ pc[t] = "apply"
    /\ Unchanged(t)
    /\ Return(t)
    /\ UNCHANGED <<tables, lock, doc, lines, before, local>>

\* upsert_and_log: the absolute quantity is written, inserted or not, and
\* one inventory_transactions row with before and after.
UpsertAndLog(t) ==
    LET c == cmd[t].cell IN
    /\ pc[t] = "apply"
    /\ ~Insufficient(t)
    /\ ~Unchanged(t)
    /\ Free(t, c)
    /\ lock' = [lock EXCEPT ![c] = t]
    /\ wrote' = [wrote EXCEPT ![t] = @ \cup {c}]
    /\ seen' = [seen EXCEPT ![t][c] = AfterQty(t)]
    /\ moved' = [moved EXCEPT ![t][c] = @ + (AfterQty(t) - before[t])]
    /\ Return(t)
    /\ UNCHANGED <<tables, doc, lines, before>>

Commit(t) ==
    /\ pc[t] = "open"
    /\ qty' = [c \in Cells |-> IF c \in wrote[t] THEN seen[t][c] ELSE qty[c]]
    /\ present' = present \cup wrote[t]
    /\ flow' = [c \in Cells |-> flow[c] + moved[t][c]]
    /\ End(t)

\* A later statement of the document fails, the request is cancelled or the
\* connection is lost.
Rollback(t) ==
    /\ pc[t] \in {"open", "read", "apply"}
    /\ End(t)
    /\ UNCHANGED tables

-----------------------------------------------------------------------------
(* Deadlock detection.                                                     *)

\* The transaction t waits for, if it waits.
WaitsFor(t) ==
    LET c == cmd[t].cell IN
    IF \/ pc[t] = "read" /\ c \in present /\ ~Free(t, c)
       \/ pc[t] = "apply" /\ ~Insufficient(t) /\ ~Unchanged(t) /\ ~Free(t, c)
    THEN lock[c] ELSE None

\* S is a cycle of waiters (or several): each waits for one of S and is
\* waited for by one of S.
WaitCycle(S) ==
    /\ \A s \in S : WaitsFor(s) \in S
    /\ \A s \in S : \E r \in S : WaitsFor(r) = s

DeadlockVictim(t) ==
    /\ pc[t] \in {"read", "apply"}
    /\ \E S \in SUBSET Txns : t \in S /\ WaitCycle(S)
    /\ End(t)
    /\ UNCHANGED tables

-----------------------------------------------------------------------------
Post(t) ==
    \/ ReadQty(t)
    \/ Refuse(t)
    \/ SkipAdjust(t)
    \/ UpsertAndLog(t)
    \/ Commit(t)

\* Every document has been posted or refused.
AllEnded ==
    /\ \A t \in Txns : pc[t] = "done"
    /\ UNCHANGED vars

Next ==
    \/ \E t \in Txns : Call(t)
    \/ \E t \in Txns : Post(t)
    \/ \E t \in Txns : Rollback(t)
    \/ \E t \in Txns : DeadlockVictim(t)
    \/ AllEnded

Spec == Init /\ [][Next]_vars

\* A handler that was called runs on, and PostgreSQL breaks deadlocks.
Fairness ==
    /\ \A t \in Txns : WF_vars(Post(t))
    /\ WF_vars(\E t \in Txns : DeadlockVictim(t))

FairSpec == Spec /\ Fairness

-----------------------------------------------------------------------------
(* Properties.                                                             *)

\* The type invariant: what is read, written and booked are integers, also
\* where there is no inventories row, and a command that runs has its cell.
TypeOK ==
    /\ qty \in [Cells -> Int]
    /\ present \in SUBSET Cells
    /\ flow \in [Cells -> Int]
    /\ lock \in [Cells -> Txns \cup {None}]
    /\ pc \in [Txns -> Stage]
    /\ doc \in [Txns -> Doc]
    /\ cmd \in [Txns -> Command]
    /\ lines \in [Txns -> Nat]
    /\ before \in [Txns -> Int]
    /\ wrote \in [Txns -> SUBSET Cells]
    /\ seen \in [Txns -> [Cells -> Int]]
    /\ moved \in [Txns -> [Cells -> Int]]
    /\ \A t \in Txns : pc[t] \in {"read", "apply"} => cmd[t].cell \in Cells

\* The regime in which FOR UPDATE serialises the writers of a cell: every
\* cell was given its row beforehand.
Prepared == Stocked = Cells

\* The regime of LedgerCommand's comment: quantities are positive, counted
\* quantities are not negative.
Positive == Amounts \subseteq Nat \ {0} /\ Targets \subseteq Nat

\* The books agree: the quantity of every cell is its opening stock plus the
\* movements in inventory_transactions, whatever documents ran at the same
\* time (CONTEXT.md, Ledger Operation: one atomic movement that updates
\* quantity and flow together).
StockIsBooked == \A c \in Cells : qty[c] = flow[c]

\* A pending write is made under the row lock, from the value that is still
\* the current one, and its uncommitted flow rows account for the change.
Exclusive ==
    /\ \A t \in Txns : pc[t] = "apply" => /\ lock[cmd[t].cell] = t
                                          /\ before[t] = Visible(t, cmd[t].cell)
    /\ \A t \in Txns : \A c \in wrote[t] : lock[c] = t
    /\ \A t \in Txns : \A c \in Cells :
          moved[t][c] = IF c \in wrote[t] THEN seen[t][c] - qty[c] ELSE 0

\* The inductive invariant of a Prepared ledger.
IInv ==
    /\ TypeOK
    /\ present = Cells
    /\ Exclusive
    /\ StockIsBooked

\* Only a document of negative issues takes a cell below zero or further
\* below: issue and transfer refuse, also when several documents draw on the
\* same cell at the same time.
OnlyForceOverdraws ==
    [][\A c \in Cells : qty'[c] < 0 /\ qty'[c] < qty[c] =>
          \E t \in Txns : doc[t] = "force_issue" /\ pc[t] = "open" /\ pc'[t] = "done"]_vars

\* A transfer moves stock and never creates or destroys it: the total over
\* the warehouses is the same before and after its transaction ends.
TransferConserves ==
    [][(\E t \in Txns : doc[t] = "transfer" /\ pc[t] # "done" /\ pc'[t] = "done")
          => SumFunctionOnSet(qty', Cells) = SumFunctionOnSet(qty, Cells)]_vars

\* Every document that starts ends, committed or rolled back: waiting for
\* row locks never lasts for ever, also when two transfers go opposite ways.
EveryDocumentEnds == \A t \in Txns : (pc[t] # "idle") ~> (pc[t] = "done")
=============================================================================
