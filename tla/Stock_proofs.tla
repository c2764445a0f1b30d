---------------------------- MODULE Stock_proofs ----------------------------
(***************************************************************************)
(* Proofs about everything that moves stock.  InventoryLedger: type        *)
(* correctness, agreement of stock and flow when every cell has its row    *)
(* beforehand, what a transfer conserves, and that only negative issues    *)
(* overdraw a cell.  Costing: one current average, within the prices.      *)
(* StockDocuments: what approved transfers, checks and initial stocks post.*)
(***************************************************************************)
EXTENDS MCStock, SumLemmas

USE LedgerAssumption DEF None

\* What a transaction sees of a cell is a number.
LEMMA VisibleType ==
    ASSUME TypeOK, NEW t \in Txns, NEW c \in Cells
    PROVE  Visible(t, c) \in Int
BY DEF TypeOK, Visible

\* What an operation writes is a number.
LEMMA AfterType ==
    ASSUME TypeOK, NEW t \in Txns
    PROVE  AfterQty(t) \in Int
<1>1. cmd[t].op \in Op /\ cmd[t].n \in Int /\ before[t] \in Int
  BY DEF TypeOK, Command
<1>2. QED
  BY <1>1 DEF Op, AfterQty

\* The lines of a document are operations on cells.
LEMMA LinesType ==
    ASSUME NEW d \in Doc
    PROVE  /\ Lines(d) \subseteq Command
           /\ \A l \in Lines(d) : l.cell \in Cells
BY DEF Doc, Lines, Command, Op

\* What the end of a transaction does to its own state.
LEMMA EndType ==
    ASSUME TypeOK, NEW t \in Txns, End(t),
           qty' \in [Cells -> Int], present' \in SUBSET Cells, flow' \in [Cells -> Int]
    PROVE  TypeOK'
<1>1. Zero \in [Cells -> Int] /\ NoCommand \in Command
  BY DEF Zero, NoCommand, Command, Op
<1>2. lock' \in [Cells -> Txns \cup {None}]
  BY DEF TypeOK, End
<1>3. pc' \in [Txns -> Stage] /\ cmd' \in [Txns -> Command] /\ doc' \in [Txns -> Doc]
  BY <1>1 DEF TypeOK, End, Stage
<1>4. \A s \in Txns : pc'[s] \in {"read", "apply"} => cmd'[s].cell \in Cells
  <2>1. ASSUME NEW s \in Txns, pc'[s] \in {"read", "apply"} PROVE cmd'[s].cell \in Cells
    <3>1. s # t /\ pc[s] = pc'[s] /\ cmd'[s] = cmd[s]
      BY <2>1 DEF TypeOK, End
    <3>2. QED
      BY <2>1, <3>1 DEF TypeOK
  <2>2. QED
    BY <2>1
<1>5. lines' \in [Txns -> Nat] /\ before' \in [Txns -> Int] /\ wrote' \in [Txns -> SUBSET Cells]
  BY DEF TypeOK, End
<1>6. seen' \in [Txns -> [Cells -> Int]] /\ moved' \in [Txns -> [Cells -> Int]]
  BY <1>1 DEF TypeOK, End
<1>7. QED
  BY <1>2, <1>3, <1>4, <1>5, <1>6 DEF TypeOK

\* Returning from an operation keeps the types.
LEMMA ReturnType ==
    ASSUME TypeOK, NEW t \in Txns, Return(t)
    PROVE  /\ pc' \in [Txns -> Stage]
           /\ cmd' \in [Txns -> Command]
           /\ \A s \in Txns : pc'[s] \in {"read", "apply"} => cmd'[s].cell \in Cells
<1> DEFINE half == [op |-> "receive", cell |-> cmd[t].to, n |-> cmd[t].n, to |-> None]
<1>1. cmd[t] \in Command /\ cmd \in [Txns -> Command] /\ pc \in [Txns -> Stage]
  BY DEF TypeOK
<1>2. CASE cmd[t].to = None
  BY <1>1, <1>2 DEF TypeOK, Return, Stage
<1>3. CASE cmd[t].to # None
  <2>1. half \in Command /\ half.cell \in Cells
    BY <1>1, <1>3 DEF Command, Op
  <2>2. cmd' = [cmd EXCEPT ![t] = half] /\ pc' = [pc EXCEPT ![t] = "read"]
    BY <1>3 DEF Return
  <2> HIDE DEF half
  <2>3. QED
    BY <1>1, <2>1, <2>2 DEF TypeOK, Stage
<1>4. QED
  BY <1>2, <1>3

\* Every step keeps the types.
LEMMA StepType ==
    ASSUME TypeOK, [Next]_vars
    PROVE  TypeOK'
<1>1. ASSUME NEW t \in Txns, Call(t) PROVE TypeOK'
  <2>0. PICK d \in Doc : doc' = [doc EXCEPT ![t] = d]
                       /\ \E l \in Lines(d) : cmd' = [cmd EXCEPT ![t] = l]
    BY <1>1 DEF Call
  <2>1. PICK l \in Lines(d) : cmd' = [cmd EXCEPT ![t] = l]
    BY <2>0
  <2>2. l \in Command /\ l.cell \in Cells
    BY <2>1, LinesType
  <2>3. UNCHANGED <<qty, present, flow, lock, before, wrote, seen, moved>>
    BY <1>1 DEF Call, tables, local
  <2>4. lines' \in [Txns -> Nat] /\ pc' \in [Txns -> Stage] /\ pc' = [pc EXCEPT ![t] = "read"]
    BY <1>1 DEF Call, TypeOK, Stage
  <2>5. \A s \in Txns : pc'[s] \in {"read", "apply"} => cmd'[s].cell \in Cells
    BY <2>1, <2>2, <2>4 DEF TypeOK
  <2>6. cmd' \in [Txns -> Command] /\ doc' \in [Txns -> Doc]
    BY <2>0, <2>1, <2>2 DEF TypeOK
  <2>7. QED
    BY <2>3, <2>4, <2>5, <2>6 DEF TypeOK
<1>2. ASSUME NEW t \in Txns, ReadQty(t) PROVE TypeOK'
  <2>1. cmd[t].cell \in Cells /\ Visible(t, cmd[t].cell) \in Int
    BY <1>2, VisibleType DEF ReadQty, TypeOK
  <2>2. lock' \in [Cells -> Txns \cup {None}] /\ before' \in [Txns -> Int] /\ pc' \in [Txns -> Stage]
    BY <1>2, <2>1 DEF ReadQty, TypeOK, Stage
  <2>3. UNCHANGED <<qty, present, flow, doc, cmd, lines, wrote, seen, moved>>
    BY <1>2 DEF ReadQty, tables, local
  <2>4. \A s \in Txns : pc'[s] \in {"read", "apply"} => cmd'[s].cell \in Cells
    BY <1>2, <2>1, <2>3 DEF ReadQty, TypeOK
  <2>5. QED
    BY <2>2, <2>3, <2>4 DEF TypeOK
<1>3. ASSUME NEW t \in Txns, Refuse(t) \/ Rollback(t) \/ DeadlockVictim(t) PROVE TypeOK'
  <2>1. End(t) /\ UNCHANGED <<qty, present, flow>>
    BY <1>3 DEF Refuse, Rollback, DeadlockVictim, tables
  <2>2. QED
    BY <2>1, EndType DEF TypeOK
<1>4. ASSUME NEW t \in Txns, SkipAdjust(t) PROVE TypeOK'
  <2>1. Return(t) /\ UNCHANGED <<qty, present, flow, lock, doc, lines, before, wrote, seen, moved>>
    BY <1>4 DEF SkipAdjust, tables, local
  <2>2. QED
    BY <2>1, ReturnType DEF TypeOK
<1>5. ASSUME NEW t \in Txns, UpsertAndLog(t) PROVE TypeOK'
  <2>1. Return(t) /\ UNCHANGED <<qty, present, flow, doc, lines, before>> /\ cmd[t].cell \in Cells
    BY <1>5 DEF UpsertAndLog, tables, TypeOK
  <2>2. AfterQty(t) \in Int /\ before[t] \in Int
    BY AfterType DEF TypeOK
  <2>3. wrote' \in [Txns -> SUBSET Cells] /\ lock' \in [Cells -> Txns \cup {None}]
    BY <1>5, <2>1 DEF UpsertAndLog, TypeOK
  <2>4. seen' \in [Txns -> [Cells -> Int]]
    BY <1>5, <2>1, <2>2 DEF UpsertAndLog, TypeOK
  <2>5. moved' \in [Txns -> [Cells -> Int]]
    BY <1>5, <2>1, <2>2 DEF UpsertAndLog, TypeOK
  <2>6. QED
    BY <2>1, <2>3, <2>4, <2>5, ReturnType DEF TypeOK
<1>6. ASSUME NEW t \in Txns, Commit(t) PROVE TypeOK'
  <2>1. qty' \in [Cells -> Int] /\ present' \in SUBSET Cells /\ flow' \in [Cells -> Int]
    BY <1>6 DEF Commit, TypeOK
  <2>2. End(t)
    BY <1>6 DEF Commit
  <2>3. QED
    BY <2>1, <2>2, EndType
<1>7. CASE UNCHANGED vars
  BY <1>7 DEF vars, TypeOK
<1>8. CASE AllEnded
  BY <1>8 DEF AllEnded, vars, TypeOK
<1>9. QED
  BY <1>1, <1>2, <1>3, <1>4, <1>5, <1>6, <1>7, <1>8 DEF Next, Post

\* The types hold at the start.
LEMMA InitType == Init => TypeOK
BY DEF Init, TypeOK, Stage, Doc, Command, Op, NoCommand, Zero

\* Every reachable state of the ledger is well typed: a read of a missing
\* row is a number, and every command in progress names a cell.
THEOREM LedgerTypeCorrect == Spec => []TypeOK
BY InitType, StepType, PTL DEF Spec

-----------------------------------------------------------------------------
(***************************************************************************)
(* A Prepared ledger: the row of every cell exists, so read_qty always     *)
(* locks and the value it returned is still the current one when           *)
(* upsert_and_log writes.                                                  *)
(***************************************************************************)
Rest == present = Cells /\ Exclusive /\ StockIsBooked

\* The end of a transaction keeps the invariant of the others.
LEMMA EndRest ==
    ASSUME TypeOK, Rest, NEW t \in Txns, End(t), UNCHANGED <<qty, present, flow>>
    PROVE  Rest'
<1>1. \A s \in Txns : s # t => /\ pc'[s] = pc[s] /\ cmd'[s] = cmd[s] /\ before'[s] = before[s]
                               /\ wrote'[s] = wrote[s] /\ seen'[s] = seen[s] /\ moved'[s] = moved[s]
  BY DEF TypeOK, End
<1>2. pc'[t] = "done" /\ wrote'[t] = {} /\ moved'[t] = Zero
  BY DEF TypeOK, End
<1>3. \A s \in Txns, c \in Cells : s # t /\ lock[c] = s => lock'[c] = s
  BY DEF TypeOK, End
<1>4. ASSUME NEW s \in Txns, pc'[s] = "apply"
      PROVE  lock'[cmd'[s].cell] = s /\ before'[s] = Visible(s, cmd[s].cell)'
  <2>1. s # t /\ pc[s] = "apply" /\ cmd[s].cell \in Cells
    BY <1>1, <1>2, <1>4 DEF TypeOK
  <2>2. QED
    BY <1>1, <1>3, <2>1 DEF Rest, Exclusive, Visible
<1>5. ASSUME NEW s \in Txns, NEW c \in wrote'[s] PROVE lock'[c] = s
  BY <1>1, <1>2, <1>3, <1>5 DEF Rest, Exclusive, TypeOK
<1>6. ASSUME NEW s \in Txns, NEW c \in Cells
      PROVE  moved'[s][c] = IF c \in wrote'[s] THEN seen'[s][c] - qty'[c] ELSE 0
  BY <1>1, <1>2 DEF Rest, Exclusive, Zero
<1>7. QED
  BY <1>4, <1>5, <1>6 DEF Rest, Exclusive, StockIsBooked

\* The value a locked read returned is carried through to the write.
LEMMA UpsertRest ==
    ASSUME TypeOK, Rest, NEW t \in Txns, UpsertAndLog(t)
    PROVE  Rest'
<1> DEFINE c == cmd[t].cell
<1>1. /\ c \in Cells /\ lock[c] = t /\ before[t] = Visible(t, c)
      /\ AfterQty(t) \in Int /\ before[t] \in Int
  BY AfterType DEF UpsertAndLog, Rest, Exclusive, TypeOK
<1>2. /\ UNCHANGED <<qty, present, flow, before>> /\ lock' = lock
      /\ wrote'[t] = wrote[t] \cup {c}
      /\ seen'[t] = [seen[t] EXCEPT ![c] = AfterQty(t)]
      /\ moved'[t] = [moved[t] EXCEPT ![c] = @ + (AfterQty(t) - before[t])]
      /\ \A s \in Txns : s # t => wrote'[s] = wrote[s] /\ seen'[s] = seen[s] /\ moved'[s] = moved[s]
  BY <1>1 DEF UpsertAndLog, TypeOK, tables
<1>3. /\ pc'[t] # "apply"
      /\ \A s \in Txns : s # t => pc'[s] = pc[s] /\ cmd'[s] = cmd[s]
  BY DEF UpsertAndLog, Return, TypeOK
<1>4. ASSUME NEW s \in Txns, pc'[s] = "apply"
      PROVE  lock'[cmd'[s].cell] = s /\ before'[s] = Visible(s, cmd[s].cell)'
  BY <1>2, <1>3, <1>4 DEF Rest, Exclusive, Visible
<1>5. ASSUME NEW s \in Txns, NEW d \in wrote'[s] PROVE lock'[d] = s
  BY <1>1, <1>2, <1>5 DEF Rest, Exclusive
<1>6. ASSUME NEW s \in Txns, NEW d \in Cells
      PROVE  moved'[s][d] = IF d \in wrote'[s] THEN seen'[s][d] - qty'[d] ELSE 0
  <2>1. CASE s # t
    BY <1>2, <2>1 DEF Rest, Exclusive
  <2>2. CASE s = t /\ d # c
    BY <1>2, <2>2 DEF Rest, Exclusive, TypeOK
  <2>3. CASE s = t /\ d = c
    <3>1. moved[t][c] = before[t] - qty[c] /\ qty[c] \in Int /\ moved[t][c] \in Int
      BY <1>1 DEF Rest, Exclusive, Visible, TypeOK
    <3>2. moved'[t][c] = moved[t][c] + (AfterQty(t) - before[t]) /\ seen'[t][c] = AfterQty(t)
      BY <1>1, <1>2 DEF TypeOK
    <3>3. c \in wrote'[t] /\ qty' = qty
      BY <1>2
    <3> HIDE DEF c
    <3>4. QED
      BY <1>1, <2>3, <3>1, <3>2, <3>3
  <2>4. QED
    BY <2>1, <2>2, <2>3
<1>7. QED
  BY <1>2, <1>4, <1>5, <1>6 DEF Rest, Exclusive, StockIsBooked

\* A commit keeps the invariant: what was pending is what is committed.
LEMMA CommitRest ==
    ASSUME TypeOK, Rest, NEW t \in Txns, Commit(t)
    PROVE  Rest'
<1>1. End(t) /\ present' = Cells
  BY DEF Commit, Rest, TypeOK
<1>2. /\ \A c \in Cells : qty'[c] = IF c \in wrote[t] THEN seen[t][c] ELSE qty[c]
      /\ \A c \in Cells : flow'[c] = flow[c] + moved[t][c]
  BY DEF Commit
<1>3. \A s \in Txns : s # t => /\ pc'[s] = pc[s] /\ cmd'[s] = cmd[s] /\ before'[s] = before[s]
                               /\ wrote'[s] = wrote[s] /\ seen'[s] = seen[s] /\ moved'[s] = moved[s]
  BY <1>1 DEF TypeOK, End
<1>4. pc'[t] = "done" /\ wrote'[t] = {} /\ moved'[t] = Zero
  BY <1>1 DEF TypeOK, End
<1>5. \A s \in Txns, c \in Cells : s # t /\ lock[c] = s => lock'[c] = s /\ qty'[c] = qty[c]
  BY <1>1, <1>2 DEF TypeOK, End, Rest, Exclusive
<1>6. ASSUME NEW s \in Txns, pc'[s] = "apply"
      PROVE  lock'[cmd'[s].cell] = s /\ before'[s] = Visible(s, cmd[s].cell)'
  <2>1. s # t /\ pc[s] = "apply" /\ cmd[s].cell \in Cells
    BY <1>3, <1>4, <1>6 DEF TypeOK
  <2>2. QED
    BY <1>1, <1>3, <1>5, <2>1 DEF Rest, Exclusive, Visible
<1>7. ASSUME NEW s \in Txns, NEW c \in wrote'[s] PROVE lock'[c] = s
  BY <1>3, <1>4, <1>5, <1>7 DEF Rest, Exclusive, TypeOK
<1>8. ASSUME NEW s \in Txns, NEW c \in Cells
      PROVE  moved'[s][c] = IF c \in wrote'[s] THEN seen'[s][c] - qty'[c] ELSE 0
  <2>1. CASE s = t
    BY <1>4, <2>1 DEF Zero
  <2>2. CASE s # t
    BY <1>3, <1>5, <2>2 DEF Rest, Exclusive
  <2>3. QED
    BY <2>1, <2>2
<1>9. ASSUME NEW c \in Cells PROVE qty'[c] = flow'[c]
  BY <1>2 DEF Rest, Exclusive, StockIsBooked, TypeOK
<1>10. QED
  BY <1>1, <1>6, <1>7, <1>8, <1>9 DEF Rest, Exclusive, StockIsBooked

\* Every step keeps the invariant, given that every cell has its row.
LEMMA StepRest ==
    ASSUME TypeOK, Rest, [Next]_vars
    PROVE  Rest'
<1>1. ASSUME NEW t \in Txns, Call(t) PROVE Rest'
  <2>1. UNCHANGED <<qty, present, flow, lock, before, wrote, seen, moved>>
    BY <1>1 DEF Call, tables, local
  <2>2. pc'[t] = "read" /\ \A s \in Txns : s # t => pc'[s] = pc[s] /\ cmd'[s] = cmd[s]
    BY <1>1 DEF Call, TypeOK
  <2>3. QED
    BY <2>1, <2>2 DEF Rest, Exclusive, StockIsBooked, Visible
<1>2. ASSUME NEW t \in Txns, ReadQty(t) PROVE Rest'
  <2>1. UNCHANGED <<qty, present, flow, cmd, wrote, seen, moved>>
    BY <1>2 DEF ReadQty, tables, local
  <2>2. /\ cmd[t].cell \in Cells /\ lock'[cmd[t].cell] = t
        /\ \A c \in Cells, s \in Txns : lock[c] = s => lock'[c] = s
    BY <1>2 DEF ReadQty, TypeOK, Rest, Free
  <2>3. /\ before'[t] = Visible(t, cmd[t].cell)
        /\ \A s \in Txns : s # t => pc'[s] = pc[s] /\ before'[s] = before[s]
    BY <1>2 DEF ReadQty, TypeOK
  <2>4. \A s \in Txns : pc'[s] = "apply" => s = t \/ (pc[s] = "apply" /\ cmd[s].cell \in Cells)
    BY <2>3 DEF TypeOK
  <2>5. QED
    BY <2>1, <2>2, <2>3, <2>4 DEF Rest, Exclusive, StockIsBooked, Visible, TypeOK
<1>3. ASSUME NEW t \in Txns, Refuse(t) \/ Rollback(t) \/ DeadlockVictim(t) PROVE Rest'
  <2>1. End(t) /\ UNCHANGED <<qty, present, flow>>
    BY <1>3 DEF Refuse, Rollback, DeadlockVictim, tables
  <2>2. QED
    BY <2>1, EndRest
<1>4. ASSUME NEW t \in Txns, SkipAdjust(t) PROVE Rest'
  <2>1. UNCHANGED <<qty, present, flow, lock, before, wrote, seen, moved>>
    BY <1>4 DEF SkipAdjust, tables, local
  <2>2. pc'[t] # "apply" /\ \A s \in Txns : s # t => pc'[s] = pc[s] /\ cmd'[s] = cmd[s]
    BY <1>4 DEF SkipAdjust, Return, TypeOK
  <2>3. QED
    BY <2>1, <2>2 DEF Rest, Exclusive, StockIsBooked, Visible
<1>5. CASE UNCHANGED vars \/ AllEnded
  BY <1>5 DEF vars, AllEnded, Rest, Exclusive, StockIsBooked, Visible
<1>6. QED
  BY <1>1, <1>2, <1>3, <1>4, <1>5, UpsertRest, CommitRest DEF Next, Post

\* The inductive invariant holds in every state of a Prepared ledger.
THEOREM LedgerInvariant == Prepared /\ Spec => []IInv
<1>1. Prepared /\ Init => Rest
  BY DEF Prepared, Init, Rest, Exclusive, StockIsBooked, Zero
<1>2. TypeOK /\ Rest /\ [Next]_vars => Rest'
  BY StepRest
<1>3. TypeOK /\ Rest => IInv
  BY DEF Rest, IInv
<1>4. QED
  BY <1>1, <1>2, <1>3, LedgerTypeCorrect, PTL DEF Spec

\* Stock and flow agree in every state of a Prepared ledger, for any number
\* of concurrent documents, cells, lines and quantities.
THEOREM StockIsBookedHolds == Prepared /\ Spec => []StockIsBooked
<1>1. IInv => StockIsBooked
  BY DEF IInv
<1>2. QED
  BY <1>1, LedgerInvariant, PTL

-----------------------------------------------------------------------------
(***************************************************************************)
(* Transfers in a Prepared ledger.  What is booked for a transfer, with    *)
(* the receive that is still to come after its issue, is nothing in all.   *)
(***************************************************************************)
Pending(t) == IF pc[t] \in {"read", "apply"} /\ cmd[t].op = "receive" THEN cmd[t].n ELSE 0

Balanced(t) ==
    /\ pc[t] = "idle" => moved[t] = Zero
    /\ doc[t] = "transfer" /\ pc[t] \in {"open", "read", "apply"} =>
         SumFunctionOnSet(moved[t], Cells) + Pending(t) = 0
    /\ doc[t] = "transfer" /\ pc[t] \in {"read", "apply"} =>
         \/ cmd[t].op = "issue" /\ cmd[t].to # None
         \/ cmd[t].op = "receive" /\ cmd[t].to = None

\* Nothing of the transaction s changes.
LEMMA BalancedSame ==
    ASSUME NEW s \in Txns, Balanced(s), pc'[s] = pc[s], cmd'[s] = cmd[s], doc'[s] = doc[s],
           moved'[s] = moved[s]
    PROVE  Balanced(s)'
BY DEF Balanced, Pending

\* A call of the next line: of a transfer, an issue.
LEMMA CallBalanced ==
    ASSUME IsFiniteSet(Cells), TypeOK, NEW t \in Txns, Balanced(t), Call(t)
    PROVE  Balanced(t)'
<1>1. PICK d \in Doc : /\ pc[t] = "open" => d = doc[t]
                       /\ doc' = [doc EXCEPT ![t] = d]
                       /\ \E l \in Lines(d) : cmd' = [cmd EXCEPT ![t] = l]
  BY DEF Call
<1>2. PICK l \in Lines(d) : cmd' = [cmd EXCEPT ![t] = l]
  BY <1>1
<1>3. pc'[t] = "read" /\ cmd'[t] = l /\ doc'[t] = d /\ moved'[t] = moved[t] /\ pc[t] \in {"idle", "open"}
  BY <1>1, <1>2 DEF Call, TypeOK, local
<1>4. d = "transfer" => l.op = "issue" /\ l.to # None
  BY DEF Lines
<1>5. d = "transfer" => SumFunctionOnSet(moved[t], Cells) = 0
  <2>1. CASE pc[t] = "idle"
    <3>1. \A c \in Cells : moved[t][c] = 0
      BY <2>1 DEF Balanced, Zero
    <3> QED
      BY <3>1, SumZero
  <2>2. CASE pc[t] = "open"
    <3>1. \A c \in Cells : moved[t][c] \in Int
      BY DEF TypeOK
    <3>2. SumFunctionOnSet(moved[t], Cells) \in Int
      BY <3>1, SumInt
    <3> QED
      BY <1>1, <2>2, <3>2 DEF Balanced, Pending
  <2> QED
    BY <1>3, <2>1, <2>2
<1> QED
  BY <1>3, <1>4, <1>5 DEF Balanced, Pending

\* What an operation of a transfer writes is what its pending part loses.
LEMMA UpsertBalanced ==
    ASSUME IsFiniteSet(Cells), TypeOK, NEW t \in Txns, Balanced(t), UpsertAndLog(t)
    PROVE  Balanced(t)'
<1> SUFFICES ASSUME doc[t] = "transfer" PROVE Balanced(t)'
  BY DEF UpsertAndLog, Return, Balanced, TypeOK
<1>1. /\ cmd[t].cell \in Cells /\ AfterQty(t) \in Int /\ before[t] \in Int /\ cmd[t].n \in Int
      /\ moved[t] \in [Cells -> Int] /\ pc[t] = "apply" /\ doc' = doc
  BY AfterType DEF UpsertAndLog, TypeOK, Command
<1>2. PICK c \in Cells, n \in Int : c = cmd[t].cell /\ n = AfterQty(t) - before[t]
  BY <1>1
<1>3. moved'[t] = [moved[t] EXCEPT ![c] = @ + n]
  BY <1>2 DEF UpsertAndLog, TypeOK
<1>4. SumFunctionOnSet(moved'[t], Cells) = SumFunctionOnSet(moved[t], Cells) + n
      /\ SumFunctionOnSet(moved[t], Cells) \in Int
  <2>1. PICK f, e : f = moved[t] /\ e = moved'[t]
    OBVIOUS
  <2>2. /\ \A x \in Cells : f[x] \in Int
        /\ e[c] \in Int /\ e[c] = f[c] + n /\ \A x \in Cells \ {c} : e[x] = f[x]
    BY <1>1, <1>3, <2>1
  <2>3. SumFunctionOnSet(e, Cells) = SumFunctionOnSet(f, Cells) - f[c] + e[c] /\ SumFunctionOnSet(f, Cells) \in Int
    BY <2>2, SumUpdate, SumInt
  <2> QED
    BY <2>1, <2>2, <2>3
<1>5. CASE cmd[t].op = "issue" /\ cmd[t].to # None
  <2>1. n = 0 - cmd[t].n
    BY <1>1, <1>2, <1>5 DEF AfterQty
  <2>2. pc'[t] = "read" /\ cmd'[t].op = "receive" /\ cmd'[t].n = cmd[t].n /\ cmd'[t].to = None
    BY <1>5 DEF UpsertAndLog, Return, TypeOK
  <2>3. SumFunctionOnSet(moved[t], Cells) = 0
    BY <1>1, <1>4, <1>5 DEF Balanced, Pending
  <2> QED
    BY <1>1, <1>4, <2>1, <2>2, <2>3 DEF Balanced, Pending
<1>6. CASE cmd[t].op = "receive" /\ cmd[t].to = None
  <2>1. n = cmd[t].n
    BY <1>1, <1>2, <1>6 DEF AfterQty
  <2>2. pc'[t] = "open"
    BY <1>6 DEF UpsertAndLog, Return, TypeOK
  <2>3. SumFunctionOnSet(moved[t], Cells) + cmd[t].n = 0
    BY <1>1, <1>6 DEF Balanced, Pending
  <2> QED
    BY <1>1, <1>4, <2>1, <2>2, <2>3 DEF Balanced, Pending
<1> QED
  BY <1>1, <1>5, <1>6 DEF Balanced

\* Every step keeps the balance of every transaction.
LEMMA StepBalanced ==
    ASSUME IsFiniteSet(Cells), TypeOK, \A t \in Txns : Balanced(t), [Next]_vars
    PROVE  \A t \in Txns : Balanced(t)'
<1>1. ASSUME NEW t \in Txns, Call(t) PROVE \A s \in Txns : Balanced(s)'
  <2>1. \A s \in Txns : s # t => pc'[s] = pc[s] /\ cmd'[s] = cmd[s] /\ doc'[s] = doc[s] /\ moved'[s] = moved[s]
    BY <1>1 DEF Call, TypeOK, local
  <2> QED
    BY <1>1, <2>1, CallBalanced, BalancedSame
<1>2. ASSUME NEW t \in Txns, ReadQty(t) PROVE \A s \in Txns : Balanced(s)'
  <2>1. UNCHANGED <<cmd, doc, moved>>
    BY <1>2 DEF ReadQty, local
  <2>2. pc[t] = "read" /\ pc'[t] = "apply" /\ \A s \in Txns : s # t => pc'[s] = pc[s]
    BY <1>2 DEF ReadQty, TypeOK
  <2>3. Balanced(t)'
    BY <2>1, <2>2 DEF Balanced, Pending
  <2> QED
    BY <2>1, <2>2, <2>3, BalancedSame
<1>3. ASSUME NEW t \in Txns, End(t) PROVE \A s \in Txns : Balanced(s)'
  <2>1. /\ pc'[t] = "done"
        /\ \A s \in Txns : s # t => pc'[s] = pc[s] /\ cmd'[s] = cmd[s] /\ doc'[s] = doc[s] /\ moved'[s] = moved[s]
    BY <1>3 DEF End, TypeOK
  <2>2. Balanced(t)'
    BY <2>1 DEF Balanced
  <2> QED
    BY <2>1, <2>2, BalancedSame
<1>4. ASSUME NEW t \in Txns, SkipAdjust(t) PROVE \A s \in Txns : Balanced(s)'
  <2>1. cmd[t].op = "adjust" /\ pc[t] = "apply" /\ doc' = doc /\ moved' = moved
    BY <1>4 DEF SkipAdjust, Unchanged, local
  <2>2. doc[t] # "transfer"
    BY <2>1 DEF Balanced
  <2>3. /\ pc'[t] # "idle"
        /\ \A s \in Txns : s # t => pc'[s] = pc[s] /\ cmd'[s] = cmd[s]
    BY <1>4 DEF SkipAdjust, Return, TypeOK
  <2>4. Balanced(t)'
    BY <2>1, <2>2, <2>3 DEF Balanced
  <2> QED
    BY <2>1, <2>3, <2>4, BalancedSame
<1>5. ASSUME NEW t \in Txns, UpsertAndLog(t) PROVE \A s \in Txns : Balanced(s)'
  <2>1. \A s \in Txns : s # t => pc'[s] = pc[s] /\ cmd'[s] = cmd[s] /\ doc'[s] = doc[s] /\ moved'[s] = moved[s]
    BY <1>5 DEF UpsertAndLog, Return, TypeOK
  <2> QED
    BY <1>5, <2>1, UpsertBalanced, BalancedSame
<1>6. CASE UNCHANGED vars \/ AllEnded
  BY <1>6, BalancedSame DEF vars, AllEnded
<1> QED
  BY <1>1, <1>2, <1>3, <1>4, <1>5, <1>6 DEF Next, Post, Refuse, Rollback, DeadlockVictim, Commit

\* In a Prepared ledger of finitely many cells a transfer, whatever runs at
\* the same time, leaves the total of all cells as it was.
THEOREM TransferConservesHolds == IsFiniteSet(Cells) /\ Prepared /\ Spec => TransferConserves
<1> SUFFICES ASSUME IsFiniteSet(Cells) PROVE Prepared /\ Spec => TransferConserves
  OBVIOUS
<1> DEFINE Even == \A t \in Txns : Balanced(t)
<1>1. Init => Even
  BY DEF Init, Balanced
<1>2. TypeOK /\ Even /\ [Next]_vars => Even'
  BY StepBalanced
<1>3. ASSUME IInv, Even, [Next]_vars,
             \E t \in Txns : doc[t] = "transfer" /\ pc[t] # "done" /\ pc'[t] = "done"
      PROVE  SumFunctionOnSet(qty', Cells) = SumFunctionOnSet(qty, Cells)
  <2>1. PICK t \in Txns : doc[t] = "transfer" /\ pc[t] # "done" /\ pc'[t] = "done"
    BY <1>3
  <2>2. CASE Commit(t)
    <3>1. pc[t] = "open" /\ SumFunctionOnSet(moved[t], Cells) + 0 = 0
      BY <1>3, <2>1, <2>2 DEF Commit, Balanced, Pending
    <3>2. PICK f, e, g : f = qty /\ e = moved[t] /\ g = qty'
      OBVIOUS
    <3>3. \A c \in Cells : f[c] \in Int /\ e[c] \in Int /\ g[c] = f[c] + e[c]
      BY <1>3, <2>2, <3>2 DEF Commit, IInv, Exclusive, TypeOK
    <3>4. /\ SumFunctionOnSet(g, Cells) = SumFunctionOnSet(f, Cells) + SumFunctionOnSet(e, Cells)
          /\ SumFunctionOnSet(f, Cells) \in Int /\ SumFunctionOnSet(e, Cells) \in Int
      BY <3>3, SumPlus, SumInt
    <3> QED
      BY <3>1, <3>2, <3>4
  <2>3. CASE ~Commit(t)
    <3>1. ASSUME NEW s \in Txns, Commit(s) PROVE FALSE
      BY <1>3, <2>1, <2>3, <3>1 DEF Commit, End, IInv, TypeOK
    <3>2. qty' = qty
      BY <1>3, <3>1 DEF Next, Post, Call, ReadQty, Refuse, SkipAdjust, UpsertAndLog, Rollback,
                  DeadlockVictim, AllEnded, vars, tables
    <3> QED
      BY <3>2
  <2> QED
    BY <2>2, <2>3
<1>4. IInv => TypeOK
  BY DEF IInv
<1> QED
  BY <1>1, <1>2, <1>3, <1>4, LedgerInvariant, PTL DEF Spec, TransferConserves

-----------------------------------------------------------------------------
(***************************************************************************)
(* Overdrafts, with or without rows beforehand.  What a document other     *)
(* than a negative issue has read or written is covered: not negative, or  *)
(* at least what the row, locked since, holds.                             *)
(***************************************************************************)
Covered(t, c, v) == v >= 0 \/ (c \in present /\ lock[c] = t /\ v >= qty[c])

Orderly(t) ==
    /\ cmd[t].op # "force_issue"
    /\ cmd[t].op \in {"receive", "issue"} => cmd[t].n > 0
    /\ cmd[t].op = "adjust" => cmd[t].n >= 0
    /\ cmd[t].to # None => cmd[t].op = "issue"

Solvent ==
    /\ \A t \in Txns : pc[t] = "idle" => wrote[t] = {}
    /\ \A t \in Txns : \A c \in wrote[t] : lock[c] = t
    /\ \A t \in Txns : doc[t] # "force_issue" => \A c \in wrote[t] : Covered(t, c, seen[t][c])
    /\ \A t \in Txns : doc[t] # "force_issue" /\ pc[t] \in {"read", "apply"} => Orderly(t)
    /\ \A t \in Txns : doc[t] # "force_issue" /\ pc[t] = "apply" => Covered(t, cmd[t].cell, before[t])

\* The end of a transaction, committed or not.
LEMMA EndSolvent ==
    ASSUME TypeOK, TypeOK', Solvent, NEW t \in Txns, End(t), present \subseteq present',
           \A c \in Cells : c \notin wrote[t] => qty'[c] = qty[c]
    PROVE  Solvent'
<1>1. \A s \in Txns : s # t => /\ pc'[s] = pc[s] /\ cmd'[s] = cmd[s] /\ before'[s] = before[s]
                               /\ wrote'[s] = wrote[s] /\ seen'[s] = seen[s] /\ doc'[s] = doc[s]
  BY DEF TypeOK, End
<1>2. pc'[t] = "done" /\ wrote'[t] = {}
  BY DEF TypeOK, End
<1>3. \A s \in Txns, c \in Cells : s # t /\ lock[c] = s => lock'[c] = s /\ qty'[c] = qty[c]
  BY DEF TypeOK, End, Solvent
<1>4. ASSUME NEW s \in Txns, NEW c \in wrote'[s] PROVE lock'[c] = s
  BY <1>1, <1>2, <1>3, <1>4 DEF Solvent, TypeOK
<1>5. ASSUME NEW s \in Txns, doc'[s] # "force_issue", NEW c \in wrote'[s]
      PROVE  Covered(s, c, seen[s][c])'
  <2>1. s # t /\ c \in wrote[s] /\ c \in Cells /\ seen[s][c] \in Int /\ seen'[s] = seen[s]
    BY <1>1, <1>2, <1>5 DEF TypeOK
  <2>2. Covered(s, c, seen[s][c])
    BY <1>1, <1>5, <2>1 DEF Solvent
  <2>3. QED
    BY <1>3, <2>1, <2>2 DEF Covered
<1>6. ASSUME NEW s \in Txns, doc'[s] # "force_issue", pc'[s] \in {"read", "apply"}
      PROVE  Orderly(s)'
  BY <1>1, <1>2, <1>6 DEF Solvent, Orderly
<1>7. ASSUME NEW s \in Txns, doc'[s] # "force_issue", pc'[s] = "apply"
      PROVE  Covered(s, cmd[s].cell, before[s])'
  <2>1. s # t /\ pc[s] = "apply" /\ cmd[s].cell \in Cells /\ doc[s] # "force_issue"
    BY <1>1, <1>2, <1>7 DEF TypeOK
  <2>2. Covered(s, cmd[s].cell, before[s]) /\ cmd'[s] = cmd[s] /\ before'[s] = before[s]
    BY <1>1, <2>1 DEF Solvent
  <2>3. QED
    BY <1>3, <2>1, <2>2 DEF Covered
<1>8. \A s \in Txns : pc'[s] = "idle" => wrote'[s] = {}
  BY <1>1, <1>2 DEF Solvent
<1>9. QED
  BY <1>4, <1>5, <1>6, <1>7, <1>8 DEF Solvent

\* Returning from an operation.
LEMMA ReturnOrderly ==
    ASSUME TypeOK, NEW t \in Txns, Return(t), Orderly(t), pc'[t] \in {"read", "apply"}
    PROVE  Orderly(t)'
<1>1. cmd[t].to # None /\ cmd[t].op = "issue"
  BY DEF Return, TypeOK, Orderly
<1>2. cmd'[t] = [op |-> "receive", cell |-> cmd[t].to, n |-> cmd[t].n, to |-> None]
  BY <1>1 DEF Return, TypeOK
<1>3. QED
  BY <1>1, <1>2 DEF Orderly

\* The lines of a document other than a negative issue have quantities above zero.
LEMMA CallOrderly ==
    ASSUME Positive, NEW d \in Doc, d # "force_issue", NEW l \in Lines(d)
    PROVE  /\ l.op # "force_issue"
           /\ l.op \in {"receive", "issue"} => l.n > 0
           /\ l.op = "adjust" => l.n >= 0
           /\ l.to # None => l.op = "issue"
BY DEF Positive, Doc, Lines

\* A write of anything but a negative issue does not overdraw its cell.
LEMMA UpsertSolvent ==
    ASSUME TypeOK, TypeOK', Solvent, NEW t \in Txns, UpsertAndLog(t)
    PROVE  Solvent'
<1> DEFINE c == cmd[t].cell
<1>1. c \in Cells /\ AfterQty(t) \in Int /\ before[t] \in Int /\ cmd[t].n \in Int /\ cmd[t].op \in Op
  BY AfterType DEF UpsertAndLog, TypeOK, Command
<1>2. /\ UNCHANGED <<qty, present, doc, before>>
      /\ lock' = [lock EXCEPT ![c] = t] /\ lock[c] \in {None, t}
      /\ wrote'[t] = wrote[t] \cup {c}
      /\ seen'[t] = [seen[t] EXCEPT ![c] = AfterQty(t)]
      /\ \A s \in Txns : s # t => wrote'[s] = wrote[s] /\ seen'[s] = seen[s]
  BY <1>1 DEF UpsertAndLog, TypeOK, tables, Free
<1>3. /\ Return(t) /\ pc'[t] \notin {"apply", "idle"}
      /\ \A s \in Txns : s # t => pc'[s] = pc[s] /\ cmd'[s] = cmd[s]
  BY DEF UpsertAndLog, Return, TypeOK
<1>4. lock'[c] = t /\ \A s \in Txns, d \in Cells : lock[d] = s => lock'[d] = s
  BY <1>1, <1>2 DEF TypeOK
<1>5. ASSUME NEW s \in Txns, NEW d \in wrote'[s] PROVE lock'[d] = s
  <2>1. d \in Cells /\ (d \in wrote[s] \/ (s = t /\ d = c))
    BY <1>2, <1>5 DEF TypeOK
  <2>2. d \in wrote[s] => lock[d] = s
    BY DEF Solvent
  <2>3. QED
    BY <1>4, <2>1, <2>2
<1>6. ASSUME doc[t] # "force_issue"
      PROVE  AfterQty(t) >= 0 \/ (c \in present' /\ lock'[c] = t /\ AfterQty(t) >= qty'[c])
  <2>1. Orderly(t) /\ Covered(t, c, before[t]) /\ pc[t] = "apply" /\ ~Insufficient(t)
    BY <1>6 DEF Solvent, UpsertAndLog
  <2>2. AfterQty(t) >= 0 \/ AfterQty(t) >= before[t]
    BY <1>1, <2>1 DEF AfterQty, Orderly, Insufficient, Op
  <2>3. qty[c] \in Int
    BY <1>1 DEF TypeOK
  <2> HIDE DEF c
  <2>4. QED
    BY <1>1, <1>2, <1>4, <2>1, <2>2, <2>3 DEF Covered
<1>7. ASSUME NEW s \in Txns, doc'[s] # "force_issue", NEW d \in wrote'[s]
      PROVE  Covered(s, d, seen[s][d])'
  <2>1. d \in Cells /\ doc'[s] = doc[s]
    BY <1>2, <1>7 DEF TypeOK
  <2>2. CASE s = t /\ d = c
    <3>1. seen'[s][d] = AfterQty(t)
      BY <1>1, <1>2, <2>2 DEF TypeOK
    <3>2. QED
      BY <1>6, <1>7, <2>1, <2>2, <3>1 DEF Covered
  <2>3. CASE ~(s = t /\ d = c)
    <3>1. d \in wrote[s] /\ seen'[s][d] = seen[s][d]
      BY <1>1, <1>2, <1>7, <2>3 DEF TypeOK
    <3>2. Covered(s, d, seen[s][d])
      BY <1>7, <2>1, <3>1 DEF Solvent
    <3>3. QED
      BY <1>2, <1>4, <2>1, <3>1, <3>2 DEF Covered
  <2>4. QED
    BY <2>2, <2>3
<1>8. ASSUME NEW s \in Txns, doc'[s] # "force_issue", pc'[s] \in {"read", "apply"}
      PROVE  Orderly(s)'
  <2>1. CASE s = t
    BY <1>2, <1>3, <1>8, <2>1, ReturnOrderly DEF Solvent, UpsertAndLog
  <2>2. CASE s # t
    BY <1>2, <1>3, <1>8, <2>2 DEF Solvent, Orderly
  <2>3. QED
    BY <2>1, <2>2
<1>9. ASSUME NEW s \in Txns, doc'[s] # "force_issue", pc'[s] = "apply"
      PROVE  Covered(s, cmd[s].cell, before[s])'
  <2>1. s # t /\ pc[s] = "apply" /\ cmd'[s] = cmd[s] /\ cmd[s].cell \in Cells /\ doc[s] # "force_issue"
    BY <1>2, <1>3, <1>9 DEF TypeOK
  <2>2. Covered(s, cmd[s].cell, before[s])
    BY <2>1 DEF Solvent
  <2>3. QED
    BY <1>2, <1>4, <2>1, <2>2 DEF Covered
<1>10. \A s \in Txns : pc'[s] = "idle" => wrote'[s] = {}
  BY <1>2, <1>3 DEF Solvent
<1>11. QED
  BY <1>5, <1>7, <1>8, <1>9, <1>10 DEF Solvent

\* Every step keeps pending writes covered.
LEMMA StepSolvent ==
    ASSUME Positive, TypeOK, TypeOK', Solvent, [Next]_vars
    PROVE  Solvent'
<1>1. ASSUME NEW t \in Txns, Call(t) PROVE Solvent'
  <2>0. PICK d \in Doc : /\ pc[t] = "open" => d = doc[t]
                         /\ doc' = [doc EXCEPT ![t] = d]
                         /\ \E l \in Lines(d) : cmd' = [cmd EXCEPT ![t] = l]
    BY <1>1 DEF Call
  <2>1. PICK l \in Lines(d) : cmd' = [cmd EXCEPT ![t] = l]
    BY <2>0
  <2>2. UNCHANGED <<qty, present, lock, before, wrote, seen>>
    BY <1>1 DEF Call, tables, local
  <2>3. /\ pc'[t] = "read" /\ cmd'[t] = l /\ doc'[t] = d
        /\ \A s \in Txns : s # t => pc'[s] = pc[s] /\ cmd'[s] = cmd[s] /\ doc'[s] = doc[s]
    BY <1>1, <2>0, <2>1 DEF Call, TypeOK
  <2>4. d # "force_issue" => Orderly(t)'
    BY <2>3, CallOrderly DEF Orderly
  <2>5. \A c \in wrote[t] : doc'[t] # "force_issue" => Covered(t, c, seen[t][c])
    BY <1>1, <2>0, <2>3 DEF Solvent, Call
  <2>6. QED
    BY <2>2, <2>3, <2>4, <2>5 DEF Solvent, Covered, Orderly
<1>2. ASSUME NEW t \in Txns, ReadQty(t) PROVE Solvent'
  <2>1. UNCHANGED <<qty, present, doc, cmd, wrote, seen>>
    BY <1>2 DEF ReadQty, tables, local
  <2>2. /\ cmd[t].cell \in Cells
        /\ cmd[t].cell \in present => lock'[cmd[t].cell] = t
        /\ \A c \in Cells, s \in Txns : lock[c] = s => lock'[c] = s
    BY <1>2 DEF ReadQty, TypeOK, Free
  <2>3. /\ before'[t] = Visible(t, cmd[t].cell) /\ pc[t] = "read"
        /\ \A s \in Txns : s # t => pc'[s] = pc[s] /\ before'[s] = before[s]
    BY <1>2 DEF ReadQty, TypeOK
  <2>4. doc[t] # "force_issue" => Covered(t, cmd[t].cell, before[t])'
    BY <2>1, <2>2, <2>3 DEF Visible, Covered, Solvent, TypeOK
  <2>5. ASSUME NEW s \in Txns, doc'[s] # "force_issue", pc'[s] = "apply"
        PROVE  Covered(s, cmd[s].cell, before[s])'
    <3>1. CASE s = t
      BY <2>1, <2>4, <2>5, <3>1
    <3>2. CASE s # t
      BY <2>1, <2>2, <2>3, <2>5, <3>2 DEF Solvent, Covered, TypeOK
    <3>3. QED
      BY <3>1, <3>2
  <2>6. /\ \A s \in Txns : \A c \in wrote'[s] : lock'[c] = s
        /\ \A s \in Txns : doc'[s] # "force_issue" => \A c \in wrote'[s] : Covered(s, c, seen[s][c])'
    BY <2>1, <2>2 DEF Solvent, Covered, TypeOK
  <2>7. /\ \A s \in Txns : doc'[s] # "force_issue" /\ pc'[s] \in {"read", "apply"} => Orderly(s)'
        /\ \A s \in Txns : pc'[s] = "idle" => wrote'[s] = {}
    BY <1>2, <2>1, <2>3 DEF Solvent, Orderly, ReadQty, TypeOK
  <2>8. QED
    BY <2>5, <2>6, <2>7 DEF Solvent
<1>3. ASSUME NEW t \in Txns, Refuse(t) \/ Rollback(t) \/ DeadlockVictim(t) PROVE Solvent'
  <2>1. End(t) /\ UNCHANGED <<qty, present, flow>>
    BY <1>3 DEF Refuse, Rollback, DeadlockVictim, tables
  <2>2. QED
    BY <2>1, EndSolvent
<1>4. ASSUME NEW t \in Txns, SkipAdjust(t) PROVE Solvent'
  <2>1. UNCHANGED <<qty, present, lock, doc, before, wrote, seen>> /\ pc[t] = "apply" /\ Return(t)
    BY <1>4 DEF SkipAdjust, tables, local
  <2>2. /\ pc'[t] \notin {"apply", "idle"}
        /\ \A s \in Txns : s # t => pc'[s] = pc[s] /\ cmd'[s] = cmd[s]
    BY <1>4 DEF SkipAdjust, Return, TypeOK
  <2>3. doc[t] # "force_issue" /\ pc'[t] \in {"read", "apply"} => Orderly(t)'
    BY <2>1, ReturnOrderly DEF Solvent
  <2>4. QED
    BY <2>1, <2>2, <2>3 DEF Solvent, Covered, Orderly
<1>5. ASSUME NEW t \in Txns, Commit(t) PROVE Solvent'
  <2>1. End(t) /\ present \subseteq present' /\ \A c \in Cells : c \notin wrote[t] => qty'[c] = qty[c]
    BY <1>5 DEF Commit
  <2>2. QED
    BY <2>1, EndSolvent
<1>6. CASE UNCHANGED vars \/ AllEnded
  BY <1>6 DEF vars, AllEnded, Solvent, Covered, Orderly
<1>7. QED
  BY <1>1, <1>2, <1>3, <1>4, <1>5, <1>6, UpsertSolvent DEF Next, Post

\* With positive quantities only a negative issue takes a cell below zero,
\* for any number of concurrent documents and whether rows exist or not.
THEOREM OnlyForceOverdrawsHolds == Positive /\ Spec => OnlyForceOverdraws
<1> SUFFICES ASSUME Positive PROVE Spec => OnlyForceOverdraws
  OBVIOUS
<1>1. Init => Solvent
  BY DEF Init, Solvent
<1>2. TypeOK /\ TypeOK' /\ Solvent /\ [Next]_vars => Solvent'
  BY StepSolvent
<1>3. ASSUME TypeOK, Solvent, [Next]_vars
      PROVE  \A c \in Cells : qty'[c] < 0 /\ qty'[c] < qty[c] =>
                \E t \in Txns : doc[t] = "force_issue" /\ pc[t] = "open" /\ pc'[t] = "done"
  <2>1. ASSUME NEW t \in Txns, Commit(t), NEW c \in Cells, qty'[c] < 0, qty'[c] < qty[c]
        PROVE  doc[t] = "force_issue" /\ pc[t] = "open" /\ pc'[t] = "done"
    <3>1. qty'[c] = IF c \in wrote[t] THEN seen[t][c] ELSE qty[c]
      BY <2>1 DEF Commit
    <3>2. c \in wrote[t] /\ qty'[c] = seen[t][c] /\ qty[c] \in Int /\ seen[t][c] \in Int
      BY <1>3, <2>1, <3>1 DEF TypeOK
    <3>3. ~Covered(t, c, seen[t][c])
      BY <2>1, <3>2 DEF Covered
    <3>4. pc[t] = "open" /\ pc'[t] = "done"
      BY <1>3, <2>1 DEF Commit, End, TypeOK
    <3>5. QED
      BY <1>3, <3>2, <3>3, <3>4 DEF Solvent
  <2>2. (\E t \in Txns : Commit(t)) \/ qty' = qty
    BY <1>3 DEF Next, Post, Call, ReadQty, Refuse, SkipAdjust, UpsertAndLog, Rollback,
                DeadlockVictim, AllEnded, vars, tables
  <2>3. QED
    BY <1>3, <2>1, <2>2 DEF TypeOK
<1>4. QED
  BY <1>1, <1>2, <1>3, LedgerTypeCorrect, PTL DEF Spec, OnlyForceOverdraws

-----------------------------------------------------------------------------
(***************************************************************************)
(* Costing.                                                                *)
(***************************************************************************)
Priced(b) == Cost(b)!CostAssumption

\* The rows of item_costs are numbered.
HasRows(table, n) ==
    /\ DOMAIN table = 1..n
    /\ \A k \in 1..n : \E v : \E c \in BOOLEAN : table[k] = [unit |-> v, current |-> c]

Numbered(table) == \E n \in Nat : HasRows(table, n)

\* t is table with the rows ids flipped and a current one for u.
Recosts(b, table, ids, u, t) == t = Cost(b)!Insert(Cost(b)!Flip(table, ids), u)

OneMore(n, table, ids, u, t) ==
    /\ DOMAIN t = 1..(n + 1) /\ t[n + 1] = [unit |-> u, current |-> TRUE]
    /\ \A k \in 1..n : t[k] = [unit |-> table[k].unit, current |-> table[k].current /\ k \notin ids]
    /\ HasRows(t, n + 1)

\* A new row: those before it keep their unit cost, and are current unless
\* they are flipped.
LEMMA NewCost ==
    ASSUME NEW CONSTANT b, NEW n \in Nat, NEW table, HasRows(table, n),
           NEW ids, NEW u, NEW t, Recosts(b, table, ids, u, t)
    PROVE  OneMore(n, table, ids, u, t)
<1>1. PICK f : f = Cost(b)!Flip(table, ids)
  OBVIOUS
<1>2. DOMAIN f = 1..n /\ \A k \in 1..n :
        f[k] = IF k \in ids THEN [table[k] EXCEPT !.current = FALSE] ELSE table[k]
  BY <1>1 DEF Cost!Flip, HasRows
<1>3. \A k \in 1..n : f[k] = [unit |-> table[k].unit, current |-> table[k].current /\ k \notin ids]
  <2>1. TAKE k \in 1..n
  <2>2. PICK v, c : c \in BOOLEAN /\ table[k] = [unit |-> v, current |-> c]
    BY DEF HasRows
  <2>3. CASE k \in ids
    BY <1>2, <2>2, <2>3
  <2>4. CASE k \notin ids
    BY <1>2, <2>2, <2>4
  <2> QED
    BY <2>3, <2>4
<1>4. Cost(b)!Cardinality(DOMAIN f) = n
  <2>1. 1 \in Int /\ n \in Int
    OBVIOUS
  <2>2. Cardinality(1..n) = n
    BY <2>1, FS_Interval
  <2> QED
    BY <1>2, <2>2 DEF Cost!Cardinality, Cardinality
<1>5. t = [k \in 1..(n + 1) |-> IF k \in 1..n THEN f[k] ELSE [unit |-> u, current |-> TRUE]]
  BY <1>1, <1>2, <1>4 DEF Recosts, Cost!Insert
<1>6. n + 1 \in Nat /\ n + 1 \notin 1..n /\ n + 1 \in 1..(n + 1) /\ \A k \in 1..n : k \in 1..(n + 1)
  OBVIOUS
<1>7. /\ DOMAIN t = 1..(n + 1) /\ t[n + 1] = [unit |-> u, current |-> TRUE]
      /\ \A k \in 1..n : t[k] = f[k]
  BY <1>5, <1>6
<1>8. \A k \in 1..(n + 1) : k \in 1..n \/ k = n + 1
  OBVIOUS
<1>9. \A k \in 1..(n + 1) : \E v : \E c \in BOOLEAN : t[k] = [unit |-> v, current |-> c]
  <2>1. TAKE k \in 1..(n + 1)
  <2>2. CASE k = n + 1
    BY <1>7, <2>2
  <2>3. CASE k \in 1..n
    BY <1>3, <1>7, <2>3
  <2> QED
    BY <1>8, <2>2, <2>3
<1> QED
  BY <1>3, <1>6, <1>7, <1>9 DEF HasRows, OneMore

-----------------------------------------------------------------------------
(* One warehouse, and no costs by hand: its row lock orders the receipts.  *)

Working(t) == t.step \in {"received", "costed", "summed"}
Newest(n) == \A k \in 1..n : costs[k].current <=> k = n

OneInv(b) ==
    /\ Numbered(costs)
    /\ \A n \in Nat : DOMAIN costs = 1..n =>
         /\ Newest(n)
         /\ \A w \in Workers : txn[w].step \in {"costed", "summed"} => txn[w].id = n
    /\ txn = [w \in Workers |-> txn[w]]
    /\ \A w \in Workers : Working(txn[w]) => txn[w].warehouse \in b.warehouses
    /\ \A w \in Workers : txn[w] = [step |-> "idle"] \/ Working(txn[w])
    /\ \A v, w \in Workers : Working(txn[v]) /\ Working(txn[w]) => v = w

\* The transaction of a worker goes on, with its warehouse and the newest cost.
LEMMA OneGoesOn ==
    ASSUME NEW CONSTANT b, OneInv(b), NEW w \in Workers, Working(txn[w]), costs' = costs, NEW t,
           txn' = [txn EXCEPT ![w] = t], Working(t), t.warehouse = txn[w].warehouse,
           t.step \in {"costed", "summed"} => \A n \in Nat : DOMAIN costs = 1..n => t.id = n
    PROVE  OneInv(b)'
<1>1. txn'[w] = t /\ (\A v \in Workers \ {w} : txn'[v] = txn[v]) /\ txn' = [v \in Workers |-> txn'[v]]
  BY DEF OneInv
<1> QED
  BY <1>1 DEF OneInv, Newest, Working

\* The transaction of a worker ends, and the newest cost alone is current.
LEMMA OneEnds ==
    ASSUME NEW CONSTANT b, OneInv(b), NEW w \in Workers, txn' = [txn EXCEPT ![w] = [step |-> "idle"]],
           \/ costs' = costs
           \/ Working(txn[w]) /\ Numbered(costs') /\ \A n \in Nat : DOMAIN costs' = 1..n => Newest(n)'
    PROVE  OneInv(b)'
<1>1. /\ txn'[w] = [step |-> "idle"] /\ (\A v \in Workers \ {w} : txn'[v] = txn[v])
      /\ txn' = [v \in Workers |-> txn'[v]] /\ ~Working(txn'[w])
  BY DEF OneInv, Working
<1>2. \A v \in Workers : Working(txn'[v]) => v # w /\ Working(txn[v])
  BY <1>1
<1>3. CASE costs' = costs
  BY <1>1, <1>2, <1>3 DEF OneInv, Newest, Working
<1>4. CASE Working(txn[w]) /\ Numbered(costs') /\ \A n \in Nat : DOMAIN costs' = 1..n => Newest(n)'
  <2>1. \A v \in Workers : ~Working(txn'[v])
    BY <1>1, <1>2, <1>4 DEF OneInv
  <2> QED
    BY <1>1, <1>4, <2>1 DEF OneInv, Working
<1> QED
  BY <1>3, <1>4

\* Every step keeps the newest cost the current one.
LEMMA OneStep ==
    ASSUME NEW CONSTANT b, Priced(b), ~b.manual, \A g, h \in b.warehouses : g = h,
           OneInv(b), [Cost(b)!Next]_(Cost(b)!vars)
    PROVE  OneInv(b)'
<1>1. PICK n \in Nat : HasRows(costs, n) /\ DOMAIN costs = 1..n
  BY DEF OneInv, Numbered, HasRows
<1>2. \A m \in Nat : DOMAIN costs = 1..m => m = n
  BY <1>1
<1>3. Newest(n) /\ \A w \in Workers : txn[w].step \in {"costed", "summed"} => txn[w].id = n
  BY <1>1 DEF OneInv
<1>4. ASSUME NEW w \in Workers, Cost(b)!Receive(w) PROVE OneInv(b)'
  <2>1. PICK h \in b.warehouses, q \in b.receipts, p \in b.prices :
          /\ Cost(b)!Free(h)
          /\ txn' = [txn EXCEPT ![w] = [step |-> "received", warehouse |-> h, n |-> q, price |-> p]]
    BY <1>4 DEF Cost!Receive
  <2>2. \A v \in Workers : ~Working(txn[v])
    BY <2>1 DEF OneInv, Cost!Free, Working
  <2>3. costs' = costs
    BY <1>4 DEF Cost!Receive
  <2>4. /\ txn'[w] = [step |-> "received", warehouse |-> h, n |-> q, price |-> p]
        /\ (\A v \in Workers \ {w} : txn'[v] = txn[v]) /\ txn' = [v \in Workers |-> txn'[v]]
    BY <2>1 DEF OneInv
  <2> QED
    BY <1>3, <2>2, <2>3, <2>4 DEF OneInv, Newest, Working
<1>5. ASSUME NEW w \in Workers, Cost(b)!ReadCost(w) PROVE OneInv(b)'
  <2>1. Working(txn[w]) /\ costs' = costs
    BY <1>5 DEF Cost!ReadCost, Working
  <2>2. PICK k \in IF Cost(b)!Current = {} THEN {0} ELSE Cost(b)!Current :
         txn' = [txn EXCEPT ![w] = [step |-> "costed", warehouse |-> txn[w].warehouse,
                  n |-> txn[w].n, price |-> txn[w].price,
                  id |-> k, unit |-> IF k = 0 THEN 0 ELSE costs[k].unit]]
    BY <1>5 DEF Cost!ReadCost
  <2>3. Cost(b)!Current = {j \in 1..n : j = n}
    BY <1>1, <1>3 DEF Cost!Current, Cost!Ids, Newest
  <2>4. k = n
    BY <2>2, <2>3
  <2> DEFINE t == [step |-> "costed", warehouse |-> txn[w].warehouse,
                  n |-> txn[w].n, price |-> txn[w].price,
                  id |-> k, unit |-> IF k = 0 THEN 0 ELSE costs[k].unit]
  <2>5. Working(t) /\ t.warehouse = txn[w].warehouse /\ t.id = n
    BY <2>4 DEF Working
  <2>6. \A m \in Nat : DOMAIN costs = 1..m => t.id = m
    BY <1>2, <2>5
  <2>7. txn' = [txn EXCEPT ![w] = t]
    BY <2>2
  <2> HIDE DEF t
  <2> QED
    BY <2>1, <2>5, <2>6, <2>7, OneGoesOn
<1>6. ASSUME NEW w \in Workers, Cost(b)!ReadStock(w) PROVE OneInv(b)'
  <2>1. Working(txn[w]) /\ costs' = costs /\ txn[w].step = "costed"
    BY <1>6 DEF Cost!ReadStock, Working
  <2>2. PICK o : txn' = [txn EXCEPT ![w] = [step |-> "summed", warehouse |-> txn[w].warehouse,
         n |-> txn[w].n, price |-> txn[w].price, id |-> txn[w].id, unit |-> txn[w].unit, old |-> o]]
    BY <1>6 DEF Cost!ReadStock
  <2> DEFINE t == [step |-> "summed", warehouse |-> txn[w].warehouse,
         n |-> txn[w].n, price |-> txn[w].price, id |-> txn[w].id, unit |-> txn[w].unit, old |-> o]
  <2>3. Working(t) /\ t.warehouse = txn[w].warehouse /\ t.id = n
    BY <1>3, <2>1 DEF Working
  <2>4. \A m \in Nat : DOMAIN costs = 1..m => t.id = m
    BY <1>2, <2>3
  <2>5. txn' = [txn EXCEPT ![w] = t]
    BY <2>2
  <2> HIDE DEF t
  <2> QED
    BY <2>1, <2>3, <2>4, <2>5, OneGoesOn
<1>7. ASSUME NEW w \in Workers, Cost(b)!CommitReceipt(w) PROVE OneInv(b)'
  <2>1. Working(txn[w]) /\ txn[w].id = n /\ txn' = [txn EXCEPT ![w] = [step |-> "idle"]]
    BY <1>3, <1>7 DEF Cost!CommitReceipt, Working, Cost!Idle
  <2>2. PICK u, ids : ids = {n} /\ Recosts(b, costs, ids, u, costs')
    BY <1>7, <2>1 DEF Cost!CommitReceipt, Recosts
  <2>3. PICK t : Recosts(b, costs, ids, u, t) /\ t = costs'
    BY <2>2
  <2>4. OneMore(n, costs, ids, u, t)
    BY <1>1, <2>3, NewCost
  <2>5. \A k \in 1..n : ~t[k].current
    <3>1. TAKE k \in 1..n
    <3>2. (costs[k].current /\ k \notin ids) = FALSE
      BY <1>3, <2>2 DEF Newest
    <3>3. t[k] = [unit |-> costs[k].unit, current |-> FALSE]
      BY <2>4, <3>2 DEF OneMore
    <3> QED
      BY <3>3
  <2>6. \A m \in Nat : DOMAIN t = 1..m => m = n + 1
    BY <2>4 DEF OneMore
  <2>7. \A k \in 1..(n + 1) : t[k].current <=> k = n + 1
    <3>1. \A k \in 1..(n + 1) : k \in 1..n \/ k = n + 1
      OBVIOUS
    <3>2. \A k \in 1..n : k # n + 1
      OBVIOUS
    <3>3. t[n + 1].current
      BY <2>4 DEF OneMore
    <3> QED
      BY <2>5, <3>1, <3>2, <3>3, Zenon
  <2>8. \A m \in Nat : DOMAIN costs' = 1..m => Newest(m)'
    BY <2>3, <2>6, <2>7 DEF Newest
  <2> QED
    <3>1. n + 1 \in Nat
      OBVIOUS
    <3>2. Numbered(costs')
      BY <2>3, <2>4, <3>1 DEF Numbered, OneMore
    <3> QED
      BY <2>1, <2>8, <3>2, OneEnds
<1>8. ASSUME NEW w \in Workers, Cost(b)!Rollback(w) PROVE OneInv(b)'
  BY <1>8, OneEnds DEF Cost!Rollback, Cost!Idle
<1>9. ASSUME NEW h \in b.warehouses, Cost(b)!Issue(h) PROVE OneInv(b)'
  <2>1. costs' = costs /\ txn' = txn
    BY <1>9 DEF Cost!Issue
  <2> QED
    BY <2>1 DEF OneInv, Newest
<1>10. ASSUME NEW w \in Workers, Cost(b)!StartCost(w) PROVE FALSE
  BY <1>10 DEF Cost!StartCost
<1>11. ASSUME NEW w \in Workers, Cost(b)!CommitCost(w) PROVE FALSE
  BY <1>11 DEF Cost!CommitCost, OneInv, Working
<1>12. CASE UNCHANGED Cost(b)!vars
  BY <1>12 DEF Cost!vars, OneInv, Newest
<1> QED
  BY <1>4, <1>5, <1>6, <1>7, <1>8, <1>9, <1>10, <1>11, <1>12 DEF Cost!Next, Cost!Read

\* The invariant holds at the start: there is no cost.
LEMMA OneInit == ASSUME NEW CONSTANT b, Cost(b)!Init PROVE OneInv(b)
<1>1. costs = <<>> /\ DOMAIN costs = 1..0 /\ txn = [w \in Workers |-> [step |-> "idle"]]
  BY DEF Cost!Init, Cost!Idle
<1>2. \A n \in Nat : DOMAIN costs = 1..n => n = 0
  BY <1>1
<1> QED
  BY <1>1, <1>2 DEF OneInv, Numbered, HasRows, Newest, Working

\* The newest cost is the only current one.
LEMMA OneIsCurrent == ASSUME NEW CONSTANT b, OneInv(b) PROVE Cost(b)!OneCurrent
<1>1. PICK n \in Nat : DOMAIN costs = 1..n /\ Newest(n)
  BY DEF OneInv, Numbered, HasRows
<1>2. Cost(b)!Ids = 1..n /\ Cost(b)!Current = {j \in 1..n : j = n}
  BY <1>1 DEF Cost!Current, Cost!Ids, Newest
<1>3. \A S : Cost(b)!Cardinality(S) = Cardinality(S)
  BY DEF Cost!Cardinality, Cardinality
<1>4. CASE n = 0
  <2>1. Cost(b)!Ids = {} /\ Cost(b)!Current = {}
    BY <1>2, <1>4
  <2>2. Cardinality({}) = 0
    BY FS_EmptySet
  <2> QED
    BY <1>3, <2>1, <2>2 DEF Cost!OneCurrent
<1>5. CASE n # 0
  <2>1. Cost(b)!Current = {n}
    BY <1>2, <1>5
  <2>2. Cardinality({n}) = 1
    BY FS_Singleton
  <2> QED
    BY <1>3, <2>1, <2>2 DEF Cost!OneCurrent
<1> QED
  BY <1>4, <1>5

-----------------------------------------------------------------------------
(* Costs by hand and several warehouses: averages stay within the prices.  *)

Between(u, P) == (\E p \in P : p <= u) /\ (\E q \in P : u <= q)

\* The weighted mean of two costs is between them, rounded down or not.
LEMMA MeanBetween ==
    ASSUME NEW old \in Nat \ {0}, NEW n \in Nat, NEW u \in Nat, NEW q \in Nat,
           NEW m, m = (old * u + n * q) \div (old + n)
    PROVE  m \in Nat /\ (u <= m \/ q <= m) /\ (m <= u \/ m <= q)
<1>1. PICK s \in Nat : s = old * u + n * q
  OBVIOUS
<1>2. PICK d \in Nat \ {0} : d = old + n
  OBVIOUS
<1>3. m = s \div d
  BY <1>1, <1>2
<1>4. m \in Nat /\ d * m <= s /\ s < d * (m + 1)
  BY <1>3
<1>5. d * m = old * m + n * m /\ d * (m + 1) = old * (m + 1) + n * (m + 1)
  BY <1>2, <1>4
<1>6. u <= m \/ q <= m
  <2>1. SUFFICES ASSUME m + 1 <= u, m + 1 <= q PROVE FALSE
    BY <1>4
  <2>2. old * (m + 1) <= old * u /\ n * (m + 1) <= n * q
    BY <1>4, <2>1
  <2>3. old * u \in Nat /\ n * q \in Nat /\ old * (m + 1) \in Nat /\ n * (m + 1) \in Nat
    BY <1>4
  <2> QED
    BY <1>1, <1>4, <1>5, <2>2, <2>3
<1>7. m <= u \/ m <= q
  <2>1. SUFFICES ASSUME u + 1 <= m, q + 1 <= m PROVE FALSE
    BY <1>4
  <2>2. old * (u + 1) <= old * m /\ n * q <= n * m
    BY <1>4, <2>1
  <2>3. old * (u + 1) = old * u + old
    OBVIOUS
  <2>4. old * u \in Nat /\ n * q \in Nat /\ old * m \in Nat /\ n * m \in Nat
    BY <1>4
  <2> QED
    BY <1>1, <1>4, <1>5, <2>2, <2>3, <2>4
<1> QED
  BY <1>4, <1>6, <1>7

\* A finite set of numbers has a greatest one.
LEMMA GreatestNat ==
    ASSUME NEW P \in SUBSET Nat, IsFiniteSet(P), P # {}
    PROVE  \E m \in P : \A p \in P : p <= m
<1> DEFINE B == {s \in SUBSET P : s # {} /\ ~\E m \in s : \A p \in s : p <= m}
<1>1. SUFFICES ASSUME B # {} PROVE FALSE
  OBVIOUS
<1>2. PICK s \in B : \A u \in B : Cardinality(s) <= Cardinality(u)
  <2>1. B \in SUBSET (SUBSET P)
    OBVIOUS
  <2> HIDE DEF B
  <2> QED
    BY <1>1, <2>1, SmallestSubset
<1>3. /\ Chosen(s) \in s /\ s \ {Chosen(s)} \in SUBSET P /\ Cardinality(s) \in Nat \ {0}
      /\ Cardinality(s \ {Chosen(s)}) = Cardinality(s) - 1
  <2>1. s \in SUBSET P /\ s # {}
    BY <1>2
  <2> QED
    BY <2>1, ChosenLess
<1>4. PICK c, t : c = Chosen(s) /\ t = s \ {c}
  OBVIOUS
<1>5. c \in s /\ t \in SUBSET P /\ t \notin B /\ \A p \in s : p = c \/ p \in t
  BY <1>2, <1>3, <1>4
<1>6. CASE t = {}
  BY <1>2, <1>5, <1>6
<1>7. CASE t # {}
  <2>1. PICK m \in t : \A p \in t : p <= m
    BY <1>5, <1>7
  <2>2. m \in Nat /\ c \in Nat /\ m \in s /\ \A p \in t : p \in Nat
    BY <1>2, <1>4, <1>5, <2>1
  <2>3. CASE m <= c
    BY <1>2, <1>5, <2>1, <2>2, <2>3
  <2>4. CASE c <= m
    BY <1>2, <1>5, <2>1, <2>2, <2>4
  <2> QED
    BY <2>2, <2>3, <2>4
<1> QED
  BY <1>6, <1>7

\* What is known of a receipt in progress, of a cost entered by hand, and of
\* the costs.
Quotes(t, b) ==
    /\ t.warehouse \in b.warehouses /\ t.n \in Nat /\ t.price \in b.prices
    /\ t.step \in {"costed", "summed"} /\ t.id # 0 => t.unit \in Nat /\ Between(t.unit, b.prices)
    /\ t.step = "summed" => t.old \in Int

MeanInv(b) ==
    /\ Numbered(costs)
    /\ \A n \in Nat : DOMAIN costs = 1..n => \A k \in 1..n :
         costs[k].unit \in Nat /\ Between(costs[k].unit, b.prices) /\ (k = n => costs[k].current)
    /\ stock = [h \in b.warehouses |-> stock[h]] /\ \A h \in b.warehouses : stock[h] \in Int
    /\ txn = [w \in Workers |-> txn[w]]
    /\ \A w \in Workers : Working(txn[w]) => Quotes(txn[w], b)
    /\ \A w \in Workers : txn[w].step = "entered" => txn[w].price \in b.prices

\* The transaction of w starts or goes on, and the costs stay.
LEMMA MeanGoesOn ==
    ASSUME NEW CONSTANT b, MeanInv(b), NEW w \in Workers, costs' = costs, stock' = stock, NEW t,
           txn' = [txn EXCEPT ![w] = t], Working(t) => Quotes(t, b),
           t.step = "entered" => t.price \in b.prices
    PROVE  MeanInv(b)'
<1>1. txn'[w] = t /\ (\A v \in Workers \ {w} : txn'[v] = txn[v]) /\ txn' = [v \in Workers |-> txn'[v]]
  BY DEF MeanInv
<1> QED
  BY <1>1 DEF MeanInv, Quotes, Working

\* The stock stays, or receives; the costs stay, or there is a new one.
Restocked(b) == stock' = stock \/ \E h \in b.warehouses, q \in Nat : stock' = [stock EXCEPT ![h] = @ + q]
Recosted(b) ==
    \/ costs' = costs
    \/ \E n \in Nat, u \in Nat : \E ids :
         HasRows(costs, n) /\ Between(u, b.prices) /\ OneMore(n, costs, ids, u, costs')

\* The transaction of w ends.
LEMMA MeanEnds ==
    ASSUME NEW CONSTANT b, MeanInv(b), NEW w \in Workers, txn' = [txn EXCEPT ![w] = [step |-> "idle"]],
           Restocked(b), Recosted(b)
    PROVE  MeanInv(b)'
<1>1. /\ txn'[w] = [step |-> "idle"] /\ (\A v \in Workers \ {w} : txn'[v] = txn[v])
      /\ txn' = [v \in Workers |-> txn'[v]]
  BY DEF MeanInv
<1>2. \A v \in Workers : txn'[v].step # "idle" => txn'[v] = txn[v]
  BY <1>1
<1>3. /\ \A v \in Workers : Working(txn'[v]) => Quotes(txn'[v], b)
      /\ \A v \in Workers : txn'[v].step = "entered" => txn'[v].price \in b.prices
  BY <1>2 DEF MeanInv, Working
<1>4. stock' = [h \in b.warehouses |-> stock'[h]] /\ \A h \in b.warehouses : stock'[h] \in Int
  <2>1. CASE stock' = stock
    BY <2>1 DEF MeanInv
  <2>2. ASSUME NEW h \in b.warehouses, NEW q \in Nat, stock' = [stock EXCEPT ![h] = @ + q]
        PROVE  stock' = [g \in b.warehouses |-> stock'[g]] /\ \A g \in b.warehouses : stock'[g] \in Int
    <3>1. DOMAIN stock = b.warehouses /\ \A g \in b.warehouses : stock[g] \in Int
      BY DEF MeanInv
    <3>2. stock'[h] = stock[h] + q /\ \A g \in b.warehouses : g # h => stock'[g] = stock[g]
      BY <2>2, <3>1
    <3>3. stock' = [g \in b.warehouses |-> stock'[g]]
      BY <2>2, <3>1
    <3> QED
      BY <3>1, <3>2, <3>3
  <2> QED
    BY <2>1, <2>2 DEF Restocked
<1>5. /\ Numbered(costs')
      /\ \A n \in Nat : DOMAIN costs' = 1..n => \A k \in 1..n :
           costs'[k].unit \in Nat /\ Between(costs'[k].unit, b.prices) /\ (k = n => costs'[k].current)
  <2>1. CASE costs' = costs
    BY <2>1 DEF MeanInv
  <2>2. ASSUME NEW n \in Nat, NEW ids, NEW u \in Nat, HasRows(costs, n), Between(u, b.prices),
               OneMore(n, costs, ids, u, costs')
        PROVE  /\ Numbered(costs')
               /\ \A m \in Nat : DOMAIN costs' = 1..m => \A k \in 1..m :
                    costs'[k].unit \in Nat /\ Between(costs'[k].unit, b.prices) /\ (k = m => costs'[k].current)
    <3>1. PICK t : t = costs'
      OBVIOUS
    <3>2. \A k \in 1..n : t[k].unit = costs[k].unit
      <4>1. TAKE k \in 1..n
      <4>2. PICK c : t[k] = [unit |-> costs[k].unit, current |-> c]
        BY <2>2, <3>1 DEF OneMore
      <4> QED
        BY <4>2
    <3>3. \A k \in 1..n : t[k].unit \in Nat /\ Between(t[k].unit, b.prices)
      BY <2>2, <3>2 DEF MeanInv, HasRows
    <3>4. t[n + 1].unit = u /\ t[n + 1].current /\ DOMAIN t = 1..(n + 1)
      BY <2>2, <3>1 DEF OneMore
    <3>5. \A m \in Nat : DOMAIN t = 1..m => m = n + 1
      BY <3>4
    <3>6. \A k \in 1..(n + 1) : k = n + 1 \/ (k \in 1..n /\ k # n + 1)
      OBVIOUS
    <3>7. \A k \in 1..(n + 1) : t[k].unit \in Nat /\ Between(t[k].unit, b.prices) /\ (k = n + 1 => t[k].current)
      BY <2>2, <3>3, <3>4, <3>6
    <3>8. n + 1 \in Nat /\ HasRows(t, n + 1)
      BY <2>2, <3>1 DEF OneMore
    <3> QED
      BY <3>1, <3>5, <3>7, <3>8 DEF Numbered
  <2> QED
    BY <2>1, <2>2 DEF Recosted
<1> QED
  BY <1>1, <1>3, <1>4, <1>5 DEF MeanInv

\* The new average of a receipt.
LEMMA AverageBetween ==
    ASSUME NEW CONSTANT b, b.prices \subseteq Nat, NEW t, Quotes(t, b), t.step = "summed"
    PROVE  Cost(b)!NewAverage(t) \in Nat /\ Between(Cost(b)!NewAverage(t), b.prices)
<1>1. PICK n, q, u, o : n = t.n /\ q = t.price /\ u = t.unit /\ o = t.old
  OBVIOUS
<1>2. n \in Nat /\ q \in Nat /\ q \in b.prices /\ o \in Int
  BY <1>1 DEF Quotes
<1>3. Between(q, b.prices)
  BY <1>2 DEF Between
<1>4. CASE ~(t.id # 0 /\ o > 0)
  BY <1>1, <1>2, <1>3, <1>4 DEF Cost!NewAverage
<1>5. CASE t.id # 0 /\ o > 0
  <2>1. PICK m : m = (o * u + n * q) \div (o + n)
    OBVIOUS
  <2>2. Cost(b)!NewAverage(t) = m
    BY <1>1, <1>5, <2>1 DEF Cost!NewAverage
  <2>3. u \in Nat /\ Between(u, b.prices) /\ o \in Nat \ {0}
    BY <1>1, <1>2, <1>5 DEF Quotes
  <2>4. m \in Nat /\ (u <= m \/ q <= m) /\ (m <= u \/ m <= q)
    BY <1>2, <2>1, <2>3, MeanBetween
  <2>5. PICK p1 \in b.prices, p2 \in b.prices : p1 <= u /\ u <= p2
    BY <2>3 DEF Between
  <2>6. p1 \in Nat /\ p2 \in Nat
    BY <2>5
  <2>7. \E p \in b.prices : p <= m
    BY <1>2, <2>3, <2>4, <2>5, <2>6
  <2>8. \E p \in b.prices : m <= p
    BY <1>2, <2>3, <2>4, <2>5, <2>6
  <2> QED
    BY <2>2, <2>4, <2>7, <2>8 DEF Between
<1> QED
  BY <1>4, <1>5

\* Every step keeps the costs, and what receipts work with, within the prices.
LEMMA MeanStep ==
    ASSUME NEW CONSTANT b, Priced(b), b.receipts \subseteq Nat, MeanInv(b), [Cost(b)!Next]_(Cost(b)!vars)
    PROVE  MeanInv(b)'
<1>1. PICK n \in Nat : HasRows(costs, n) /\ DOMAIN costs = 1..n
  BY DEF MeanInv, Numbered, HasRows
<1>2. b.prices \subseteq Nat /\ IsFiniteSet(b.warehouses) /\ b.issues \subseteq Nat
  BY DEF Priced, Cost!CostAssumption, Cost!IsFiniteSet, IsFiniteSet
<1>3. \A k \in 1..n : costs[k].unit \in Nat /\ Between(costs[k].unit, b.prices)
  BY <1>1 DEF MeanInv
<1>4. ASSUME NEW w \in Workers, Cost(b)!Receive(w) PROVE MeanInv(b)'
  <2>1. PICK h \in b.warehouses, q \in b.receipts, p \in b.prices :
          txn' = [txn EXCEPT ![w] = [step |-> "received", warehouse |-> h, n |-> q, price |-> p]]
    BY <1>4 DEF Cost!Receive
  <2>2. costs' = costs /\ stock' = stock
    BY <1>4 DEF Cost!Receive
  <2> DEFINE t == [step |-> "received", warehouse |-> h, n |-> q, price |-> p]
  <2>3. Quotes(t, b) /\ t.step # "entered"
    BY <2>1 DEF Quotes
  <2>4. txn' = [txn EXCEPT ![w] = t]
    BY <2>1
  <2> HIDE DEF t
  <2> QED
    BY <2>2, <2>3, <2>4, MeanGoesOn
<1>5. ASSUME NEW w \in Workers, Cost(b)!ReadCost(w) PROVE MeanInv(b)'
  <2>1. Quotes(txn[w], b) /\ costs' = costs /\ stock' = stock
    BY <1>5 DEF Cost!ReadCost, Working, MeanInv
  <2>2. PICK k \in IF Cost(b)!Current = {} THEN {0} ELSE Cost(b)!Current :
         txn' = [txn EXCEPT ![w] = [step |-> "costed", warehouse |-> txn[w].warehouse,
                  n |-> txn[w].n, price |-> txn[w].price,
                  id |-> k, unit |-> IF k = 0 THEN 0 ELSE costs[k].unit]]
    BY <1>5 DEF Cost!ReadCost
  <2>3. k # 0 => k \in 1..n
    BY <1>1, <2>2 DEF Cost!Current, Cost!Ids
  <2> DEFINE t == [step |-> "costed", warehouse |-> txn[w].warehouse,
                  n |-> txn[w].n, price |-> txn[w].price,
                  id |-> k, unit |-> IF k = 0 THEN 0 ELSE costs[k].unit]
  <2>4. Quotes(t, b) /\ t.step # "entered"
    BY <1>3, <2>1, <2>3 DEF Quotes
  <2>5. txn' = [txn EXCEPT ![w] = t]
    BY <2>2
  <2> HIDE DEF t
  <2> QED
    BY <2>1, <2>4, <2>5, MeanGoesOn
<1>6. ASSUME NEW w \in Workers, Cost(b)!ReadStock(w) PROVE MeanInv(b)'
  <2>1. Quotes(txn[w], b) /\ costs' = costs /\ stock' = stock /\ txn[w].step = "costed"
    BY <1>6 DEF Cost!ReadStock, Working, MeanInv
  <2>2. Cost(b)!Total \in Int
    <3>1. Cost(b)!SumFunctionOnSet(stock, b.warehouses) = SumFunctionOnSet(stock, b.warehouses)
      BY DEF Cost!SumFunctionOnSet, SumFunctionOnSet, Cost!FoldFunctionOnSet, FoldFunctionOnSet,
             Cost!MapThenFoldSet, MapThenFoldSet
    <3>2. \A h \in b.warehouses : stock[h] \in Int
      BY DEF MeanInv
    <3>3. SumFunctionOnSet(stock, b.warehouses) \in Int
      BY <1>2, <3>2, SumInt
    <3> QED
      BY <3>1, <3>3 DEF Cost!Total
  <2>3. PICK o \in Int : txn' = [txn EXCEPT ![w] = [step |-> "summed", warehouse |-> txn[w].warehouse,
         n |-> txn[w].n, price |-> txn[w].price, id |-> txn[w].id, unit |-> txn[w].unit, old |-> o]]
    <3>1. PICK x \in Int : x = Cost(b)!Total
      BY <2>2
    <3>2. (x + txn[w].n) - txn[w].n \in Int
      BY <2>1 DEF Quotes
    <3> QED
      BY <1>6, <3>1, <3>2 DEF Cost!ReadStock
  <2> DEFINE t == [step |-> "summed", warehouse |-> txn[w].warehouse,
         n |-> txn[w].n, price |-> txn[w].price, id |-> txn[w].id, unit |-> txn[w].unit, old |-> o]
  <2>4. Quotes(t, b) /\ t.step # "entered"
    BY <2>1, <2>3 DEF Quotes
  <2>5. txn' = [txn EXCEPT ![w] = t]
    BY <2>3
  <2> HIDE DEF t
  <2> QED
    BY <2>1, <2>4, <2>5, MeanGoesOn
<1>7. ASSUME NEW w \in Workers, Cost(b)!CommitReceipt(w) PROVE MeanInv(b)'
  <2>1. /\ Quotes(txn[w], b) /\ txn[w].step = "summed" /\ txn' = [txn EXCEPT ![w] = [step |-> "idle"]]
        /\ stock' = [stock EXCEPT ![txn[w].warehouse] = @ + txn[w].n]
    BY <1>7 DEF Cost!CommitReceipt, Working, MeanInv, Cost!Idle
  <2>2. PICK u, ids : u = Cost(b)!NewAverage(txn[w]) /\ Recosts(b, costs, ids, u, costs')
    BY <1>7 DEF Cost!CommitReceipt, Recosts
  <2>3. u \in Nat /\ Between(u, b.prices)
    BY <1>2, <2>1, <2>2, AverageBetween
  <2>4. PICK t : Recosts(b, costs, ids, u, t) /\ t = costs'
    BY <2>2
  <2>5. OneMore(n, costs, ids, u, t)
    BY <1>1, <2>4, NewCost
  <2>6. Restocked(b)
    BY <2>1 DEF Quotes, Restocked
  <2>7. Recosted(b)
    BY <1>1, <2>3, <2>4, <2>5 DEF Recosted
  <2> QED
    BY <2>1, <2>6, <2>7, MeanEnds
<1>8. ASSUME NEW w \in Workers, Cost(b)!Rollback(w) PROVE MeanInv(b)'
  BY <1>8, MeanEnds DEF Cost!Rollback, Cost!Idle, Restocked, Recosted
<1>9. ASSUME NEW w \in Workers, Cost(b)!StartCost(w) PROVE MeanInv(b)'
  <2>1. PICK p, ids : p \in b.prices /\ txn' = [txn EXCEPT ![w] = [step |-> "entered", price |-> p, ids |-> ids]]
    BY <1>9 DEF Cost!StartCost
  <2>2. costs' = costs /\ stock' = stock
    BY <1>9 DEF Cost!StartCost
  <2> DEFINE t == [step |-> "entered", price |-> p, ids |-> ids]
  <2>3. ~Working(t) /\ t.price \in b.prices
    BY <2>1 DEF Working
  <2>4. txn' = [txn EXCEPT ![w] = t]
    BY <2>1
  <2> HIDE DEF t
  <2> QED
    BY <2>2, <2>3, <2>4, MeanGoesOn
<1>10. ASSUME NEW w \in Workers, Cost(b)!CommitCost(w) PROVE MeanInv(b)'
  <2>1. txn[w].price \in b.prices /\ txn' = [txn EXCEPT ![w] = [step |-> "idle"]] /\ stock' = stock
    BY <1>10 DEF Cost!CommitCost, MeanInv, Cost!Idle
  <2>2. PICK u, ids : u = txn[w].price /\ Recosts(b, costs, ids, u, costs')
    BY <1>10 DEF Cost!CommitCost, Recosts
  <2>3. u \in Nat /\ Between(u, b.prices)
    BY <1>2, <2>1, <2>2 DEF Between
  <2>4. PICK t : Recosts(b, costs, ids, u, t) /\ t = costs'
    BY <2>2
  <2>5. OneMore(n, costs, ids, u, t)
    BY <1>1, <2>4, NewCost
  <2> QED
    <3>1. Restocked(b)
      BY <2>1 DEF Restocked
    <3>2. Recosted(b)
      BY <1>1, <2>3, <2>4, <2>5 DEF Recosted
    <3> QED
      BY <2>1, <3>1, <3>2, MeanEnds
<1>11. ASSUME NEW h \in b.warehouses, Cost(b)!Issue(h) PROVE MeanInv(b)'
  <2>1. costs' = costs /\ txn' = txn
    BY <1>11 DEF Cost!Issue
  <2>2. PICK q \in b.issues : stock' = [stock EXCEPT ![h] = @ - q]
    BY <1>11 DEF Cost!Issue
  <2>3. DOMAIN stock = b.warehouses /\ \A g \in b.warehouses : stock[g] \in Int
    BY DEF MeanInv
  <2>4. stock'[h] = stock[h] - q /\ \A g \in b.warehouses : g # h => stock'[g] = stock[g]
    BY <2>2, <2>3
  <2>5. stock' = [g \in b.warehouses |-> stock'[g]]
    BY <2>2, <2>3
  <2>6. \A g \in b.warehouses : stock'[g] \in Int
    BY <1>2, <2>3, <2>4
  <2> QED
    BY <2>1, <2>5, <2>6 DEF MeanInv
<1>12. CASE UNCHANGED Cost(b)!vars
  BY <1>12 DEF Cost!vars, MeanInv
<1> QED
  BY <1>4, <1>5, <1>6, <1>7, <1>8, <1>9, <1>10, <1>11, <1>12 DEF Cost!Next, Cost!Read

\* The invariant holds at the start: there is no cost.
LEMMA MeanInit == ASSUME NEW CONSTANT b, Priced(b), Cost(b)!Init PROVE MeanInv(b)
<1>1. /\ costs = <<>> /\ DOMAIN costs = 1..0 /\ txn = [w \in Workers |-> [step |-> "idle"]]
      /\ stock = [h \in b.warehouses |-> b.opening] /\ b.opening \in Nat
  BY DEF Cost!Init, Cost!Idle, Priced, Cost!CostAssumption
<1>2. \A n \in Nat : DOMAIN costs = 1..n => n = 0
  BY <1>1
<1> QED
  BY <1>1, <1>2 DEF MeanInv, Numbered, HasRows, Working

\* Costs between two prices are between the least and the greatest price.
LEMMA MeanWithinPrices ==
    ASSUME NEW CONSTANT b, Priced(b), MeanInv(b)
    PROVE  Cost(b)!TypeOK /\ Cost(b)!AverageWithinPrices
<1>1. PICK n \in Nat : HasRows(costs, n) /\ DOMAIN costs = 1..n
  BY DEF MeanInv, Numbered, HasRows
<1>2. \A k \in 1..n : costs[k].unit \in Nat /\ Between(costs[k].unit, b.prices) /\ (k = n => costs[k].current)
  BY <1>1 DEF MeanInv
<1>3. b.prices \subseteq Nat /\ IsFiniteSet(b.prices)
  BY DEF Priced, Cost!CostAssumption, Cost!IsFiniteSet, IsFiniteSet
<1>4. Cost(b)!TypeOK
  <2>1. \A k \in 1..n : costs[k] \in [unit : Nat, current : BOOLEAN]
    <3>1. TAKE k \in 1..n
    <3>2. PICK v, c : c \in BOOLEAN /\ costs[k] = [unit |-> v, current |-> c]
      BY <1>1 DEF HasRows
    <3>3. v \in Nat
      BY <1>2, <3>2
    <3> QED
      BY <3>2, <3>3
  <2>2. stock \in [b.warehouses -> Int]
    BY DEF MeanInv
  <2>3. n # 0 => Cost(b)!Cardinality(1..n) \in Cost(b)!Current
    <3>1. 1 \in Int /\ n \in Int
      OBVIOUS
    <3>2. Cardinality(1..n) = n
      BY <3>1, FS_Interval
    <3>3. n # 0 => n \in 1..n
      OBVIOUS
    <3> QED
      BY <1>1, <1>2, <3>2, <3>3 DEF Cost!Cardinality, Cardinality, Cost!Current, Cost!Ids
  <2>4. n = 0 => 1..n = {}
    OBVIOUS
  <2> QED
    BY <1>1, <2>1, <2>2, <2>3, <2>4 DEF Cost!TypeOK, Cost!Ids
<1>5. ASSUME NEW u \in Cost(b)!GetWeightedCost PROVE Cost(b)!Min(b.prices) <= u /\ u <= Cost(b)!Max(b.prices)
  <2>1. u \in Nat /\ Between(u, b.prices)
    BY <1>1, <1>2 DEF Cost!GetWeightedCost, Cost!Current, Cost!Ids
  <2>2. PICK p1 \in b.prices, p2 \in b.prices : p1 <= u /\ u <= p2
    BY <2>1 DEF Between
  <2>3. PICK lo \in b.prices : lo = Cost(b)!Min(b.prices) /\ \A p \in b.prices : lo <= p
    <3>1. \E x \in b.prices : \A p \in b.prices : x <= p
      BY <1>3, <2>2, LeastNat
    <3> QED
      BY <3>1 DEF Cost!Min
  <2>4. PICK hi \in b.prices : hi = Cost(b)!Max(b.prices) /\ \A p \in b.prices : hi >= p
    <3>1. \E x \in b.prices : \A p \in b.prices : p <= x
      BY <1>3, <2>2, GreatestNat
    <3>2. \E x \in b.prices : \A p \in b.prices : x >= p
      BY <1>3, <3>1
    <3> QED
      BY <3>2 DEF Cost!Max
  <2>5. lo \in Nat /\ hi \in Nat /\ p1 \in Nat /\ p2 \in Nat
    BY <1>3
  <2>6. lo <= p1 /\ p2 <= hi
    BY <2>3, <2>4, <2>5
  <2>7. lo <= u /\ u <= hi
    BY <2>1, <2>2, <2>5, <2>6
  <2> QED
    BY <2>3, <2>4, <2>7
<1> QED
  BY <1>4, <1>5 DEF Cost!AverageWithinPrices

\* What holds of item_costs, its stock and its receipts in the parts that
\* move them.
CostInv ==
    /\ part = "one_warehouse" => OneInv(Receiving)
    /\ part = "by_hand" => MeanInv(Pricing)

\* What the assumptions on the constants say of the two parts.
LEMMA CostAssumed ==
    /\ Priced(Receiving) /\ ~Receiving.manual /\ \A g, h \in Receiving.warehouses : g = h
    /\ Priced(Pricing) /\ Pricing.receipts \subseteq Nat
BY StockedAssumption DEF StockedAssumption, Priced

\* Costs average the prices paid: one current average of receipts into one
\* warehouse, and an average within the prices whatever is stale.
THEOREM CostIsAverageHolds == StockSpec => []CostIsAverage
<1>1. StockInit => CostInv
  <2>1. SUFFICES ASSUME StockInit PROVE CostInv
    OBVIOUS
  <2>2. part = "one_warehouse" => OneInv(Receiving)
    BY <2>1, OneInit DEF StockInit
  <2>3. part = "by_hand" => MeanInv(Pricing)
    BY <2>1, CostAssumed, MeanInit DEF StockInit
  <2> QED
    BY <2>2, <2>3 DEF CostInv
<1>2. CostInv /\ [StockNext]_vStock => CostInv'
  <2>1. SUFFICES ASSUME CostInv, [StockNext]_vStock PROVE CostInv'
    OBVIOUS
  <2>2. part' = part
    BY <2>1 DEF StockNext, vStock
  <2>3. ASSUME NEW CONSTANT b, Cost(b)!Next \/ UNCHANGED vStock PROVE [Cost(b)!Next]_(Cost(b)!vars)
    BY <2>3 DEF Cost!vars, vStock
  <2>4. ASSUME part = "one_warehouse" PROVE OneInv(Receiving)'
    <3>1. OneInv(Receiving) /\ (Cost(Receiving)!Next \/ UNCHANGED vStock)
      BY <2>1, <2>4 DEF CostInv, StockNext
    <3> QED
      BY <2>3, <3>1, CostAssumed, OneStep
  <2>5. ASSUME part = "by_hand" PROVE MeanInv(Pricing)'
    <3>1. MeanInv(Pricing) /\ (Cost(Pricing)!Next \/ UNCHANGED vStock)
      BY <2>1, <2>5 DEF CostInv, StockNext
    <3> QED
      BY <2>3, <3>1, CostAssumed, MeanStep
  <2> QED
    BY <2>2, <2>4, <2>5 DEF CostInv
<1>3. CostInv => CostIsAverage
  BY CostAssumed, OneIsCurrent, MeanWithinPrices DEF CostInv, CostIsAverage
<1> QED
  BY <1>1, <1>2, <1>3, PTL DEF StockSpec

-----------------------------------------------------------------------------
(***************************************************************************)
(* StockDocuments: lists of transactions.                                  *)
(***************************************************************************)
At(ls, c, m) == {j \in 1..m : ls[j].cell = c}
Tally(ls, c) == Cardinality(At(ls, c, Len(ls)))

\* Starting from u, the quantity of c is v after the first m entries of ls.
Leads(ls, c, u, m, v) ==
    \/ v = u /\ \A j \in 1..m : ls[j].cell # c
    \/ \E k \in 1..m : /\ ls[k].cell = c /\ v = ls[k].after
                       /\ \A j \in 1..m : j > k => ls[j].cell # c

\* What leads somewhere depends on the entries passed only.
LEMMA LeadsSame ==
    ASSUME NEW ls, NEW more, NEW m, \A j \in 1..m : more[j] = ls[j], NEW c, NEW u, NEW v, Leads(ls, c, u, m, v)
    PROVE  Leads(more, c, u, m, v)
BY DEF Leads

\* Entries lead to one quantity.
LEMMA LeadsOnce ==
    ASSUME NEW ls, NEW m \in Nat, NEW c, NEW u, NEW v, NEW x, Leads(ls, c, u, m, v), Leads(ls, c, u, m, x)
    PROVE  v = x
<1>1. ASSUME NEW k \in 1..m, NEW j \in 1..m, ls[k].cell = c, ls[j].cell = c,
             \A i \in 1..m : i > k => ls[i].cell # c, \A i \in 1..m : i > j => ls[i].cell # c
      PROVE  k = j
  <2>1. ~(j > k) /\ ~(k > j)
    BY <1>1
  <2> QED
    BY <2>1
<1>2. (\E k \in 1..m : ls[k].cell = c) \/ \A k \in 1..m : ls[k].cell # c
  OBVIOUS
<1> QED
  BY <1>1, <1>2 DEF Leads

\* One entry more.
LEMMA LeadsNext ==
    ASSUME NEW ls, NEW m \in Nat, NEW c, NEW u, NEW v, Leads(ls, c, u, m, v)
    PROVE  Leads(ls, c, u, m + 1, IF ls[m + 1].cell = c THEN ls[m + 1].after ELSE v)
<1>1. m + 1 \in 1..(m + 1) /\ \A j \in 1..(m + 1) : (j \in 1..m \/ j = m + 1) /\ ~(j > m + 1)
  OBVIOUS
<1>2. \A j \in 1..m : j \in 1..(m + 1) /\ ~(j > m + 1)
  OBVIOUS
<1>3. CASE ls[m + 1].cell = c
  BY <1>1, <1>3 DEF Leads
<1>4. CASE ls[m + 1].cell # c
  <2>1. CASE v = u /\ \A j \in 1..m : ls[j].cell # c
    BY <1>1, <1>4, <2>1 DEF Leads
  <2>2. ASSUME NEW k \in 1..m, ls[k].cell = c, v = ls[k].after, \A j \in 1..m : j > k => ls[j].cell # c
        PROVE  Leads(ls, c, u, m + 1, v)
    BY <1>1, <1>2, <1>4, <2>2 DEF Leads
  <2> QED
    BY <1>4, <2>1, <2>2 DEF Leads
<1> QED
  BY <1>3, <1>4

\* An entry appended.
LEMMA LeadsAppend ==
    ASSUME NEW S, NEW ls \in Seq(S), NEW e \in S, NEW c, NEW u, NEW v, Leads(ls, c, u, Len(ls), v)
    PROVE  Leads(Append(ls, e), c, u, Len(ls) + 1, IF e.cell = c THEN e.after ELSE v)
<1>1. /\ Len(ls) \in Nat /\ Append(ls, e)[Len(ls) + 1] = e
      /\ \A j \in 1..Len(ls) : Append(ls, e)[j] = ls[j]
  OBVIOUS
<1>2. Leads(Append(ls, e), c, u, Len(ls), v)
  BY <1>1, LeadsSame
<1> QED
  BY <1>1, <1>2, LeadsNext

\* Two lists, one after the other.
LEMMA LeadsJoin ==
    ASSUME NEW S, NEW ls \in Seq(S), NEW more \in Seq(S), NEW c, NEW u, NEW v, NEW x, NEW m \in 0..Len(more),
           Leads(ls, c, u, Len(ls), v), Leads(more, c, v, m, x)
    PROVE  Leads(ls \o more, c, u, Len(ls) + m, x)
<1>1. PICK n, all : n = Len(ls) /\ all = ls \o more
  OBVIOUS
<1>2. /\ n \in Nat /\ m \in Nat /\ \A j \in 1..n : all[j] = ls[j]
      /\ \A j \in 1..m : all[n + j] = more[j]
  BY <1>1
<1>3. \A j \in 1..(n + m) : j \in 1..n \/ \E i \in 1..m : j = n + i
  <2>1. TAKE j \in 1..(n + m)
  <2>2. CASE j <= n
    BY <1>2, <2>2
  <2>3. CASE j > n
    <3>1. j - n \in 1..m /\ j = n + (j - n)
      BY <1>2, <2>3
    <3> QED
      BY <3>1
  <2> QED
    BY <1>2, <2>2, <2>3
<1>4. /\ \A j \in 1..n : j \in 1..(n + m)
      /\ \A j \in 1..m : n + j \in 1..(n + m)
  BY <1>2
<1>5. \A i \in 1..n, j \in 1..m : ~(i > n + j) /\ n + j > i
  <2>1. TAKE i \in 1..n, j \in 1..m
  <2>2. i \in Int /\ j \in Int /\ i <= n /\ j >= 1
    BY <1>2
  <2>3. n \in Int
    BY <1>2
  <2> QED
    BY <2>2, <2>3
<1>6. CASE x = v /\ \A j \in 1..m : more[j].cell # c
  <2>1. ASSUME NEW j \in 1..(n + m), j \notin 1..n PROVE all[j].cell # c
    <3>1. PICK i \in 1..m : j = n + i
      BY <1>3, <2>1
    <3>2. all[n + i] = more[i]
      BY <1>2
    <3> QED
      BY <1>6, <3>1, <3>2
  <2>2. CASE v = u /\ \A j \in 1..n : ls[j].cell # c
    BY <1>1, <1>2, <1>6, <2>1, <2>2 DEF Leads
  <2>3. ASSUME NEW k \in 1..n, ls[k].cell = c, v = ls[k].after, \A j \in 1..n : j > k => ls[j].cell # c
        PROVE  Leads(all, c, u, n + m, x)
    <3>1. k \in 1..(n + m) /\ all[k].cell = c /\ x = all[k].after
      BY <1>2, <1>4, <1>6, <2>3
    <3>2. \A j \in 1..(n + m) : j > k => all[j].cell # c
      BY <1>2, <2>1, <2>3
    <3> QED
      BY <3>1, <3>2 DEF Leads
  <2> QED
    BY <1>1, <2>2, <2>3 DEF Leads
<1>7. ASSUME NEW k \in 1..m, more[k].cell = c, x = more[k].after, \A j \in 1..m : j > k => more[j].cell # c
      PROVE  Leads(all, c, u, n + m, x)
  <2>1. n + k \in 1..(n + m) /\ all[n + k].cell = c /\ x = all[n + k].after
    BY <1>2, <1>4, <1>7
  <2>2. ASSUME NEW j \in 1..(n + m), j > n + k PROVE all[j].cell # c
    <3>1. PICK i \in 1..m : j = n + i
      BY <1>3, <1>5, <2>2
    <3>2. i > k
      BY <1>2, <2>2, <3>1
    <3> QED
      BY <1>2, <1>7, <3>1, <3>2
  <2> QED
    BY <2>1, <2>2 DEF Leads
<1> QED
  BY <1>1, <1>6, <1>7 DEF Leads

\* An entry appended counts for its cell only.
LEMMA TallyAppend ==
    ASSUME NEW S, NEW ls \in Seq(S), NEW e \in S, NEW c
    PROVE  /\ Tally(ls, c) \in Nat
           /\ Tally(Append(ls, e), c) = IF e.cell = c THEN Tally(ls, c) + 1 ELSE Tally(ls, c)
<1>1. PICK n, s, t : n = Len(ls) /\ s = At(ls, c, n) /\ t = At(Append(ls, e), c, n + 1)
  OBVIOUS
<1>2. n \in Nat /\ Append(ls, e)[n + 1] = e /\ (\A j \in 1..n : Append(ls, e)[j] = ls[j]) /\ Len(Append(ls, e)) = n + 1
  BY <1>1
<1>3. s \in SUBSET (1..n) /\ IsFiniteSet(1..n)
  <2>1. 1 \in Int /\ n \in Int
    BY <1>2
  <2> QED
    BY <1>1, <2>1, FS_Interval DEF At
<1>4. IsFiniteSet(s) /\ n + 1 \notin s
  <2>1. IsFiniteSet(s)
    BY <1>3, FS_Subset
  <2>2. n + 1 \notin 1..n
    BY <1>2
  <2> QED
    BY <1>3, <2>1, <2>2
<1>5. t = IF e.cell = c THEN s \cup {n + 1} ELSE s
  <2>1. \A j : j \in 1..(n + 1) <=> j \in 1..n \/ j = n + 1
    BY <1>2
  <2> QED
    BY <1>1, <1>2, <2>1 DEF At
<1>6. Cardinality(s \cup {n + 1}) = Cardinality(s) + 1 /\ Cardinality(s) \in Nat
  BY <1>4, FS_AddElement, FS_CardinalityType
<1> QED
  BY <1>1, <1>2, <1>5, <1>6 DEF Tally

\* Two lists, one after the other, have the entries of both.
LEMMA TallyJoin ==
    ASSUME NEW S, NEW ls \in Seq(S), NEW more \in Seq(S), NEW c
    PROVE  Tally(ls \o more, c) = Tally(ls, c) + Tally(more, c) /\ Tally(more, c) \in Nat
<1>1. PICK n, m, s, t, all : n = Len(ls) /\ m = Len(more) /\ s = At(ls, c, n) /\ t = At(more, c, m) /\ all = ls \o more
  OBVIOUS
<1>2. /\ n \in Nat /\ m \in Nat /\ (\A j \in 1..n : all[j] = ls[j]) /\ Len(all) = n + m
      /\ \A j \in 1..m : all[n + j] = more[j]
  BY <1>1
<1>3. s \in SUBSET (1..n) /\ t \in SUBSET (1..m) /\ IsFiniteSet(1..n) /\ IsFiniteSet(1..m)
  <2>1. 1 \in Int /\ n \in Int /\ m \in Int
    BY <1>2
  <2> QED
    BY <1>1, <2>1, FS_Interval DEF At
<1>4. PICK r : r = {n + j : j \in t}
  OBVIOUS
<1>5. IsFiniteSet(s) /\ IsFiniteSet(t)
  BY <1>3, FS_Subset
<1>6. IsFiniteSet(r) /\ Cardinality(r) = Cardinality(t)
  <2>1. PICK f : f = [j \in t |-> n + j]
    OBVIOUS
  <2>2. \A i, j \in t : f[i] = f[j] => i = j
    BY <1>2, <1>3, <2>1
  <2>3. f \in Bijection(t, r)
    BY <1>4, <2>1, <2>2 DEF Bijection, Injection, Surjection, IsInjective
  <2> QED
    BY <1>5, <2>3, FS_Bijection DEF ExistsBijection
<1>7. s \cap r = {}
  BY <1>2, <1>3, <1>4
<1>8. At(all, c, n + m) = s \cup r
  <2>1. \A j \in 1..(n + m) : j \in 1..n \/ \E i \in 1..m : j = n + i
    <3>1. TAKE j \in 1..(n + m)
    <3>2. CASE j > n
      <4>1. j - n \in 1..m /\ j = n + (j - n)
        BY <1>2, <3>2
      <4> QED
        BY <4>1
    <3> QED
      BY <1>2, <3>2
  <2>2. \A j \in At(all, c, n + m) : j \in s \cup r
    BY <1>1, <1>2, <1>4, <2>1 DEF At
  <2>3. \A j \in 1..n : j \in 1..(n + m)
    BY <1>2
  <2>4. \A j \in 1..m : n + j \in 1..(n + m)
    BY <1>2
  <2>5. \A j \in s \cup r : j \in At(all, c, n + m)
    BY <1>1, <1>2, <1>4, <2>3, <2>4 DEF At
  <2> QED
    BY <2>2, <2>5
<1>9. Cardinality(s \cup r) = Cardinality(s) + Cardinality(r) - Cardinality({})
  BY <1>5, <1>6, <1>7, FS_Union
<1>10. Cardinality({}) = 0 /\ Cardinality(s) \in Nat /\ Cardinality(t) \in Nat
  BY <1>5, FS_EmptySet, FS_CardinalityType
<1>11. Cardinality(s \cup r) = Cardinality(s) + Cardinality(t)
  BY <1>6, <1>9, <1>10
<1> QED
  BY <1>1, <1>2, <1>8, <1>10, <1>11 DEF Tally

\* No entries of ls cell.
LEMMA TallyNone ==
    ASSUME NEW S, NEW ls \in Seq(S), NEW c, \A j \in 1..Len(ls) : ls[j].cell # c
    PROVE  Tally(ls, c) = 0
<1>1. At(ls, c, Len(ls)) = {}
  BY DEF At
<1> QED
  BY <1>1, FS_EmptySet DEF Tally

\* A number of entries.
LEMMA TallyNat == ASSUME NEW S, NEW ls \in Seq(S), NEW c PROVE Tally(ls, c) \in Nat
<1>1. <<>> \o ls = ls /\ <<>> \in Seq(S)
  OBVIOUS
<1> QED
  BY <1>1, TallyJoin

\* The changes of a cell between two positions add up to the difference of
\* its quantities there.
Changed(ls, K) == SumFunctionOnSet([j \in K |-> ls[j].after - ls[j].before], K)
Since(ls, c, s, m) == {j \in (s + 1)..m : ls[j].cell = c}

\* One entry more changes its cell by what it adds.
LEMMA ChangedAdd ==
    ASSUME NEW ls, NEW s \in Nat, NEW m \in Nat, s <= m, NEW c, 
           \A j \in 1..(m + 1) : ls[j].after \in Int /\ ls[j].before \in Int
    PROVE  /\ Changed(ls, Since(ls, c, s, m)) \in Int
           /\ Changed(ls, Since(ls, c, s, m + 1)) =
                IF ls[m + 1].cell = c THEN Changed(ls, Since(ls, c, s, m)) + (ls[m + 1].after - ls[m + 1].before)
                ELSE Changed(ls, Since(ls, c, s, m))
<1>1. PICK K, f : K = Since(ls, c, s, m) /\ f = [j \in K |-> ls[j].after - ls[j].before]
  OBVIOUS
<1>2. K \in SUBSET (1..m) /\ m + 1 \notin K
  BY <1>1 DEF Since
<1>3. IsFiniteSet(K)
  <2>1. 1 \in Int /\ m \in Int
    OBVIOUS
  <2> QED
    BY <1>2, <2>1, FS_Interval, FS_Subset
<1>4. \A j \in K : f[j] \in Int
  <2>1. \A j \in 1..m : j \in 1..(m + 1)
    OBVIOUS
  <2> QED
    BY <1>1, <1>2, <2>1
<1>5. Changed(ls, K) = SumFunctionOnSet(f, K) /\ Changed(ls, K) \in Int
  BY <1>1, <1>3, <1>4, SumInt DEF Changed
<1>6. CASE ls[m + 1].cell # c
  <2>1. Since(ls, c, s, m + 1) = K
    <3>1. \A j : j \in (s + 1)..(m + 1) <=> j \in (s + 1)..m \/ j = m + 1
      OBVIOUS
    <3> QED
      BY <1>1, <1>6, <3>1 DEF Since
  <2> QED
    BY <1>1, <1>5, <1>6, <2>1
<1>7. CASE ls[m + 1].cell = c
  <2>1. PICK x : x = m + 1
    OBVIOUS
  <2>2. PICK e : e = [j \in K \cup {x} |-> ls[j].after - ls[j].before]
    OBVIOUS
  <2>3. Since(ls, c, s, m + 1) = K \cup {x}
    <3>1. \A j : j \in (s + 1)..(m + 1) <=> j \in (s + 1)..m \/ j = m + 1
      OBVIOUS
    <3> QED
      BY <1>1, <1>7, <2>1, <3>1 DEF Since
  <2>4. x \in 1..(m + 1)
    BY <2>1
  <2>5. e[x] = ls[x].after - ls[x].before /\ e[x] \in Int
    BY <2>2, <2>4
  <2>6. x \notin K /\ \A y \in K : f[y] \in Int /\ e[y] = f[y]
    BY <1>1, <1>2, <1>4, <2>1, <2>2
  <2>7. SumFunctionOnSet(e, K \cup {x}) = SumFunctionOnSet(f, K) + e[x]
    <3>1. x \notin K /\ e[x] \in Int /\ \A y \in K : f[y] \in Int /\ e[y] = f[y]
      BY <2>5, <2>6
    <3> QED
      BY <1>3, <3>1, SumExtended
  <2>8. Changed(ls, K \cup {x}) = SumFunctionOnSet(e, K \cup {x})
    BY <2>2 DEF Changed
  <2> QED
    BY <1>1, <1>5, <1>7, <2>1, <2>3, <2>5, <2>7, <2>8
<1> QED
  BY <1>1, <1>5, <1>6, <1>7

\* Where every entry of a cell starts from where the ones before it led,
\* the quantity at m is the one at s and all changes in between.
LEMMA Telescope ==
    ASSUME NEW ls, NEW n \in Nat, \A j \in 1..n : ls[j].after \in Int /\ ls[j].before \in Int, NEW c, NEW u,
           \A k \in 1..n : ls[k].cell = c => Leads(ls, c, u, k - 1, ls[k].before),
           NEW s \in Nat, NEW v \in Int, Leads(ls, c, u, s, v)
    PROVE  \A m \in Nat : \A x : s <= m /\ m <= n /\ Leads(ls, c, u, m, x) => x = v + Changed(ls, Since(ls, c, s, m))
<1> DEFINE B == {m \in Nat : /\ s <= m /\ m <= n
                            /\ \E x : Leads(ls, c, u, m, x) /\ x # v + Changed(ls, Since(ls, c, s, m))}
<1>1. SUFFICES ASSUME B # {} PROVE FALSE
  OBVIOUS
<1>2. PICK m \in B : \A k \in B : m <= k
  <2>1. B \in SUBSET Nat
    OBVIOUS
  <2> HIDE DEF B
  <2> QED
    BY <1>1, <2>1, LeastNat
<1>3. m \in Nat /\ s <= m /\ m <= n
  BY <1>2
<1>4. PICK x : Leads(ls, c, u, m, x) /\ x # v + Changed(ls, Since(ls, c, s, m))
  BY <1>2
<1>5. CASE m = s
  <2>1. Since(ls, c, s, m) = {}
    BY <1>3, <1>5 DEF Since
  <2>2. Changed(ls, {}) = 0
    BY SumEmpty DEF Changed
  <2>3. x = v
    BY <1>4, <1>5, LeadsOnce
  <2> QED
    BY <1>4, <2>1, <2>2, <2>3
<1>6. CASE m # s
  <2>1. PICK k \in Nat : m = k + 1 /\ s <= k /\ k <= n
    <3>1. m - 1 \in Nat /\ m = (m - 1) + 1 /\ s <= m - 1 /\ m - 1 <= n
      BY <1>3, <1>6
    <3> QED
      BY <3>1
  <2>2. k \notin B
    BY <1>2, <1>3, <2>1
  <2>3. \A y : Leads(ls, c, u, k, y) => y = v + Changed(ls, Since(ls, c, s, k))
    BY <2>1, <2>2
  <2>4. k + 1 \in 1..n /\ \A j \in 1..(k + 1) : j \in 1..n
    BY <1>3, <2>1
  <2>5. \A j \in 1..(k + 1) : ls[j].after \in Int /\ ls[j].before \in Int
    BY <2>4
  <2>6. PICK q \in Int : q = Changed(ls, Since(ls, c, s, k)) /\ Changed(ls, Since(ls, c, s, k + 1)) =
                IF ls[k + 1].cell = c THEN q + (ls[k + 1].after - ls[k + 1].before) ELSE q
    BY <2>1, <2>5, ChangedAdd
  <2>7. ls[k + 1].after \in Int /\ ls[k + 1].before \in Int
    BY <2>4
  <2>8. CASE ls[k + 1].cell = c
    <3>1. (k + 1) - 1 = k
      OBVIOUS
    <3>2. Leads(ls, c, u, k, ls[k + 1].before)
      BY <2>4, <2>8, <3>1
    <3>3. ls[k + 1].before = v + q
      BY <2>3, <2>6, <3>2
    <3>4. Leads(ls, c, u, k + 1, ls[k + 1].after)
      BY <2>8, <3>2, LeadsNext
    <3>5. x = ls[k + 1].after
      BY <1>3, <1>4, <2>1, <3>4, LeadsOnce
    <3> QED
      BY <1>4, <2>1, <2>6, <2>7, <2>8, <3>3, <3>5
  <2>9. CASE ls[k + 1].cell # c
    <3>1. \E y : Leads(ls, c, u, k, y)
      <4>1. CASE \A j \in 1..k : ls[j].cell # c
        BY <4>1 DEF Leads
      <4>2. CASE \E j \in 1..k : ls[j].cell = c
        <5>1. PICK K : K = {j \in 1..k : ls[j].cell = c}
          OBVIOUS
        <5>2. K \in SUBSET (1..k) /\ K # {}
          BY <4>2, <5>1
        <5>3. PICK i \in K : \A j \in K : j <= i
          BY <5>2, LastPosition
        <5>4. i \in 1..k /\ ls[i].cell = c /\ \A j \in 1..k : j > i => ls[j].cell # c
          <6>1. \A j \in 1..k : j > i => j \notin K
            BY <5>2, <5>3
          <6> QED
            BY <5>1, <5>3, <6>1
        <5> QED
          BY <5>4 DEF Leads
      <4> QED
        BY <4>1, <4>2
    <3>2. PICK y : Leads(ls, c, u, k, y)
      BY <3>1
    <3>3. Leads(ls, c, u, k + 1, y)
      BY <2>9, <3>2, LeadsNext
    <3>4. x = y
      BY <1>3, <1>4, <2>1, <3>3, LeadsOnce
    <3> QED
      BY <1>4, <2>1, <2>3, <2>6, <2>9, <3>2, <3>4
  <2> QED
    BY <2>8, <2>9
<1> QED
  BY <1>5, <1>6

-----------------------------------------------------------------------------
(***************************************************************************)
(* StockDocuments: the inductive invariant.                                *)
(***************************************************************************)
Papered(b) == Docs(b)!StockAssumption
Paper(b) == b.checks \cup b.transfers
Board(b) == b.items \X b.warehouses
\* The cells that have their row from the start.
Kept(b) == Board(b) \cap DOMAIN b.opening

NoRow == [row |-> "absent"]
NoTxn == [op |-> "idle"]
Row == [quantity : Int, version : Nat \ {0}]
Amount(r) == IF r = NoRow THEN 0 ELSE r.quantity
Version(r) == IF r = NoRow THEN 0 ELSE r.version

\* Drafts, submitted and approved documents.
Stages == {0, 1, 3}
CheckLine(b) == [item : b.items, actual : Int, book : Int, diff : Int]
CheckPaper(b) ==
    [kind : {"check"}, status : Stages, warehouse : b.warehouses, since : Nat, lines : Seq(CheckLine(b))]
MoveLine(b) == [item : b.items, quantity : Int]
MovePaper(b) ==
    [kind : {"transfer"}, status : Stages, from : b.warehouses, to : b.warehouses, lines : Seq(MoveLine(b))]

Papers(b, dcs) ==
    /\ dcs = [d \in Paper(b) |-> dcs[d]]
    /\ \A d \in b.checks : dcs[d] = NoRow \/ dcs[d] \in CheckPaper(b)
    /\ \A d \in b.transfers : dcs[d] = NoRow \/ dcs[d] \in MovePaper(b)

Entry(b) ==
    [cell : Board(b), type : {"out", "in", "check"}, quantity : Int, before : Int, after : Int,
     ref : Paper(b) \cup b.initials]
Legs(b) == [op : {"issue", "receive", "adjust"}, type : {"out", "in", "check"}, cell : Board(b), n : Int]

Stocks(b, stk) == stk \in [Board(b) -> Row \cup {NoRow}]

PaperTxn(b) ==
    [op : {"submit", "approve_check", "approve_transfer"}, ref : Paper(b), before : [status : Stages],
     status : Stages, todo : Seq(Legs(b)), held : SUBSET Board(b), missed : SUBSET Board(b),
     wrote : [Board(b) -> Row \cup {NoRow}], log : Seq(Entry(b))]
InitialTxn(b) ==
    [op : {"initial"}, ref : b.initials, before : Row \cup {NoRow}, cell : Board(b),
     todo : Seq(Legs(b)), held : SUBSET Board(b), missed : SUBSET Board(b),
     wrote : [Board(b) -> Row \cup {NoRow}], log : Seq(Entry(b))]
OpenTxn(b) == PaperTxn(b) \cup InitialTxn(b)

\* A transaction holds its cells, and its document, alone.
Apart(b, t, u) == t.held \cap u.held = {} /\ (t.ref \in Paper(b) => t.ref # u.ref)
Locked(b, tx) ==
    \A v, w \in Workers : v # w /\ tx[v] # NoTxn /\ tx[w] # NoTxn => Apart(b, tx[v], tx[w])

\* Of a cell that had its row, the ledger leads from the opening quantity to
\* the stock, and each entry starts where the ones before it led.
Linked(b, ls, k) ==
    ls[k].cell \in Kept(b) => Leads(ls, ls[k].cell, b.opening[ls[k].cell], k - 1, ls[k].before)
Ledger(b, ls, stk) ==
    /\ ls \in Seq(Entry(b))
    /\ \A c \in Kept(b) :
         /\ stk[c] # NoRow /\ Leads(ls, c, b.opening[c], Len(ls), Amount(stk[c]))
         /\ Version(stk[c]) = Tally(ls, c) + 1
    /\ \A k \in 1..Len(ls) : Linked(b, ls, k)

\* So do the entries of a transaction, from the stock to what it has
\* written, in rows that it holds; it never misses a row that is there.
Seen(t, stk, c) == IF t.wrote[c] # NoRow THEN t.wrote[c] ELSE stk[c]
Follows(b, t, stk, c) ==
    /\ Leads(t.log, c, Amount(stk[c]), Len(t.log), Amount(Seen(t, stk, c)))
    /\ Version(Seen(t, stk, c)) = Version(stk[c]) + Tally(t.log, c)
Starts(b, t, stk, k) ==
    t.log[k].cell \in Kept(b) =>
        Leads(t.log, t.log[k].cell, Amount(stk[t.log[k].cell]), k - 1, t.log[k].before)
Chains(b, t, stk) ==
    /\ t.missed \cap Kept(b) = {}
    /\ \A c \in Board(b) : t.wrote[c] # NoRow => c \in t.held
    /\ \A c \in Kept(b) : Follows(b, t, stk, c)
    /\ \A k \in 1..Len(t.log) :
         Starts(b, t, stk, k) /\ t.log[k].cell \in t.held /\ t.log[k].ref = t.ref

\* The k-th leg of a transfer, and the entry it makes.
LegAt(d, k) ==
    LET l == d.lines[(k + 1) \div 2] IN
    IF k % 2 = 1 THEN [op |-> "issue", type |-> "out", cell |-> <<l.item, d.from>>, n |-> l.quantity]
    ELSE [op |-> "receive", type |-> "in", cell |-> <<l.item, d.to>>, n |-> l.quantity]
Carried(leg, e) == e.type = leg.type /\ e.cell = leg.cell /\ e.quantity = leg.n

\* A leg of a check, and the entry it makes.
CountLeg(d, leg) ==
    \E k \in 1..Len(d.lines) :
      leg = [op |-> "adjust", type |-> "check", cell |-> <<d.lines[k].item, d.warehouse>>, n |-> d.lines[k].actual]
Counted(d, e) ==
    /\ \E k \in 1..Len(d.lines) : e.cell = <<d.lines[k].item, d.warehouse>> /\ e.after = d.lines[k].actual
    /\ e.quantity = e.after - e.before

\* What a transaction does with its document.
Serves(b, t, dcs) ==
    /\ dcs[t.ref] # NoRow /\ t.before = [status |-> dcs[t.ref].status]
    /\ t.op = "submit" => t.before.status = 0 /\ t.status = 1 /\ t.log = <<>> /\ t.todo = <<>>
    /\ t.op # "submit" => t.before.status = 1 /\ t.status = 3
    /\ t.op = "approve_check" =>
         /\ t.ref \in b.checks
         /\ \A k \in 1..Len(t.todo) : CountLeg(dcs[t.ref], t.todo[k])
         /\ \A k \in 1..Len(t.log) : Counted(dcs[t.ref], t.log[k])
    /\ t.op = "approve_transfer" =>
         /\ t.ref \in b.transfers
         /\ Len(t.log) + Len(t.todo) = 2 * Len(dcs[t.ref].lines)
         /\ \A k \in 1..Len(t.todo) : t.todo[k] = LegAt(dcs[t.ref], Len(t.log) + k)
         /\ \A k \in 1..Len(t.log) : Carried(LegAt(dcs[t.ref], k), t.log[k])

\* A posting of initial stock makes at most one step from the row it found.
Founds(t, stk) ==
    /\ \A k \in 1..Len(t.todo) : t.todo[k].cell = t.cell /\ t.todo[k].op = "adjust"
    /\ Len(t.todo) <= 1 /\ (t.todo # <<>> => t.wrote[t.cell] = NoRow)
    /\ t.before # NoRow =>
         /\ stk[t.cell] = t.before /\ t.cell \in t.held
         /\ (t.wrote[t.cell] # NoRow => t.wrote[t.cell].version = t.before.version + 1)

Works(b, t, dcs, stk) ==
    /\ t.op # "initial" => Serves(b, t, dcs)
    /\ t.op = "initial" => Founds(t, stk)

\* What approved documents have posted.
MovedOnce(d, r, ls) ==
    IF r # NoRow /\ r.status = 3
    THEN \E n \in 0..Len(ls) :
           /\ \A k \in 1..Len(ls) : (ls[k].ref = d) <=> (k \in (n + 1)..(n + 2 * Len(r.lines)))
           /\ n + 2 * Len(r.lines) <= Len(ls)
           /\ \A k \in 1..(2 * Len(r.lines)) : Carried(LegAt(r, k), ls[n + k])
    ELSE \A k \in 1..Len(ls) : ls[k].ref # d

\* What a check noted, at a time that its postings are later than.
Noted(b, r, ls) ==
    /\ r.since <= Len(ls)
    /\ \A k \in 1..Len(r.lines) :
         /\ r.lines[k].diff = r.lines[k].actual - r.lines[k].book
         /\ LET c == <<r.lines[k].item, r.warehouse>> IN
              c \in Kept(b) => Leads(ls, c, b.opening[c], r.since, r.lines[k].book)

Posts(b, dcs, ls) ==
    /\ \A d \in b.transfers : MovedOnce(d, dcs[d], ls)
    /\ \A d \in b.checks : dcs[d] # NoRow => Noted(b, dcs[d], ls)
    /\ \A k \in 1..Len(ls) : ls[k].ref \in b.checks =>
         dcs[ls[k].ref] # NoRow /\ k > dcs[ls[k].ref].since /\ Counted(dcs[ls[k].ref], ls[k])

\* The audit trails of documents and of inventories rows.
Unseen == [row |-> "none"]
PaperEntry ==
    [action : {"created", "updated"}, before : {Unseen} \cup [status : Stages], after : [status : Stages]]
RowEntry == [action : {"created", "updated"}, before : {Unseen} \cup Row, after : Row]
OneStepOf(e) ==
    (e.action = "updated") => (e.before = e.after \/ e.after.version = e.before.version + 1)
Trails(b, dcs, tr) ==
    /\ tr = [x \in Paper(b) \cup Board(b) |-> tr[x]]
    /\ \A d \in Paper(b) :
         /\ tr[d] \in Seq(PaperEntry)
         /\ IF dcs[d] = NoRow THEN tr[d] = <<>> ELSE Tells(tr[d], [status |-> dcs[d].status])
    /\ \A c \in Board(b) : tr[c] \in Seq(RowEntry) /\ \A k \in 1..Len(tr[c]) : OneStepOf(tr[c][k])

Dealings(b, tx) == tx = [w \in Workers |-> tx[w]] /\ \A w \in Workers : tx[w] = NoTxn \/ tx[w] \in OpenTxn(b)

PaperInv(b) ==
    /\ Papers(b, docs) /\ Stocks(b, stock) /\ Dealings(b, txn)
    /\ Locked(b, txn)
    /\ Ledger(b, log, stock)
    /\ \A w \in Workers : txn[w] # NoTxn => Chains(b, txn[w], stock) /\ Works(b, txn[w], docs, stock)
    /\ Posts(b, docs, log)
    /\ Trails(b, docs, trail)

-----------------------------------------------------------------------------
(* Transactions of StockDocuments. *)

\* A transaction is one of a document or one of initial stock.
LEMMA OpenFields ==
    ASSUME NEW CONSTANT b, NEW t \in OpenTxn(b)
    PROVE  /\ t.op \in {"submit", "approve_check", "approve_transfer", "initial"} /\ t # NoTxn
           /\ t.ref \in Paper(b) \cup b.initials /\ t.todo \in Seq(Legs(b)) /\ t.held \in SUBSET Board(b)
           /\ t.missed \in SUBSET Board(b)
           /\ t.wrote \in [Board(b) -> Row \cup {NoRow}] /\ t.log \in Seq(Entry(b))
           /\ t.op = "initial" => t \in InitialTxn(b)
           /\ t.op # "initial" => t \in PaperTxn(b)
<1>1. CASE t \in PaperTxn(b)
  BY <1>1 DEF PaperTxn, NoTxn
<1>2. CASE t \in InitialTxn(b)
  BY <1>2 DEF InitialTxn, NoTxn
<1> QED
  BY <1>1, <1>2 DEF OpenTxn

\* What a step of a transaction leaves alone.
Goes(t, u) ==
    /\ u.op = t.op /\ u.ref = t.ref /\ u.before = t.before
    /\ t.op # "initial" => u.status = t.status
    /\ t.op = "initial" => u.cell = t.cell

MissesTo(t, ms, u) == u = [t EXCEPT !.missed = ms]
SkipsTo(t, td, h, u) == u = [t EXCEPT !.todo = td, !.missed = {}, !.held = h]
Written(b, t, td, h, wr, ls, u) ==
    /\ u \in OpenTxn(b) /\ Goes(t, u)
    /\ u.todo = td /\ u.held = h /\ u.wrote = wr /\ u.log = ls /\ u.missed = {}
WritesTo(t, td, h, wr, ls, u) ==
    u = [t EXCEPT !.todo = td, !.missed = {}, !.held = h, !.wrote = wr, !.log = ls]

\* The fields after a row was missed.
LEMMA FieldsMissed ==
    ASSUME NEW CONSTANT b, NEW t \in OpenTxn(b), NEW ms \in SUBSET Board(b), NEW u, MissesTo(t, ms, u)
    PROVE  /\ u \in OpenTxn(b) /\ Goes(t, u)
           /\ u.todo = t.todo /\ u.held = t.held /\ u.wrote = t.wrote /\ u.log = t.log /\ u.missed = ms
<1>1. CASE t \in PaperTxn(b)
  <2>1. t.op # "initial"
    BY <1>1 DEF PaperTxn
  <2> QED
    BY <1>1, <2>1 DEF PaperTxn, OpenTxn, Goes, MissesTo
<1>2. CASE t \in InitialTxn(b)
  <2>1. t.op = "initial"
    BY <1>2 DEF InitialTxn
  <2> QED
    BY <1>2, <2>1 DEF InitialTxn, OpenTxn, Goes, MissesTo
<1> QED
  BY <1>1, <1>2 DEF OpenTxn

\* The fields after a leg that writes nothing.
LEMMA FieldsSkipped ==
    ASSUME NEW CONSTANT b, NEW t \in OpenTxn(b), NEW td \in Seq(Legs(b)), NEW h \in SUBSET Board(b),
           NEW u, SkipsTo(t, td, h, u)
    PROVE  /\ u \in OpenTxn(b) /\ Goes(t, u)
           /\ u.todo = td /\ u.held = h /\ u.wrote = t.wrote /\ u.log = t.log /\ u.missed = {}
<1>1. CASE t \in PaperTxn(b)
  <2>1. t.op # "initial"
    BY <1>1 DEF PaperTxn
  <2> QED
    BY <1>1, <2>1 DEF PaperTxn, OpenTxn, Goes, SkipsTo
<1>2. CASE t \in InitialTxn(b)
  <2>1. t.op = "initial"
    BY <1>2 DEF InitialTxn
  <2> QED
    BY <1>2, <2>1 DEF InitialTxn, OpenTxn, Goes, SkipsTo
<1> QED
  BY <1>1, <1>2 DEF OpenTxn

\* The fields after a leg that writes a row and an entry.
LEMMA FieldsUpserted ==
    ASSUME NEW CONSTANT b, NEW t \in OpenTxn(b), NEW td \in Seq(Legs(b)), NEW h \in SUBSET Board(b),
           NEW wr \in [Board(b) -> Row \cup {NoRow}], NEW ls \in Seq(Entry(b)),
           NEW u, WritesTo(t, td, h, wr, ls, u)
    PROVE  Written(b, t, td, h, wr, ls, u)
<1>1. CASE t \in PaperTxn(b)
  <2>1. t.op # "initial"
    BY <1>1 DEF PaperTxn
  <2> QED
    BY <1>1, <2>1 DEF PaperTxn, OpenTxn, Goes, WritesTo, Written
<1>2. CASE t \in InitialTxn(b)
  <2>1. t.op = "initial"
    BY <1>2 DEF InitialTxn
  <2> QED
    BY <1>2, <2>1 DEF InitialTxn, OpenTxn, Goes, WritesTo, Written
<1> QED
  BY <1>1, <1>2 DEF OpenTxn

\* A list without one of its elements.
Shorter(S, s, k, r) ==
    /\ r \in Seq(S) /\ Len(r) = Len(s) - 1 /\ Len(s) \in Nat \ {0}
    /\ \A j \in 1..(Len(s) - 1) : r[j] = IF j < k THEN s[j] ELSE s[j + 1]
    /\ \A j \in 1..Len(r) : \E i \in 1..Len(s) : r[j] = s[i]

\* The legs left are legs of the list.
LEMMA WithoutShape ==
    ASSUME NEW CONSTANT b, NEW S, NEW s \in Seq(S), NEW k \in 1..Len(s), NEW r, r = Docs(b)!Without(s, k)
    PROVE  Shorter(S, s, k, r)
<1>1. PICK n \in Nat : n = Len(s) - 1 /\ Len(s) = n + 1
  <2>1. Len(s) \in Nat /\ Len(s) - 1 \in Nat
    OBVIOUS
  <2> QED
    BY <2>1
<1>2. r = [j \in 1..n |-> IF j < k THEN s[j] ELSE s[j + 1]]
  BY <1>1 DEF Docs!Without
<1>3. \A j \in 1..n : j \in 1..Len(s) /\ j + 1 \in 1..Len(s)
  BY <1>1
<1>4. \A j \in 1..n : r[j] = IF j < k THEN s[j] ELSE s[j + 1]
  BY <1>2
<1>5. \A j \in 1..n : r[j] \in S
  BY <1>3, <1>4
<1>6. r \in [1..n -> S]
  BY <1>2, <1>5
<1>7. r \in Seq(S) /\ Len(r) = n
  BY <1>1, <1>6
<1> QED
  BY <1>1, <1>3, <1>4, <1>7 DEF Shorter

\* A row is not the absent one.
LEMMA RowThere == \A r \in Row : r # NoRow /\ Amount(r) = r.quantity /\ Version(r) = r.version
<1>1. ASSUME NEW r \in Row PROVE r # NoRow
  <2>1. DOMAIN r = {"quantity", "version"} /\ DOMAIN NoRow = {"row"}
    BY DEF Row, NoRow
  <2> QED
    BY <2>1
<1> QED
  BY <1>1 DEF Amount, Version

\* A transaction that has written nothing.
LEMMA FreshChains ==
    ASSUME NEW CONSTANT b, NEW stk, Stocks(b, stk), NEW t, t.log = <<>>, t.wrote = [c \in Board(b) |-> NoRow],
           t.missed = {}
    PROVE  Chains(b, t, stk)
<1>1. <<>> \in Seq(Entry(b)) /\ Len(<<>>) = 0 /\ \A j \in 1..0 : FALSE
  OBVIOUS
<1>2. \A c \in Board(b) : t.wrote[c] = NoRow
  OBVIOUS
<1>3. ASSUME NEW c \in Kept(b) PROVE Follows(b, t, stk, c)
  <2>1. t.wrote[c] = NoRow /\ Seen(t, stk, c) = stk[c] /\ c \in Board(b)
    BY <1>2 DEF Seen, Kept
  <2>2. Tally(<<>>, c) = 0
    BY <1>1, TallyNone
  <2>3. Version(stk[c]) \in Int
    BY <2>1 DEF Stocks, Version, Row
  <2> QED
    BY <1>1, <2>1, <2>2, <2>3 DEF Leads, Follows
<1> QED
  BY <1>1, <1>2, <1>3 DEF Chains

\* A transaction that has written nothing more.
LEMMA SkippedChains ==
    ASSUME NEW CONSTANT b, NEW stk, NEW t, Chains(b, t, stk), NEW u, u.missed \cap Kept(b) = {},
           u.wrote = t.wrote, u.log = t.log, u.ref = t.ref, t.held \subseteq u.held
    PROVE  Chains(b, u, stk)
BY DEF Chains, Seen, Follows, Starts

\* upsert_and_log: the entry starts from the quantity seen, where the row was
\* not missed.
LEMMA UpsertedChains ==
    ASSUME NEW CONSTANT b, NEW stk, Stocks(b, stk), NEW t \in OpenTxn(b), Chains(b, t, stk),
           NEW u \in OpenTxn(b), NEW e \in Entry(b), NEW r \in Row, u.missed = {},
           u.log = Append(t.log, e), u.wrote = [t.wrote EXCEPT ![e.cell] = r],
           u.held = t.held \cup {e.cell}, u.ref = t.ref, e.ref = t.ref, e.after = r.quantity,
           e.cell \in Kept(b) => e.before = Amount(Seen(t, stk, e.cell)),
           r.version = Version(Seen(t, stk, e.cell)) + 1
    PROVE  Chains(b, u, stk)
<1>1. PICK ls, c, n : ls = t.log /\ c = e.cell /\ n = Len(ls)
  OBVIOUS
<1>2. /\ ls \in Seq(Entry(b)) /\ n \in Nat /\ c \in Board(b) /\ t.wrote \in [Board(b) -> Row \cup {NoRow}]
      /\ Len(u.log) = n + 1 /\ u.log[n + 1] = e /\ \A k \in 1..n : u.log[k] = ls[k]
  <2>1. ls \in Seq(Entry(b)) /\ t.wrote \in [Board(b) -> Row \cup {NoRow}]
    BY <1>1, OpenFields
  <2>2. c \in Board(b)
    BY <1>1 DEF Entry
  <2> QED
    BY <1>1, <2>1, <2>2
<1>3. r # NoRow /\ Amount(r) = r.quantity /\ Version(r) = r.version
  BY RowThere
<1>4. u.wrote[c] = r /\ \A d \in Board(b) : d # c => u.wrote[d] = t.wrote[d]
  BY <1>1, <1>2
<1>5. Seen(u, stk, c) = r /\ \A d \in Board(b) : d # c => Seen(u, stk, d) = Seen(t, stk, d)
  BY <1>3, <1>4 DEF Seen
<1>6. \A d \in Board(b) : u.wrote[d] # NoRow => d \in u.held
  BY <1>1, <1>4 DEF Chains
<1>7. ASSUME NEW d \in Kept(b) PROVE Follows(b, u, stk, d)
  <2>1. PICK o, v : o = Amount(stk[d]) /\ v = Amount(Seen(t, stk, d))
    OBVIOUS
  <2>2. Leads(ls, d, o, Len(ls), v) /\ Version(Seen(t, stk, d)) = Version(stk[d]) + Tally(ls, d)
    BY <1>1, <2>1 DEF Chains, Follows
  <2>3. Leads(Append(ls, e), d, o, Len(ls) + 1, IF e.cell = d THEN e.after ELSE v)
    BY <1>2, <2>2, LeadsAppend
  <2>4. Tally(ls, d) \in Nat /\ Tally(Append(ls, e), d) = IF e.cell = d THEN Tally(ls, d) + 1 ELSE Tally(ls, d)
    BY <1>2, TallyAppend
  <2>5. Version(stk[d]) \in Int /\ d \in Board(b)
    BY DEF Stocks, Version, Row, Kept
  <2>6. CASE d = c
    <3>1. u.log = Append(ls, e) /\ Len(u.log) = Len(ls) + 1 /\ e.cell = d
      BY <1>1, <1>2, <2>6
    <3>2. Leads(u.log, d, o, Len(u.log), e.after)
      BY <2>3, <3>1
    <3>3. Amount(Seen(u, stk, d)) = e.after /\ Version(Seen(u, stk, d)) = Version(Seen(t, stk, d)) + 1
      BY <1>1, <1>3, <1>5, <2>6
    <3>4. Tally(u.log, d) = Tally(ls, d) + 1
      BY <2>4, <3>1
    <3>5. Version(Seen(u, stk, d)) = Version(stk[d]) + Tally(u.log, d)
      BY <2>2, <2>4, <2>5, <3>3, <3>4
    <3> QED
      BY <2>1, <3>2, <3>3, <3>5 DEF Follows
  <2>7. CASE d # c
    BY <1>1, <1>2, <1>5, <2>1, <2>2, <2>3, <2>4, <2>5, <2>7 DEF Follows
  <2> QED
    BY <2>6, <2>7
<1>8. ASSUME NEW k \in 1..Len(u.log)
      PROVE  Starts(b, u, stk, k) /\ u.log[k].cell \in u.held /\ u.log[k].ref = u.ref
  <2>1. PICK m \in Nat : m = k - 1 /\ k = m + 1 /\ m <= n
    <3>1. k - 1 \in Nat /\ k = (k - 1) + 1 /\ k - 1 <= n
      BY <1>2
    <3> QED
      BY <3>1
  <2>2. \A j \in 1..m : j \in 1..n /\ u.log[j] = ls[j]
    BY <1>2, <2>1
  <2>3. CASE k \in 1..n
    <3>1. PICK d, o, v : d = ls[k].cell /\ o = Amount(stk[d]) /\ v = ls[k].before
      OBVIOUS
    <3>2. (d \in Kept(b) => Leads(ls, d, o, m, v)) /\ d \in t.held /\ ls[k].ref = t.ref
      BY <1>1, <2>1, <2>3, <3>1 DEF Chains, Starts
    <3>3. ASSUME d \in Kept(b) PROVE Leads(u.log, d, o, m, v)
      <4>1. Leads(ls, d, o, m, v)
        BY <3>2, <3>3
      <4> QED
        BY <2>2, <4>1, LeadsSame
    <3> QED
      BY <1>2, <2>1, <2>3, <3>1, <3>2, <3>3 DEF Starts
  <2>4. CASE k = n + 1
    <3>1. PICK o, v : o = Amount(stk[c]) /\ v = Amount(Seen(t, stk, c))
      OBVIOUS
    <3>2. c \in Kept(b) => Leads(ls, c, o, n, v)
      BY <1>1, <1>2, <3>1 DEF Chains, Follows
    <3>3. m = n
      BY <1>2, <2>1, <2>4
    <3>4. ASSUME c \in Kept(b) PROVE Leads(u.log, c, o, m, v)
      <4>1. Leads(ls, c, o, m, v)
        BY <3>2, <3>3, <3>4
      <4> QED
        BY <2>2, <4>1, LeadsSame
    <3> QED
      BY <1>1, <1>2, <2>1, <2>4, <3>1, <3>3, <3>4 DEF Starts
  <2> QED
    BY <1>2, <2>3, <2>4
<1> QED
  BY <1>6, <1>7, <1>8 DEF Chains

\* The legs of a transfer issue and receive.
LEMMA LegNotAdjust == \A d, k : LegAt(d, k).op # "adjust" /\ LegAt(d, k).op \in {"issue", "receive"}
BY DEF LegAt

\* A leg of a check or of initial stock that had nothing to adjust.
LEMMA SkippedWorks ==
    ASSUME NEW CONSTANT b, NEW t \in OpenTxn(b), NEW dcs, NEW stk, Works(b, t, dcs, stk),
           NEW k \in 1..Len(t.todo), t.todo[k].op = "adjust", t.op = "approve_transfer" => k = 1,
           NEW u \in OpenTxn(b), Goes(t, u), u.todo = Docs(b)!Without(t.todo, k), t.held \subseteq u.held,
           u.wrote = t.wrote, u.log = t.log
    PROVE  Works(b, u, dcs, stk)
<1>1. /\ t.todo \in Seq(Legs(b)) /\ t.log \in Seq(Entry(b))
      /\ t.op \in {"submit", "approve_check", "approve_transfer", "initial"}
  BY OpenFields
<1>2. /\ u.todo \in Seq(Legs(b)) /\ Len(u.todo) = Len(t.todo) - 1
      /\ \A j \in 1..Len(u.todo) : \E i \in 1..Len(t.todo) : u.todo[j] = t.todo[i]
  <2>1. PICK td : td = u.todo /\ td = Docs(b)!Without(t.todo, k)
    OBVIOUS
  <2>2. Shorter(Legs(b), t.todo, k, td)
    BY <1>1, <2>1, WithoutShape
  <2> QED
    BY <2>1, <2>2 DEF Shorter
<1>3. CASE t.op = "submit"
  BY <1>3 DEF Works, Serves
<1>4. CASE t.op = "approve_transfer"
  <2>1. k = 1 /\ t.todo[k] = LegAt(dcs[t.ref], Len(t.log) + k)
    BY <1>4 DEF Works, Serves
  <2> QED
    BY <2>1, LegNotAdjust
<1>5. CASE t.op = "approve_check"
  <2>1. /\ u.op = t.op /\ u.ref = t.ref /\ u.before = t.before /\ u.status = t.status
    BY <1>5 DEF Goes
  <2>2. Serves(b, t, dcs)
    BY <1>5 DEF Works
  <2>3. \A j \in 1..Len(t.todo) : CountLeg(dcs[t.ref], t.todo[j])
    BY <1>5, <2>2 DEF Serves
  <2>4. \A j \in 1..Len(u.todo) : CountLeg(dcs[u.ref], u.todo[j])
    BY <1>2, <2>1, <2>3
  <2> QED
    BY <1>5, <2>1, <2>2, <2>4 DEF Works, Serves
<1>6. CASE t.op = "initial"
  <2>1. u.op = t.op /\ u.cell = t.cell /\ u.before = t.before /\ Founds(t, stk)
    BY <1>6 DEF Goes, Works
  <2>2. Len(u.todo) = 0 /\ u.todo = <<>>
    <3>1. PICK n \in Nat : n = Len(t.todo)
      BY <1>1
    <3>2. k \in 1..n /\ n <= 1
      BY <2>1, <3>1 DEF Founds
    <3>3. n - 1 = 0
      BY <3>2
    <3>4. u.todo \in Seq(Legs(b)) /\ Len(u.todo) = 0
      BY <1>2, <3>1, <3>3
    <3> QED
      BY <3>4
  <2>3. t.todo # <<>>
    OBVIOUS
  <2> QED
    BY <1>6, <2>1, <2>2, <2>3 DEF Works, Founds
<1> QED
  BY <1>1, <1>3, <1>4, <1>5, <1>6

\* The entry that a leg makes.
Enters(leg, e) ==
    /\ e.cell = leg.cell /\ e.type = leg.type
    /\ leg.op = "adjust" => e.after = leg.n /\ e.quantity = e.after - e.before
    /\ leg.op # "adjust" => e.quantity = leg.n

\* A leg that was posted.
LEMMA UpsertedWorks ==
    ASSUME NEW CONSTANT b, NEW t \in OpenTxn(b), NEW dcs, NEW stk, Stocks(b, stk), Works(b, t, dcs, stk),
           NEW k \in 1..Len(t.todo), t.op = "approve_transfer" => k = 1,
           NEW u \in OpenTxn(b), Goes(t, u), u.todo = Docs(b)!Without(t.todo, k), t.held \subseteq u.held,
           NEW e \in Entry(b), NEW r \in Row, u.log = Append(t.log, e), u.wrote = [t.wrote EXCEPT ![e.cell] = r],
           Enters(t.todo[k], e),
           r.version = Version(Seen(t, stk, e.cell)) + 1
    PROVE  Works(b, u, dcs, stk)
<1>1. /\ t.todo \in Seq(Legs(b)) /\ t.log \in Seq(Entry(b)) /\ t.wrote \in [Board(b) -> Row \cup {NoRow}]
      /\ t.op \in {"submit", "approve_check", "approve_transfer", "initial"}
  BY OpenFields
<1>2. /\ u.todo \in Seq(Legs(b)) /\ Len(u.todo) = Len(t.todo) - 1
      /\ \A j \in 1..Len(u.todo) : \E i \in 1..Len(t.todo) : u.todo[j] = t.todo[i]
      /\ \A j \in 1..(Len(t.todo) - 1) : u.todo[j] = IF j < k THEN t.todo[j] ELSE t.todo[j + 1]
  <2>1. PICK td : td = u.todo /\ td = Docs(b)!Without(t.todo, k)
    OBVIOUS
  <2>2. Shorter(Legs(b), t.todo, k, td)
    BY <1>1, <2>1, WithoutShape
  <2> QED
    BY <2>1, <2>2 DEF Shorter
<1>3. /\ Len(t.log) \in Nat /\ Len(t.todo) \in Nat /\ Len(u.log) = Len(t.log) + 1
      /\ u.log[Len(t.log) + 1] = e /\ \A j \in 1..Len(t.log) : u.log[j] = t.log[j]
  BY <1>1
<1>4. \A j \in 1..Len(u.log) : j \in 1..Len(t.log) \/ j = Len(t.log) + 1
  BY <1>3
<1>5. CASE t.op = "submit"
  BY <1>5 DEF Works, Serves
<1>6. CASE t.op = "approve_transfer"
  <2>1. /\ u.op = t.op /\ u.ref = t.ref /\ u.before = t.before /\ u.status = t.status /\ k = 1
    BY <1>6 DEF Goes
  <2>2. Serves(b, t, dcs)
    BY <1>6 DEF Works
  <2>3. PICK d, m, n : d = dcs[t.ref] /\ m = Len(t.log) /\ n = Len(t.todo)
    OBVIOUS
  <2>4. /\ m + n = 2 * Len(d.lines) /\ \A j \in 1..n : t.todo[j] = LegAt(d, m + j)
        /\ \A j \in 1..m : Carried(LegAt(d, j), t.log[j])
    BY <1>6, <2>2, <2>3 DEF Serves
  <2>10. m \in Nat /\ n \in Nat /\ Len(u.log) = m + 1 /\ Len(u.todo) = n - 1
    BY <1>2, <1>3, <2>3
  <2>5. Len(u.log) + Len(u.todo) = 2 * Len(d.lines)
    <3>1. (m + 1) + (n - 1) = m + n
      BY <2>10
    <3> QED
      BY <2>4, <2>10, <3>1
  <2>6. ASSUME NEW j \in 1..Len(u.todo) PROVE u.todo[j] = LegAt(d, Len(u.log) + j)
    <3>1. j \in 1..(n - 1) /\ j + 1 \in 1..n /\ ~(j < 1)
      BY <2>10
    <3>2. u.todo[j] = t.todo[j + 1]
      BY <1>2, <2>1, <2>3, <3>1
    <3>3. Len(u.log) + j = m + (j + 1)
      BY <2>10
    <3> QED
      BY <2>4, <3>1, <3>2, <3>3
  <2>7. t.todo[k] = LegAt(d, m + 1) /\ t.todo[k].op # "adjust"
    BY <2>1, <2>4, <2>3, LegNotAdjust
  <2>8. Carried(LegAt(d, m + 1), e)
    BY <2>1, <2>3, <2>7 DEF Carried, Enters
  <2>9. \A j \in 1..Len(u.log) : Carried(LegAt(d, j), u.log[j])
    BY <1>3, <1>4, <2>3, <2>4, <2>8
  <2> QED
    BY <1>6, <2>1, <2>2, <2>3, <2>5, <2>6, <2>9 DEF Works, Serves
<1>7. CASE t.op = "approve_check"
  <2>1. /\ u.op = t.op /\ u.ref = t.ref /\ u.before = t.before /\ u.status = t.status
    BY <1>7 DEF Goes
  <2>2. Serves(b, t, dcs)
    BY <1>7 DEF Works
  <2>3. PICK d : d = dcs[t.ref]
    OBVIOUS
  <2>4. /\ \A j \in 1..Len(t.todo) : CountLeg(d, t.todo[j])
        /\ \A j \in 1..Len(t.log) : Counted(d, t.log[j])
    BY <1>7, <2>2, <2>3 DEF Serves
  <2>5. \A j \in 1..Len(u.todo) : CountLeg(d, u.todo[j])
    BY <1>2, <2>4
  <2>6. Counted(d, e)
    <3>1. PICK i \in 1..Len(d.lines) :
            t.todo[k] = [op |-> "adjust", type |-> "check", cell |-> <<d.lines[i].item, d.warehouse>>,
                         n |-> d.lines[i].actual]
      BY <2>4 DEF CountLeg
    <3>2. e.cell = <<d.lines[i].item, d.warehouse>> /\ e.after = d.lines[i].actual /\ e.quantity = e.after - e.before
      BY <3>1 DEF Enters
    <3> QED
      BY <3>2 DEF Counted
  <2>7. \A j \in 1..Len(u.log) : Counted(d, u.log[j])
    BY <1>3, <1>4, <2>4, <2>6
  <2> QED
    BY <1>7, <2>1, <2>2, <2>3, <2>5, <2>7 DEF Works, Serves
<1>8. CASE t.op = "initial"
  <2>1. u.op = t.op /\ u.cell = t.cell /\ u.before = t.before /\ Founds(t, stk)
    BY <1>8 DEF Goes, Works
  <2>2. Len(u.todo) = 0 /\ u.todo = <<>>
    <3>1. PICK n \in Nat : n = Len(t.todo)
      BY <1>1
    <3>2. k \in 1..n /\ n <= 1
      BY <2>1, <3>1 DEF Founds
    <3>3. n - 1 = 0
      BY <3>2
    <3>4. u.todo \in Seq(Legs(b)) /\ Len(u.todo) = 0
      BY <1>2, <3>1, <3>3
    <3> QED
      BY <3>4
  <2>3. t.todo # <<>> /\ e.cell = t.cell
    BY <2>1 DEF Founds, Enters
  <2>4. t.cell \in Board(b) /\ t.before \in Row \cup {NoRow}
    BY <1>8, OpenFields DEF InitialTxn
  <2>5. ASSUME t.before # NoRow
        PROVE  stk[u.cell] = u.before /\ u.cell \in u.held /\ u.wrote[u.cell].version = u.before.version + 1
    <3>1. t.wrote[t.cell] = NoRow /\ stk[t.cell] = t.before /\ t.cell \in t.held
      BY <2>1, <2>3, <2>5 DEF Founds
    <3>2. Seen(t, stk, e.cell) = t.before /\ Version(t.before) = t.before.version
      BY <2>3, <2>5, <3>1 DEF Seen, Version
    <3>3. u.wrote[t.cell] = r
      BY <1>1, <2>3, <2>4
    <3> QED
      BY <2>1, <3>1, <3>2, <3>3
  <2> QED
    BY <1>8, <2>1, <2>2, <2>5 DEF Works, Founds
<1> QED
  BY <1>1, <1>5, <1>6, <1>7, <1>8

\* One transaction starts, goes on or is rolled back; the tables stay.
LEMMA DocMoves ==
    ASSUME NEW CONSTANT b, PaperInv(b), NEW w \in Workers, docs' = docs, stock' = stock, log' = log,
           trail' = trail, NEW t, txn' = [txn EXCEPT ![w] = t],
           t # NoTxn => /\ t \in OpenTxn(b) /\ Chains(b, t, stock) /\ Works(b, t, docs, stock)
                        /\ \A v \in Workers \ {w} : txn[v] # NoTxn => Apart(b, t, txn[v]) /\ Apart(b, txn[v], t)
    PROVE  PaperInv(b)'
<1>1. txn'[w] = t /\ (\A v \in Workers \ {w} : txn'[v] = txn[v]) /\ txn' = [v \in Workers |-> txn'[v]]
  BY DEF PaperInv, Dealings
<1>2. Dealings(b, txn')
  BY <1>1 DEF PaperInv, Dealings
<1>3. Locked(b, txn')
  BY <1>1 DEF PaperInv, Locked
<1>4. \A v \in Workers : txn'[v] # NoTxn => Chains(b, txn'[v], stock) /\ Works(b, txn'[v], docs, stock)
  BY <1>1 DEF PaperInv
<1>5. /\ Papers(b, docs) /\ Stocks(b, stock) /\ Ledger(b, log, stock) /\ Posts(b, docs, log) /\ Trails(b, docs, trail)
  BY DEF PaperInv
<1> QED
  BY <1>2, <1>3, <1>4, <1>5 DEF PaperInv

\* A request finds no row: it has no row of its own, nor is there one.
LEMMA DocMiss ==
    ASSUME NEW CONSTANT b, PaperInv(b), NEW w \in Workers, NEW k, Docs(b)!MissRow(w, k)
    PROVE  PaperInv(b)'
<1>1. PICK t : t = txn[w]
  OBVIOUS
<1>2. /\ t # NoTxn /\ k \in DOMAIN t.todo /\ docs' = docs /\ stock' = stock /\ log' = log /\ trail' = trail
      /\ Docs(b)!Visible(w, t.todo[k].cell) = NoRow
      /\ txn' = [txn EXCEPT ![w].missed = {t.todo[k].cell}]
  BY <1>1 DEF Docs!MissRow, Docs!NextLeg, Docs!Idle, NoTxn, Docs!Absent, NoRow
<1>3. t \in OpenTxn(b) /\ Chains(b, t, stock) /\ Works(b, t, docs, stock) /\ txn = [v \in Workers |-> txn[v]]
  BY <1>1, <1>2 DEF PaperInv, Dealings
<1>4. PICK c : c = t.todo[k].cell
  OBVIOUS
<1>5. c \in Board(b)
  <2>1. t.todo \in Seq(Legs(b))
    BY <1>3, OpenFields
  <2>2. t.todo[k] \in Legs(b)
    BY <1>2, <2>1
  <2> QED
    BY <1>4, <2>2 DEF Legs
<1>6. c \notin Kept(b)
  <2>1. t.wrote[c] = NoRow /\ stock[c] = NoRow
    BY <1>1, <1>2, <1>4 DEF Docs!Visible, Docs!Absent, NoRow
  <2> QED
    BY <2>1 DEF PaperInv, Ledger
<1>7. PICK u : MissesTo(t, {c}, u)
  BY DEF MissesTo
<1>8. txn' = [txn EXCEPT ![w] = u]
  BY <1>1, <1>2, <1>3, <1>4, <1>7 DEF MissesTo
<1>9. /\ u \in OpenTxn(b) /\ Goes(t, u) /\ u.todo = t.todo /\ u.held = t.held /\ u.wrote = t.wrote
      /\ u.log = t.log /\ u.missed = {c}
  <2>1. {c} \in SUBSET Board(b)
    BY <1>5
  <2> QED
    BY <1>3, <1>7, <2>1, FieldsMissed
<1>10. Chains(b, u, stock)
  BY <1>3, <1>6, <1>9, SkippedChains DEF Goes
<1>11. Works(b, u, docs, stock)
  <2>1. u.op = t.op /\ u.ref = t.ref /\ u.before = t.before
    BY <1>9 DEF Goes
  <2>2. CASE t.op = "initial"
    <3>1. u.cell = t.cell
      BY <1>9, <2>2 DEF Goes
    <3> QED
      BY <1>3, <1>9, <2>1, <2>2, <3>1 DEF Works, Founds
  <2>3. CASE t.op # "initial"
    <3>1. u.status = t.status
      BY <1>9, <2>3 DEF Goes
    <3> QED
      BY <1>3, <1>9, <2>1, <2>3, <3>1 DEF Works, Serves
  <2> QED
    BY <2>2, <2>3
<1>12. \A v \in Workers \ {w} : txn[v] # NoTxn => Apart(b, u, txn[v]) /\ Apart(b, txn[v], u)
  <2>1. u.ref = t.ref
    BY <1>9 DEF Goes
  <2> QED
    BY <1>1, <1>2, <1>9, <2>1 DEF PaperInv, Locked, Apart
<1> QED
  BY <1>2, <1>8, <1>9, <1>10, <1>11, <1>12, DocMoves

\* Every posting of a line keeps the invariant.
LEMMA DocPost ==
    ASSUME NEW CONSTANT b, PaperInv(b), NEW w \in Workers, NEW k, Docs(b)!Post(w, k)
    PROVE  PaperInv(b)'
<1>1. PICK t : t = txn[w]
  OBVIOUS
<1>2. /\ t # NoTxn /\ t \in OpenTxn(b) /\ Chains(b, t, stock) /\ Works(b, t, docs, stock) /\ Stocks(b, stock)
  BY <1>1 DEF Docs!Post, Docs!NextLeg, Docs!Idle, NoTxn, PaperInv, Dealings
<1>3. /\ docs' = docs /\ stock' = stock /\ log' = log /\ trail' = trail
      /\ k \in DOMAIN t.todo /\ (t.op = "approve_transfer" => k = 1)
  BY <1>1 DEF Docs!Post, Docs!NextLeg
<1>4. /\ t.todo \in Seq(Legs(b)) /\ t.log \in Seq(Entry(b)) /\ t.wrote \in [Board(b) -> Row \cup {NoRow}]
      /\ t.held \in SUBSET Board(b) /\ k \in 1..Len(t.todo) /\ t.ref \in Paper(b) \cup b.initials
  BY <1>2, <1>3, OpenFields
<1>5. PICK leg : leg = t.todo[k]
  OBVIOUS
<1>6. /\ leg \in Legs(b) /\ leg.cell \in Board(b) /\ leg.n \in Int /\ leg.op \in {"issue", "receive", "adjust"}
      /\ leg.type \in {"out", "in", "check"}
  <2>1. leg \in Legs(b)
    BY <1>4, <1>5
  <2> QED
    BY <2>1 DEF Legs
<1>7. PICK row : row = Seen(t, stock, leg.cell)
  OBVIOUS
<1>8. Docs(b)!Visible(w, leg.cell) = row
  BY <1>1, <1>7 DEF Docs!Visible, Seen, Docs!Absent, NoRow
<1>9. row \in Row \cup {NoRow} /\ Amount(row) \in Int /\ Version(row) \in Nat
  <2>1. row \in Row \cup {NoRow}
    BY <1>2, <1>4, <1>6, <1>7 DEF Seen, Stocks
  <2> QED
    BY <2>1 DEF Amount, Version, Row
<1>10. PICK old : old = Docs(b)!Before(w, leg.cell)
  OBVIOUS
<1>11. old \in Int /\ (leg.cell \in Kept(b) => old = Amount(row))
  <2>1. Docs(b)!Quantity(row) = Amount(row)
    BY DEF Docs!Quantity, Amount, Docs!Absent, NoRow
  <2>2. old = IF leg.cell \in t.missed THEN 0 ELSE Amount(row)
    BY <1>1, <1>8, <1>10, <2>1 DEF Docs!Before
  <2>3. leg.cell \in Kept(b) => leg.cell \notin t.missed
    BY <1>2 DEF Chains
  <2> QED
    BY <1>9, <2>2, <2>3
<1>12. PICK after : after = Docs(b)!AfterQty(old, leg)
  OBVIOUS
<1>13. after \in Int /\ (leg.op = "adjust" => after = leg.n)
  BY <1>6, <1>11, <1>12 DEF Docs!AfterQty
<1>14. PICK u : u = IF leg.op = "adjust" /\ after = old THEN Docs(b)!Skipped(t, k)
                    ELSE Docs(b)!Upserted(t, k, row, old, after)
  OBVIOUS
<1>15. /\ txn' = [txn EXCEPT ![w] = u]
       /\ Docs(b)!FreeCell(w, leg.cell) \/ (leg.op = "adjust" /\ after = old /\ leg.cell \in t.missed)
  BY <1>1, <1>5, <1>8, <1>10, <1>12, <1>14 DEF Docs!Post
<1>16. Docs(b)!FreeCell(w, leg.cell) => \A v \in Workers \ {w} : txn[v] # NoTxn => leg.cell \notin txn[v].held
  BY DEF Docs!FreeCell, Docs!Idle, NoTxn
<1>17. PICK td : td = Docs(b)!Without(t.todo, k)
  OBVIOUS
<1>18. td \in Seq(Legs(b))
  BY <1>4, <1>17, WithoutShape DEF Shorter
<1>19. ASSUME u \in OpenTxn(b), Goes(t, u),
              u.held = t.held \/ (u.held = t.held \cup {leg.cell} /\ Docs(b)!FreeCell(w, leg.cell))
       PROVE  \A v \in Workers \ {w} : txn[v] # NoTxn => Apart(b, u, txn[v]) /\ Apart(b, txn[v], u)
  <2>1. TAKE v \in Workers \ {w}
  <2>2. HAVE txn[v] # NoTxn
  <2>3. Apart(b, t, txn[v]) /\ Apart(b, txn[v], t)
    BY <1>1, <1>2, <2>2 DEF PaperInv, Locked
  <2>4. u.ref = t.ref
    BY <1>19 DEF Goes
  <2> QED
    BY <1>16, <1>19, <2>2, <2>3, <2>4 DEF Apart
<1>20. CASE leg.op = "adjust" /\ after = old
  <2>1. PICK h : h = t.held \cup ({leg.cell} \ t.missed)
    OBVIOUS
  <2>2. h \in SUBSET Board(b) /\ t.held \subseteq h
    BY <1>4, <1>6, <2>1
  <2>3. SkipsTo(t, td, h, u)
    BY <1>5, <1>14, <1>17, <1>20, <2>1 DEF SkipsTo, Docs!Skipped
  <2>4. /\ u \in OpenTxn(b) /\ Goes(t, u) /\ u.todo = td /\ u.held = h /\ u.wrote = t.wrote /\ u.log = t.log
        /\ u.missed = {}
    BY <1>2, <1>18, <2>2, <2>3, FieldsSkipped
  <2>5. Chains(b, u, stock)
    BY <1>2, <2>2, <2>4, SkippedChains DEF Goes
  <2>6. Works(b, u, docs, stock)
    <3>1. t.todo[k].op = "adjust"
      BY <1>5, <1>20
    <3> QED
      BY <1>2, <1>3, <1>4, <1>17, <2>2, <2>4, <3>1, SkippedWorks
  <2>7. \A v \in Workers \ {w} : txn[v] # NoTxn => Apart(b, u, txn[v]) /\ Apart(b, txn[v], u)
    <3>1. CASE leg.cell \in t.missed
      BY <1>19, <2>1, <2>4, <3>1
    <3>2. CASE leg.cell \notin t.missed
      BY <1>15, <1>19, <2>1, <2>4, <3>2
    <3> QED
      BY <3>1, <3>2
  <2> QED
    BY <1>3, <1>15, <2>4, <2>5, <2>6, <2>7, DocMoves
<1>21. CASE ~(leg.op = "adjust" /\ after = old)
  <2>1. PICK e : e = [cell |-> leg.cell, type |-> leg.type, ref |-> t.ref,
                      quantity |-> IF leg.op = "adjust" THEN after - old ELSE leg.n,
                      before |-> old, after |-> after]
    OBVIOUS
  <2>2. PICK r : r = [quantity |-> after, version |-> Version(row) + 1]
    OBVIOUS
  <2>3. e \in Entry(b) /\ r \in Row
    <3>1. Version(row) + 1 \in Nat \ {0}
      BY <1>9
    <3>2. (IF leg.op = "adjust" THEN after - old ELSE leg.n) \in Int
      BY <1>6, <1>11, <1>13
    <3> QED
      BY <1>4, <1>6, <1>11, <1>13, <2>1, <2>2, <3>1, <3>2 DEF Entry, Row
  <2>4. PICK h, wr, ls : h = t.held \cup {leg.cell} /\ wr = [t.wrote EXCEPT ![leg.cell] = r] /\ ls = Append(t.log, e)
    OBVIOUS
  <2>5. h \in SUBSET Board(b) /\ wr \in [Board(b) -> Row \cup {NoRow}] /\ ls \in Seq(Entry(b)) /\ t.held \subseteq h
    BY <1>4, <1>6, <2>3, <2>4
  <2>6. (IF row = NoRow THEN 1 ELSE row.version + 1) = Version(row) + 1
    BY DEF Version
  <2>7. WritesTo(t, td, h, wr, ls, u)
    <3>1. u = Docs(b)!Upserted(t, k, row, old, after)
      BY <1>14, <1>21
    <3>2. u = [t EXCEPT !.todo = Docs(b)!Without(t.todo, k), !.missed = {}, !.held = t.held \cup {leg.cell},
                        !.wrote = [t.wrote EXCEPT ![leg.cell] =
                           [quantity |-> after, version |-> IF row = NoRow THEN 1 ELSE row.version + 1]],
                        !.log = Append(t.log,
                          [cell |-> leg.cell, type |-> leg.type, ref |-> t.ref,
                           quantity |-> IF leg.op = "adjust" THEN after - old ELSE leg.n,
                           before |-> old, after |-> after])]
      BY <1>5, <3>1 DEF Docs!Upserted, Docs!Absent, NoRow
    <3>3. r = [quantity |-> after, version |-> IF row = NoRow THEN 1 ELSE row.version + 1]
      BY <2>2, <2>6
    <3> QED
      BY <1>17, <2>1, <2>4, <3>2, <3>3, Zenon DEF WritesTo
  <2>8. /\ u \in OpenTxn(b) /\ Goes(t, u) /\ u.todo = td /\ u.held = h /\ u.wrote = wr /\ u.log = ls
        /\ u.missed = {}
    <3>1. t \in OpenTxn(b) /\ td \in Seq(Legs(b))
      BY <1>2, <1>18
    <3>2. h \in SUBSET Board(b) /\ wr \in [Board(b) -> Row \cup {NoRow}] /\ ls \in Seq(Entry(b))
      BY <2>5
    <3>3. Written(b, t, td, h, wr, ls, u)
      BY <2>7, <3>1, <3>2, FieldsUpserted
    <3> QED
      BY <3>3 DEF Written
  <2>9. /\ e.cell = leg.cell /\ e.type = leg.type /\ e.ref = t.ref /\ e.before = old /\ e.after = after
        /\ (leg.op = "adjust" => e.quantity = after - old) /\ (leg.op # "adjust" => e.quantity = leg.n)
        /\ r.quantity = after /\ r.version = Version(row) + 1 /\ u.ref = t.ref
    BY <2>1, <2>2, <2>8 DEF Goes
  <2>10. Chains(b, u, stock)
    <3>1. /\ u.log = Append(t.log, e) /\ u.wrote = [t.wrote EXCEPT ![e.cell] = r] /\ u.held = t.held \cup {e.cell}
          /\ (e.cell \in Kept(b) => e.before = Amount(Seen(t, stock, e.cell))) /\ e.after = r.quantity
          /\ r.version = Version(Seen(t, stock, e.cell)) + 1
      BY <1>7, <1>11, <2>4, <2>8, <2>9
    <3> QED
      BY <1>2, <2>3, <2>8, <2>9, <3>1, UpsertedChains
  <2>11. Works(b, u, docs, stock)
    <3>1. /\ u.todo = Docs(b)!Without(t.todo, k) /\ t.held \subseteq u.held
          /\ u.log = Append(t.log, e) /\ u.wrote = [t.wrote EXCEPT ![e.cell] = r]
          /\ r.version = Version(Seen(t, stock, e.cell)) + 1
      BY <1>5, <1>7, <1>17, <2>4, <2>5, <2>8, <2>9
    <3>2. Enters(t.todo[k], e)
      BY <1>5, <1>13, <2>9 DEF Enters
    <3> QED
      BY <1>2, <1>3, <1>4, <2>3, <2>8, <3>1, <3>2, UpsertedWorks
  <2>12. \A v \in Workers \ {w} : txn[v] # NoTxn => Apart(b, u, txn[v]) /\ Apart(b, txn[v], u)
    BY <1>15, <1>19, <1>21, <2>4, <2>8
  <2> QED
    BY <1>3, <1>15, <2>8, <2>10, <2>11, <2>12, DocMoves
<1> QED
  BY <1>20, <1>21

\* The flow of both kinds of documents.
LEMMA PaperStatus ==
    ASSUME NEW CONSTANT b, NEW s \in Stages
    PROVE  /\ Docs(b)!SubmitStatus(Docs(b)!TR_FLOW, s) = IF s = 0 THEN 1 ELSE 99
           /\ Docs(b)!ApproveStatus(Docs(b)!TR_FLOW, s) = IF s = 1 THEN 3 ELSE 99
           /\ Docs(b)!CH_FLOW = Docs(b)!TR_FLOW /\ Docs(b)!Invalid = 99
<1>1. PICK f : f = Docs(b)!TR_FLOW
  OBVIOUS
<1>2. f.submit[1] = 0 /\ f.submit[2] = 1 /\ f.approvals = << <<1, 3>> >>
  BY <1>1 DEF Docs!TR_FLOW, Docs!Draft, Docs!Submitted, Docs!Approved
<1>3. Docs(b)!SubmitStatus(f, s) = IF s = 0 THEN 1 ELSE 99
  BY <1>2 DEF Docs!SubmitStatus, Docs!Invalid
<1>4. DOMAIN f.approvals = {1} /\ f.approvals[1][1] = 1 /\ f.approvals[1][2] = 3
  BY <1>2
<1>5. Docs(b)!ApproveStatus(f, s) = IF s = 1 THEN 3 ELSE 99
  <2>1. PICK hits : hits = {k \in DOMAIN f.approvals : f.approvals[k][1] = s}
    OBVIOUS
  <2>2. PICK m : m = CHOOSE k \in hits : \A j \in hits : k <= j
    OBVIOUS
  <2>3. Docs(b)!ApproveStatus(f, s) = IF hits = {} THEN 99 ELSE f.approvals[m][2]
    BY <2>1, <2>2 DEF Docs!ApproveStatus, Docs!Invalid
  <2>4. hits = IF s = 1 THEN {1} ELSE {}
    BY <1>4, <2>1
  <2>5. s = 1 => m = 1
    BY <2>2, <2>4
  <2> QED
    BY <1>4, <2>3, <2>4, <2>5
<1> QED
  BY <1>1, <1>3, <1>5 DEF Docs!CH_FLOW, Docs!TR_FLOW, Docs!Invalid

\* A transaction of a document starts.
Opens(t, d, op, s, legs, b, dcs) ==
    t = [op |-> op, ref |-> d, before |-> [status |-> dcs[d].status], status |-> s, todo |-> legs,
         held |-> {}, missed |-> {}, wrote |-> [c \in Board(b) |-> NoRow], log |-> <<>>]

\* The start of a transaction keeps the invariant, when what it will do
\* fits its document.
LEMMA DocBegin ==
    ASSUME NEW CONSTANT b, PaperInv(b), NEW w \in Workers, NEW d \in Paper(b), docs[d] # NoRow,
           NEW op \in {"submit", "approve_check", "approve_transfer"}, NEW s \in Stages,
           NEW legs \in Seq(Legs(b)), Docs(b)!Free(d), Docs(b)!Begin(w, op, d, s, legs),
           NEW t, Opens(t, d, op, s, legs, b, docs), Serves(b, t, docs)
    PROVE  PaperInv(b)'
<1>1. docs[d].status \in Stages
  BY DEF PaperInv, Papers, Paper, CheckPaper, MovePaper
<1>2. /\ txn[w] = NoTxn /\ txn' = [txn EXCEPT ![w] = t]
      /\ docs' = docs /\ stock' = stock /\ log' = log /\ trail' = trail
  BY DEF Docs!Begin, Docs!Snapshot, Docs!Idle, NoTxn, Docs!Unwritten, Docs!Absent, NoRow, Docs!StockRows,
         Board, Opens
<1>3. \A v \in Workers : txn[v] # NoTxn => txn[v].ref # d
  BY DEF Docs!Free, Docs!Idle, NoTxn
<1>4. <<>> \in Seq(Entry(b)) /\ [c \in Board(b) |-> NoRow] \in [Board(b) -> Row \cup {NoRow}]
  OBVIOUS
<1>5. t \in OpenTxn(b)
  BY <1>1, <1>4 DEF Opens, OpenTxn, PaperTxn
<1>6. t.ref = d /\ t.held = {} /\ t.missed = {} /\ t.op = op /\ t.log = <<>> /\ t.wrote = [c \in Board(b) |-> NoRow]
  BY DEF Opens
<1>7. Chains(b, t, stock)
  BY <1>6, FreshChains DEF PaperInv
<1>8. Works(b, t, docs, stock)
  BY <1>6 DEF Works
<1>9. \A v \in Workers \ {w} : txn[v] # NoTxn => Apart(b, t, txn[v]) /\ Apart(b, txn[v], t)
  BY <1>3, <1>6 DEF Apart
<1> QED
  BY <1>2, <1>5, <1>7, <1>8, <1>9, DocMoves

\* What submission and approval find.
LEMMA PaperThere ==
    ASSUME NEW CONSTANT b, PaperInv(b), NEW d, d \in Docs(b)!Rows(docs)
    PROVE  /\ d \in Paper(b) /\ docs[d] # NoRow /\ docs[d].status \in Stages
           /\ d \in b.checks => docs[d] \in CheckPaper(b)
           /\ d \in b.transfers => docs[d] \in MovePaper(b)
<1>1. d \in Paper(b) /\ docs[d] # NoRow
  BY DEF Docs!Rows, Docs!Absent, NoRow, PaperInv, Papers
<1>2. (d \in b.checks => docs[d] \in CheckPaper(b)) /\ (d \in b.transfers => docs[d] \in MovePaper(b))
  BY <1>1 DEF PaperInv, Papers
<1> QED
  BY <1>1, <1>2 DEF Paper, CheckPaper, MovePaper

\* Submission of a check or a transfer.
LEMMA DocSubmit ==
    ASSUME NEW CONSTANT b, PaperInv(b), NEW w \in Workers, NEW d,
           Docs(b)!SubmitCheck(w, d) \/ Docs(b)!SubmitTransfer(w, d)
    PROVE  PaperInv(b)'
<1>1. PICK q : q = docs[d].status
  OBVIOUS
<1>2. d \in Docs(b)!Rows(docs) /\ Docs(b)!Free(d)
  BY DEF Docs!SubmitCheck, Docs!SubmitTransfer
<1>3. d \in Paper(b) /\ docs[d] # NoRow /\ q \in Stages
  BY <1>1, <1>2, PaperThere
<1>4. PICK s : s = Docs(b)!SubmitStatus(Docs(b)!TR_FLOW, q)
  OBVIOUS
<1>5. s = (IF q = 0 THEN 1 ELSE 99) /\ Docs(b)!CH_FLOW = Docs(b)!TR_FLOW /\ Docs(b)!Invalid = 99
  BY <1>3, <1>4, PaperStatus
<1>6. s # 99 /\ Docs(b)!Begin(w, "submit", d, s, <<>>)
  BY <1>1, <1>4, <1>5 DEF Docs!SubmitCheck, Docs!SubmitTransfer
<1>7. q = 0 /\ s = 1
  BY <1>5, <1>6
<1>8. PICK t : Opens(t, d, "submit", s, <<>>, b, docs)
  BY DEF Opens
<1>9. Serves(b, t, docs)
  BY <1>1, <1>3, <1>7, <1>8 DEF Opens, Serves
<1>10. <<>> \in Seq(Legs(b)) /\ s \in Stages
  BY <1>7 DEF Stages
<1> QED
  BY <1>2, <1>3, <1>6, <1>8, <1>9, <1>10, DocBegin

\* The approval of a check starts with a leg for each line.
LEMMA DocApproveCheck ==
    ASSUME NEW CONSTANT b, PaperInv(b), NEW w \in Workers, NEW d \in b.checks, Docs(b)!ApproveCheck(w, d)
    PROVE  PaperInv(b)'
<1>1. PICK x, q : x = docs[d] /\ q = docs[d].status
  OBVIOUS
<1>2. d \in Docs(b)!Rows(docs) /\ Docs(b)!Free(d)
  BY DEF Docs!ApproveCheck
<1>3. d \in Paper(b) /\ docs[d] # NoRow /\ q \in Stages /\ x \in CheckPaper(b)
  BY <1>1, <1>2, PaperThere
<1>4. PICK s : s = Docs(b)!ApproveStatus(Docs(b)!TR_FLOW, q)
  OBVIOUS
<1>5. s = (IF q = 1 THEN 3 ELSE 99) /\ Docs(b)!CH_FLOW = Docs(b)!TR_FLOW /\ Docs(b)!Invalid = 99
  BY <1>3, <1>4, PaperStatus
<1>6. PICK legs : legs = [k \in DOMAIN x.lines |->
         [op |-> "adjust", type |-> "check", cell |-> <<x.lines[k].item, x.warehouse>>, n |-> x.lines[k].actual]]
  OBVIOUS
<1>7. s # 99 /\ Docs(b)!Begin(w, "approve_check", d, s, legs)
  <2>1. PICK f, z : f = Docs(b)!CH_FLOW /\ z = Docs(b)!ApproveStatus(f, q)
    OBVIOUS
  <2>2. z # 99 /\ Docs(b)!Begin(w, "approve_check", d, z, legs)
    BY <1>1, <1>5, <1>6, <2>1 DEF Docs!ApproveCheck, Docs!Leg
  <2>3. z = s
    BY <1>4, <1>5, <2>1
  <2> QED
    BY <2>2, <2>3
<1>8. q = 1 /\ s = 3
  BY <1>5, <1>7
<1>9. PICK n : n = Len(x.lines)
  OBVIOUS
<1>10. x.lines \in Seq(CheckLine(b)) /\ x.warehouse \in b.warehouses
  BY <1>3 DEF CheckPaper
<1>11. n \in Nat /\ DOMAIN x.lines = 1..n /\ \A k \in 1..n : x.lines[k] \in CheckLine(b)
  BY <1>9, <1>10
<1>12. ASSUME NEW k \in 1..n PROVE legs[k] \in Legs(b) /\ CountLeg(x, legs[k])
  <2>1. x.lines[k].item \in b.items /\ x.lines[k].actual \in Int
    BY <1>11 DEF CheckLine
  <2>2. legs[k] = [op |-> "adjust", type |-> "check", cell |-> <<x.lines[k].item, x.warehouse>>, n |-> x.lines[k].actual]
    BY <1>6, <1>11
  <2>3. legs[k] \in Legs(b)
    BY <1>10, <2>1, <2>2 DEF Legs, Board
  <2>4. CountLeg(x, legs[k])
    BY <1>9, <2>2 DEF CountLeg
  <2> QED
    BY <2>3, <2>4
<1>13. legs \in Seq(Legs(b)) /\ Len(legs) = n
  <2>1. legs = [k \in 1..n |-> legs[k]]
    BY <1>6, <1>11
  <2> QED
    BY <1>11, <1>12, <2>1
<1>14. PICK t : Opens(t, d, "approve_check", s, legs, b, docs)
  BY DEF Opens
<1>15. Serves(b, t, docs)
  <2>1. /\ t.op = "approve_check" /\ t.ref = d /\ t.before = [status |-> q] /\ t.status = 3 /\ t.todo = legs
        /\ t.log = <<>>
    BY <1>1, <1>8, <1>14 DEF Opens
  <2>2. \A k \in 1..Len(t.todo) : CountLeg(docs[t.ref], t.todo[k])
    BY <1>1, <1>12, <1>13, <2>1
  <2>3. \A k \in 1..Len(t.log) : Counted(docs[t.ref], t.log[k])
    BY <2>1
  <2>9. docs[t.ref] # NoRow /\ t.before = [status |-> docs[t.ref].status] /\ t.before.status = 1
    <3>1. docs[t.ref] = docs[d] /\ docs[d].status = q
      BY <1>1, <2>1
    <3>2. docs[d] # NoRow
      BY <1>3
    <3>3. t.before.status = q /\ q = 1
      BY <1>8, <2>1
    <3> QED
      BY <2>1, <3>1, <3>2, <3>3
  <2> QED
    BY <2>1, <2>2, <2>3, <2>9 DEF Serves
<1>16. s \in Stages
  BY <1>8 DEF Stages
<1> QED
  BY <1>2, <1>3, <1>7, <1>13, <1>14, <1>15, <1>16, DocBegin

\* The approval of a transfer starts with two legs for each line.
LEMMA DocApproveTransfer ==
    ASSUME NEW CONSTANT b, PaperInv(b), NEW w \in Workers, NEW d \in b.transfers, Docs(b)!ApproveTransfer(w, d)
    PROVE  PaperInv(b)'
<1>1. PICK x, q : x = docs[d] /\ q = docs[d].status
  OBVIOUS
<1>2. d \in Docs(b)!Rows(docs) /\ Docs(b)!Free(d)
  BY DEF Docs!ApproveTransfer
<1>3. d \in Paper(b) /\ docs[d] # NoRow /\ q \in Stages /\ x \in MovePaper(b)
  BY <1>1, <1>2, PaperThere
<1>4. PICK s : s = Docs(b)!ApproveStatus(Docs(b)!TR_FLOW, q)
  OBVIOUS
<1>5. s = (IF q = 1 THEN 3 ELSE 99) /\ Docs(b)!Invalid = 99
  BY <1>3, <1>4, PaperStatus
<1>6. PICK legs : legs = Docs(b)!TransferLegs(d)
  OBVIOUS
<1>7. s # 99 /\ Docs(b)!Begin(w, "approve_transfer", d, s, legs)
  BY <1>1, <1>4, <1>5, <1>6 DEF Docs!ApproveTransfer
<1>8. q = 1 /\ s = 3
  BY <1>5, <1>7
<1>9. PICK n, m : n = Len(x.lines) /\ m = 2 * Len(x.lines)
  OBVIOUS
<1>10. x.lines \in Seq(MoveLine(b)) /\ x.from \in b.warehouses /\ x.to \in b.warehouses
  BY <1>3 DEF MovePaper
<1>11. n \in Nat /\ m \in Nat /\ m = 2 * n /\ \A k \in 1..n : x.lines[k] \in MoveLine(b)
  BY <1>9, <1>10
<1>12. legs = [k \in 1..m |-> LegAt(x, k)]
  BY <1>1, <1>6, <1>9 DEF Docs!TransferLegs, Docs!Leg, LegAt
<1>13. ASSUME NEW k \in 1..m PROVE LegAt(x, k) \in Legs(b)
  <2>1. PICK i : i = (k + 1) \div 2
    OBVIOUS
  <2>2. i \in 1..n
    BY <1>11, <2>1
  <2>3. x.lines[i].item \in b.items /\ x.lines[i].quantity \in Int
    BY <1>11, <2>2 DEF MoveLine
  <2> QED
    BY <1>10, <2>1, <2>3 DEF LegAt, Legs, Board
<1>14. legs \in Seq(Legs(b)) /\ Len(legs) = m /\ \A k \in 1..m : legs[k] = LegAt(x, k)
  <2>1. \A k \in 1..m : legs[k] = LegAt(x, k)
    BY <1>12
  <2>2. legs = [k \in 1..m |-> legs[k]] /\ \A k \in 1..m : legs[k] \in Legs(b)
    BY <1>12, <1>13
  <2> QED
    BY <1>11, <2>1, <2>2
<1>15. PICK t : Opens(t, d, "approve_transfer", s, legs, b, docs)
  BY DEF Opens
<1>16. Serves(b, t, docs)
  <2>1. /\ t.op = "approve_transfer" /\ t.ref = d /\ t.before = [status |-> q] /\ t.status = 3 /\ t.todo = legs
        /\ t.log = <<>>
    BY <1>1, <1>8, <1>15 DEF Opens
  <2>2. \A k \in 1..m : Len(t.log) + k = k
    BY <1>11, <2>1
  <2>3. Len(t.log) + Len(t.todo) = 2 * Len(docs[t.ref].lines)
    BY <1>1, <1>9, <1>11, <1>14, <2>1
  <2>4. \A k \in 1..Len(t.todo) : t.todo[k] = LegAt(docs[t.ref], Len(t.log) + k)
    BY <1>1, <1>14, <2>1, <2>2
  <2>5. \A k \in 1..Len(t.log) : Carried(LegAt(docs[t.ref], k), t.log[k])
    BY <2>1
  <2>9. docs[t.ref] # NoRow /\ t.before = [status |-> docs[t.ref].status] /\ t.before.status = 1
    <3>1. docs[t.ref] = docs[d] /\ docs[d].status = q
      BY <1>1, <2>1
    <3>2. docs[d] # NoRow
      BY <1>3
    <3>3. t.before.status = q /\ q = 1
      BY <1>8, <2>1
    <3> QED
      BY <2>1, <3>1, <3>2, <3>3
  <2> QED
    BY <2>1, <2>3, <2>4, <2>5, <2>9 DEF Serves
<1>17. s \in Stages
  BY <1>8 DEF Stages
<1> QED
  BY <1>2, <1>3, <1>7, <1>14, <1>15, <1>16, <1>17, DocBegin

\* The initial stock of a cell.
LEMMA DocStartInitial ==
    ASSUME NEW CONSTANT b, Papered(b), PaperInv(b), NEW w \in Workers, NEW i \in b.initials, Docs(b)!StartInitial(w, i)
    PROVE  PaperInv(b)'
<1>1. PICK c \in Board(b), n \in b.counts :
        /\ stock[c] # NoRow => Docs(b)!FreeCell(w, c)
        /\ txn' = [txn EXCEPT ![w] =
             [op |-> "initial", ref |-> i, before |-> stock[c], cell |-> c,
              todo |-> <<[op |-> "adjust", type |-> "check", cell |-> <<c[1], c[2]>>, n |-> n]>>,
              held |-> {c} \cap Docs(b)!Rows(stock), missed |-> {}, wrote |-> [x \in Board(b) |-> NoRow], log |-> <<>>]]
  BY DEF Docs!StartInitial, Docs!Leg, Docs!Unwritten, Docs!Absent, NoRow, Docs!StockRows, Board
<1>2. docs' = docs /\ stock' = stock /\ log' = log /\ trail' = trail
  BY DEF Docs!StartInitial
<1>3. PICK leg, h, e : /\ leg = [op |-> "adjust", type |-> "check", cell |-> <<c[1], c[2]>>, n |-> n]
                       /\ h = {c} \cap Docs(b)!Rows(stock) /\ e = stock[c]
  OBVIOUS
<1>4. PICK t : t = [op |-> "initial", ref |-> i, before |-> e, cell |-> c, todo |-> <<leg>>,
                    held |-> h, missed |-> {}, wrote |-> [x \in Board(b) |-> NoRow], log |-> <<>>]
  OBVIOUS
<1>5. txn' = [txn EXCEPT ![w] = t]
  BY <1>1, <1>3, <1>4
<1>6. n \in Int /\ i \notin Paper(b)
  BY DEF Papered, Docs!StockAssumption, Paper
<1>7. <<c[1], c[2]>> = c
  BY DEF Board
<1>8. leg \in Legs(b) /\ leg.cell = c /\ leg.op = "adjust"
  BY <1>3, <1>6, <1>7 DEF Legs
<1>9. e \in Row \cup {NoRow} /\ h \in SUBSET Board(b) /\ (e # NoRow => h = {c}) /\ (e = NoRow => h = {})
  <2>1. stock \in [Board(b) -> Row \cup {NoRow}]
    BY DEF PaperInv, Stocks
  <2> QED
    BY <1>3, <2>1 DEF Docs!Rows, Docs!Absent, NoRow
<1>10. t \in OpenTxn(b)
  <2>1. <<leg>> \in Seq(Legs(b)) /\ <<>> \in Seq(Entry(b)) /\ [x \in Board(b) |-> NoRow] \in [Board(b) -> Row \cup {NoRow}]
    BY <1>8
  <2> QED
    BY <1>4, <1>9, <2>1 DEF OpenTxn, InitialTxn
<1>11. /\ t.op = "initial" /\ t.ref = i /\ t.before = e /\ t.cell = c /\ t.todo = <<leg>> /\ t.held = h /\ t.missed = {}
       /\ t.wrote = [x \in Board(b) |-> NoRow] /\ t.log = <<>>
  BY <1>4
<1>12. Chains(b, t, stock)
  BY <1>11, FreshChains DEF PaperInv
<1>13. Works(b, t, docs, stock)
  <2>1. Len(t.todo) = 1 /\ t.todo[1] = leg /\ t.wrote[c] = NoRow
    BY <1>11
  <2>2. \A k \in 1..Len(t.todo) : t.todo[k].cell = t.cell /\ t.todo[k].op = "adjust"
    BY <1>8, <1>11, <2>1
  <2> QED
    BY <1>3, <1>9, <1>11, <2>1, <2>2 DEF Works, Founds
<1>14. \A v \in Workers \ {w} : txn[v] # NoTxn => Apart(b, t, txn[v]) /\ Apart(b, txn[v], t)
  <2>1. TAKE v \in Workers \ {w}
  <2>2. HAVE txn[v] # NoTxn
  <2>3. e # NoRow => c \notin txn[v].held
    BY <1>1, <1>3, <2>2 DEF Docs!FreeCell, Docs!Idle, NoTxn
  <2> QED
    BY <1>6, <1>9, <1>11, <2>3 DEF Apart
<1> QED
  BY <1>2, <1>5, <1>10, <1>12, <1>13, <1>14, DocMoves

\* A transaction is rolled back.
LEMMA DocRollback ==
    ASSUME NEW CONSTANT b, PaperInv(b), NEW w \in Workers, Docs(b)!Rollback(w)
    PROVE  PaperInv(b)'
<1>1. /\ docs' = docs /\ stock' = stock /\ log' = log /\ trail' = trail
      /\ txn' = [txn EXCEPT ![w] = NoTxn]
  BY DEF Docs!Rollback, Docs!Idle, NoTxn
<1>2. PICK t : t = NoTxn
  OBVIOUS
<1> QED
  BY <1>1, <1>2, DocMoves

\* Positions of one list after another.
Joined(S, ls, more, all) ==
    /\ Len(ls) \in Nat /\ Len(more) \in Nat /\ Len(all) = Len(ls) + Len(more) /\ all \in Seq(S)
    /\ \A k \in 1..Len(ls) : k \in 1..Len(all) /\ all[k] = ls[k]
    /\ \A j \in 1..Len(more) : Len(ls) + j \in 1..Len(all) /\ all[Len(ls) + j] = more[j]
    /\ \A k \in 1..Len(all) : k \in 1..Len(ls) \/ \E j \in 1..Len(more) : k = Len(ls) + j

\* The entries of two lists are those of the one and those of the other.
LEMMA JoinShape ==
    ASSUME NEW S, NEW ls \in Seq(S), NEW more \in Seq(S), NEW all, all = ls \o more
    PROVE  Joined(S, ls, more, all)
<1>1. PICK n \in Nat, m \in Nat : n = Len(ls) /\ m = Len(more)
  OBVIOUS
<1>2. Len(all) = n + m /\ all \in Seq(S)
  BY <1>1
<1>3. \A k \in 1..n : k \in 1..(n + m) /\ all[k] = ls[k]
  BY <1>1
<1>4. \A j \in 1..m : n + j \in 1..(n + m) /\ all[n + j] = more[j]
  BY <1>1
<1>5. \A k \in 1..(n + m) : k \in 1..n \/ \E j \in 1..m : k = n + j
  <2>1. TAKE k \in 1..(n + m)
  <2>2. CASE k > n
    <3>1. k - n \in 1..m /\ k = n + (k - n)
      BY <2>2
    <3> QED
      BY <3>1
  <2> QED
    BY <2>2
<1> QED
  BY <1>1, <1>2, <1>3, <1>4, <1>5 DEF Joined

\* The stock after the commit of t.
Applied(b, t, stk, stk2) == stk2 = [c \in Board(b) |-> Seen(t, stk, c)]

\* The ledger with the entries of t leads to the stock with its rows.
LEMMA AppliedLedger ==
    ASSUME NEW CONSTANT b, NEW stk, Stocks(b, stk), NEW ls, Ledger(b, ls, stk), NEW t \in OpenTxn(b),
           Chains(b, t, stk), NEW stk2, Applied(b, t, stk, stk2), NEW ls2, ls2 = ls \o t.log
    PROVE  Stocks(b, stk2) /\ Ledger(b, ls2, stk2)
<1>1. t.wrote \in [Board(b) -> Row \cup {NoRow}] /\ t.log \in Seq(Entry(b)) /\ ls \in Seq(Entry(b))
  BY OpenFields DEF Ledger
<1>2. Stocks(b, stk2) /\ \A c \in Board(b) : stk2[c] = Seen(t, stk, c)
  BY <1>1 DEF Stocks, Applied, Seen
<1>3. PICK n, m, more : n = Len(ls) /\ m = Len(more) /\ more = t.log
  OBVIOUS
<1>4. /\ n \in Nat /\ m \in Nat /\ Len(ls2) = n + m /\ ls2 \in Seq(Entry(b))
      /\ \A k \in 1..n : ls2[k] = ls[k]
      /\ \A j \in 1..m : ls2[n + j] = more[j]
      /\ \A k \in 1..Len(ls2) : k \in 1..n \/ \E j \in 1..m : k = n + j
  <2>1. Joined(Entry(b), ls, more, ls2)
    BY <1>1, <1>3, JoinShape
  <2> QED
    BY <1>3, <2>1 DEF Joined
<1>5. ASSUME NEW c \in Kept(b)
      PROVE  /\ stk2[c] # NoRow /\ Leads(ls2, c, b.opening[c], Len(ls2), Amount(stk2[c]))
             /\ Version(stk2[c]) = Tally(ls2, c) + 1
  <2>1. PICK o, v, x : o = b.opening[c] /\ v = Amount(stk[c]) /\ x = Amount(Seen(t, stk, c))
    OBVIOUS
  <2>2. stk[c] # NoRow /\ Leads(ls, c, o, Len(ls), v) /\ Version(stk[c]) = Tally(ls, c) + 1
    BY <2>1 DEF Ledger
  <2>3. Leads(more, c, v, m, x) /\ Version(Seen(t, stk, c)) = Version(stk[c]) + Tally(more, c)
    BY <1>3, <2>1 DEF Chains, Follows
  <2>4. m \in 0..Len(more) /\ c \in Board(b)
    BY <1>3, <1>4 DEF Kept
  <2>5. Leads(ls \o more, c, o, Len(ls) + m, x)
    BY <1>1, <1>3, <2>2, <2>3, <2>4, LeadsJoin
  <2>6. Tally(ls \o more, c) = Tally(ls, c) + Tally(more, c) /\ Tally(more, c) \in Nat
    BY <1>1, <1>3, TallyJoin
  <2>7. stk2[c] # NoRow
    BY <1>2, <2>2, <2>4 DEF Seen
  <2>8. Tally(ls, c) \in Int
    BY <1>1, TallyNat
  <2>9. Leads(ls2, c, b.opening[c], Len(ls2), Amount(stk2[c]))
    BY <1>2, <1>3, <1>4, <2>1, <2>4, <2>5
  <2>10. Version(stk2[c]) = (Tally(ls, c) + 1) + Tally(more, c) /\ Tally(ls2, c) = Tally(ls, c) + Tally(more, c)
    BY <1>2, <1>3, <2>2, <2>3, <2>4, <2>6
  <2>11. Version(stk2[c]) = Tally(ls2, c) + 1
    BY <2>6, <2>8, <2>10
  <2> QED
    BY <2>7, <2>9, <2>11
<1>6. ASSUME NEW k \in 1..Len(ls2) PROVE Linked(b, ls2, k)
  <2>1. CASE k \in 1..n
    <3>1. \A j \in 1..(k - 1) : j \in 1..n
      BY <1>4, <2>1
    <3>2. \A j \in 1..(k - 1) : ls2[j] = ls[j]
      BY <1>4, <3>1
    <3>3. PICK c, o, q, v : c = ls[k].cell /\ o = b.opening[c] /\ q = k - 1 /\ v = ls[k].before
      OBVIOUS
    <3>4. c \in Kept(b) => Leads(ls, c, o, q, v)
      BY <1>3, <2>1, <3>3 DEF Ledger, Linked
    <3>5. ASSUME c \in Kept(b) PROVE Leads(ls2, c, o, q, v)
      <4>1. Leads(ls, c, o, q, v) /\ \A j \in 1..q : ls2[j] = ls[j]
        BY <3>2, <3>3, <3>4, <3>5
      <4> QED
        BY <4>1, LeadsSame
    <3> QED
      BY <1>4, <2>1, <3>3, <3>5 DEF Linked
  <2>2. ASSUME NEW j \in 1..m, k = n + j PROVE Linked(b, ls2, k)
    <3>1. PICK q \in Nat : q = j - 1 /\ k - 1 = n + q /\ q \in 0..m
      <4>1. j - 1 \in Nat /\ k - 1 = n + (j - 1) /\ j - 1 \in 0..m
        BY <1>4, <2>2
      <4> QED
        BY <4>1
    <3>2. PICK c, o, u, v : c = more[j].cell /\ o = b.opening[c] /\ u = Amount(stk[c]) /\ v = more[j].before
      OBVIOUS
    <3>3. SUFFICES ASSUME c \in Kept(b) PROVE Leads(ls2, c, o, n + q, v)
      BY <1>4, <2>2, <3>1, <3>2 DEF Linked
    <3>5. Leads(ls, c, o, Len(ls), u)
      BY <3>2, <3>3 DEF Ledger
    <3>6. Leads(more, c, u, q, v)
      BY <1>3, <3>1, <3>2, <3>3 DEF Chains, Starts
    <3>7. Leads(ls \o more, c, o, Len(ls) + q, v)
      BY <1>1, <1>3, <3>1, <3>5, <3>6, LeadsJoin
    <3> QED
      BY <1>3, <1>4, <3>7
  <2> QED
    BY <1>4, <2>1, <2>2
<1> QED
  BY <1>2, <1>4, <1>5, <1>6 DEF Ledger

\* Other transactions: t wrote no row that they hold.
LEMMA AppliedChains ==
    ASSUME NEW CONSTANT b, NEW stk, Stocks(b, stk), NEW t \in OpenTxn(b),
           Chains(b, t, stk), NEW stk2, Applied(b, t, stk, stk2),
           NEW u \in OpenTxn(b), u.held \cap t.held = {}, Chains(b, u, stk)
    PROVE  Chains(b, u, stk2) /\ (Founds(u, stk) /\ u.cell \in Board(b) => Founds(u, stk2))
<1>1. u.wrote \in [Board(b) -> Row \cup {NoRow}] /\ u.log \in Seq(Entry(b))
  BY OpenFields
<1>2. \A c \in Board(b) : c \notin t.held => stk2[c] = stk[c]
  BY DEF Applied, Chains, Seen
<1>3. \A k \in 1..Len(u.log) : u.log[k].cell \in Board(b) /\ u.log[k].cell \in u.held
  <2>1. \A k \in 1..Len(u.log) : u.log[k] \in Entry(b)
    BY <1>1
  <2> QED
    BY <2>1 DEF Entry, Chains
<1>4. ASSUME NEW c \in Kept(b) PROVE Follows(b, u, stk2, c)
  <2>1. c \in Board(b) /\ (u.wrote[c] # NoRow => c \in u.held)
    BY DEF Chains, Kept
  <2>2. CASE c \in t.held
    <3>1. c \notin u.held
      BY <2>2
    <3>2. u.wrote[c] = NoRow /\ \A k \in 1..Len(u.log) : u.log[k].cell # c
      BY <1>3, <2>1, <3>1
    <3>3. Seen(u, stk2, c) = stk2[c]
      BY <3>2 DEF Seen
    <3>4. Tally(u.log, c) = 0
      BY <1>1, <3>2, TallyNone
    <3>5. Version(stk2[c]) \in Int
      <4>1. stk2[c] \in Row \cup {NoRow}
        <5>1. t.wrote \in [Board(b) -> Row \cup {NoRow}]
          BY OpenFields
        <5> QED
          BY <2>1, <5>1 DEF Applied, Seen, Stocks
      <4> QED
        BY <4>1 DEF Version, Row
    <3> QED
      BY <3>2, <3>3, <3>4, <3>5 DEF Leads, Follows
  <2>3. CASE c \notin t.held
    <3>1. stk2[c] = stk[c] /\ Seen(u, stk2, c) = Seen(u, stk, c)
      BY <1>2, <2>1, <2>3 DEF Seen
    <3> QED
      BY <3>1 DEF Chains, Follows
  <2> QED
    BY <2>2, <2>3
<1>5. ASSUME NEW k \in 1..Len(u.log)
      PROVE  Starts(b, u, stk2, k) /\ u.log[k].cell \in u.held /\ u.log[k].ref = u.ref
  <2>1. stk2[u.log[k].cell] = stk[u.log[k].cell]
    BY <1>2, <1>3
  <2> QED
    BY <2>1 DEF Chains, Starts
<1>6. Chains(b, u, stk2)
  BY <1>4, <1>5 DEF Chains
<1>7. ASSUME Founds(u, stk), u.cell \in Board(b) PROVE Founds(u, stk2)
  <2>1. u.before # NoRow => u.cell \in u.held
    BY <1>7 DEF Founds
  <2>2. u.before # NoRow => stk2[u.cell] = stk[u.cell]
    BY <1>2, <1>7, <2>1
  <2> QED
    BY <1>7, <2>2 DEF Founds
<1> QED
  BY <1>6, <1>7

\* What was posted stays posted.
LEMMA MovedStays ==
    ASSUME NEW S, NEW ls \in Seq(S), NEW more \in Seq(S), NEW d, NEW r, r = NoRow \/ Len(r.lines) \in Nat,
           MovedOnce(d, r, ls), \A j \in 1..Len(more) : more[j].ref # d
    PROVE  MovedOnce(d, r, ls \o more)
<1>1. PICK n, m, all : n = Len(ls) /\ m = Len(more) /\ all = ls \o more
  OBVIOUS
<1>2. /\ n \in Nat /\ m \in Nat /\ Len(all) = n + m
      /\ \A k \in 1..n : all[k] = ls[k]
      /\ \A j \in 1..m : all[n + j] = more[j]
      /\ \A k \in 1..(n + m) : k \in 1..n \/ \E j \in 1..m : k = n + j
  <2>1. Joined(S, ls, more, all)
    BY <1>1, JoinShape
  <2> QED
    BY <1>1, <2>1 DEF Joined
<1>3. CASE r # NoRow /\ r.status = 3
  <2>1. PICK p \in 0..n :
          /\ \A k \in 1..n : (ls[k].ref = d) <=> (k \in (p + 1)..(p + 2 * Len(r.lines)))
          /\ p + 2 * Len(r.lines) <= n
          /\ \A k \in 1..(2 * Len(r.lines)) : Carried(LegAt(r, k), ls[p + k])
    BY <1>1, <1>3 DEF MovedOnce
  <2>2. PICK q \in Nat : q = 2 * Len(r.lines)
    <3>1. 2 * Len(r.lines) \in Nat
      BY <1>3
    <3> QED
      BY <3>1
  <2>3. \A k \in 1..(n + m) : (all[k].ref = d) <=> (k \in (p + 1)..(p + q))
    <3>1. TAKE k \in 1..(n + m)
    <3>2. CASE k \in 1..n
      BY <1>2, <2>1, <2>2, <3>2
    <3>3. ASSUME NEW j \in 1..m, k = n + j PROVE all[k].ref # d /\ k \notin (p + 1)..(p + q)
      <4>1. k > n
        BY <1>2, <3>3
      <4>2. k \notin (p + 1)..(p + q)
        BY <1>2, <2>1, <2>2, <4>1
      <4> QED
        BY <1>1, <1>2, <3>3, <4>2
    <3> QED
      BY <1>2, <3>2, <3>3
  <2>4. \A k \in 1..q : Carried(LegAt(r, k), all[p + k])
    <3>1. \A k \in 1..q : p + k \in 1..n
      BY <1>2, <2>1, <2>2
    <3> QED
      BY <1>2, <2>1, <2>2, <3>1
  <2>5. p \in 0..(n + m) /\ p + q <= n + m
    BY <1>2, <2>1, <2>2
  <2> QED
    BY <1>1, <1>2, <1>3, <2>2, <2>3, <2>4, <2>5 DEF MovedOnce
<1>4. CASE ~(r # NoRow /\ r.status = 3)
  <2>1. \A k \in 1..n : ls[k].ref # d
    BY <1>1, <1>4 DEF MovedOnce
  <2>2. \A k \in 1..(n + m) : all[k].ref # d
    BY <1>1, <1>2, <2>1
  <2> QED
    BY <1>1, <1>2, <1>4, <2>2 DEF MovedOnce
<1> QED
  BY <1>3, <1>4

\* An approval posts the legs of its transfer.
LEMMA MovedNow ==
    ASSUME NEW S, NEW ls \in Seq(S), NEW more \in Seq(S), NEW d, NEW r, r # NoRow, Len(r.lines) \in Nat, r.status = 3,
           \A k \in 1..Len(ls) : ls[k].ref # d, \A j \in 1..Len(more) : more[j].ref = d,
           Len(more) = 2 * Len(r.lines), \A k \in 1..Len(more) : Carried(LegAt(r, k), more[k])
    PROVE  MovedOnce(d, r, ls \o more)
<1>1. PICK n, m, all : n = Len(ls) /\ m = Len(more) /\ all = ls \o more
  OBVIOUS
<1>2. /\ n \in Nat /\ m \in Nat /\ Len(all) = n + m /\ m = 2 * Len(r.lines)
      /\ \A k \in 1..n : all[k] = ls[k]
      /\ \A j \in 1..m : all[n + j] = more[j]
      /\ \A k \in 1..(n + m) : k \in 1..n \/ \E j \in 1..m : k = n + j
  <2>1. Joined(S, ls, more, all)
    BY <1>1, JoinShape
  <2> QED
    BY <1>1, <2>1 DEF Joined
<1>3. \A k \in 1..(n + m) : (all[k].ref = d) <=> (k \in (n + 1)..(n + m))
  <2>1. TAKE k \in 1..(n + m)
  <2>2. CASE k \in 1..n
    <3>1. k \notin (n + 1)..(n + m)
      BY <1>2, <2>2
    <3> QED
      BY <1>1, <1>2, <2>2, <3>1
  <2>3. ASSUME NEW j \in 1..m, k = n + j PROVE all[k].ref = d /\ k \in (n + 1)..(n + m)
    BY <1>1, <1>2, <2>3
  <2> QED
    BY <1>2, <2>2, <2>3
<1>4. n \in 0..Len(all) /\ n + m <= Len(all)
  BY <1>2
<1>5. \A k \in 1..m : Carried(LegAt(r, k), all[n + k])
  BY <1>1, <1>2
<1> QED
  BY <1>1, <1>2, <1>3, <1>4, <1>5 DEF MovedOnce

\* What a check noted stays noted.
LEMMA NotedStays ==
    ASSUME NEW CONSTANT b, NEW S, NEW ls \in Seq(S), NEW more \in Seq(S), NEW r, NEW r2, Noted(b, r, ls), r.since \in Nat,
           r2.since = r.since, r2.lines = r.lines, r2.warehouse = r.warehouse
    PROVE  Noted(b, r2, ls \o more)
<1>1. PICK n, all, s : n = Len(ls) /\ all = ls \o more /\ s = r.since
  OBVIOUS
<1>2. n \in Nat /\ Len(all) = n + Len(more) /\ Len(more) \in Nat /\ (\A k \in 1..n : all[k] = ls[k]) /\ s \in Nat
  <2>1. Joined(S, ls, more, all)
    BY <1>1, JoinShape
  <2> QED
    BY <1>1, <2>1 DEF Joined
<1>3. s <= n /\ s <= Len(all)
  BY <1>1, <1>2 DEF Noted
<1>4. \A k \in 1..s : k \in 1..n
  BY <1>2, <1>3
<1>5. \A k \in 1..s : all[k] = ls[k]
  BY <1>2, <1>4
<1>6. ASSUME NEW k \in 1..Len(r.lines), NEW c, c = <<r.lines[k].item, r.warehouse>>, c \in Kept(b)
      PROVE  Leads(all, c, b.opening[c], s, r.lines[k].book)
  <2>1. PICK o, v : o = b.opening[c] /\ v = r.lines[k].book
    OBVIOUS
  <2>2. Leads(ls, c, o, s, v)
    BY <1>1, <1>6, <2>1 DEF Noted
  <2> QED
    BY <1>5, <2>1, <2>2, LeadsSame
<1> QED
  BY <1>1, <1>3, <1>6 DEF Noted

\* What a commit changes for the others, and in the ledger.
LEMMA DocApply ==
    ASSUME NEW CONSTANT b, PaperInv(b), NEW w \in Workers, NEW t, t = txn[w], t # NoTxn, Docs(b)!Apply(w),
           \A d \in Paper(b) : docs'[d] = docs[d] \/ d = t.ref
    PROVE  /\ Stocks(b, stock') /\ Ledger(b, log', stock') /\ Dealings(b, txn') /\ Locked(b, txn')
           /\ \A v \in Workers : txn'[v] # NoTxn =>
                Chains(b, txn'[v], stock') /\ Works(b, txn'[v], docs', stock')
           /\ log' = log \o t.log
<1>1. t \in OpenTxn(b) /\ Chains(b, t, stock) /\ Stocks(b, stock) /\ Ledger(b, log, stock)
  BY DEF PaperInv, Dealings
<1>2. Applied(b, t, stock, stock')
  <2>1. stock' = [c \in Board(b) |-> Docs(b)!Visible(w, c)]
    BY DEF Docs!Apply, Docs!StockRows, Board
  <2>2. \A c : Docs(b)!Visible(w, c) = Seen(t, stock, c)
    BY DEF Docs!Visible, Seen, Docs!Absent, NoRow
  <2> QED
    BY <2>1, <2>2 DEF Applied
<1>3. log' = log \o t.log /\ txn' = [txn EXCEPT ![w] = NoTxn]
  BY DEF Docs!Apply, Docs!Idle, NoTxn
<1>4. txn'[w] = NoTxn /\ (\A v \in Workers \ {w} : txn'[v] = txn[v]) /\ txn' = [v \in Workers |-> txn'[v]]
  BY <1>3 DEF PaperInv, Dealings
<1>5. Dealings(b, txn')
  BY <1>4 DEF PaperInv, Dealings
<1>6. Locked(b, txn')
  BY <1>4 DEF PaperInv, Locked
<1>7. ASSUME NEW v \in Workers, txn'[v] # NoTxn
      PROVE  Chains(b, txn'[v], stock') /\ Works(b, txn'[v], docs', stock')
  <2>1. v # w /\ txn'[v] = txn[v]
    BY <1>4, <1>7
  <2>2. PICK u : u = txn[v]
    OBVIOUS
  <2>3. u \in OpenTxn(b) /\ Chains(b, u, stock) /\ Works(b, u, docs, stock) /\ u # NoTxn
    BY <1>7, <2>1, <2>2 DEF PaperInv, Dealings
  <2>4. Apart(b, u, t)
    BY <2>1, <2>2, <2>3 DEF PaperInv, Locked
  <2>5. u.held \cap t.held = {} /\ (u.ref \in Paper(b) => u.ref # t.ref)
    BY <2>4 DEF Apart
  <2>6. Chains(b, u, stock') /\ (Founds(u, stock) /\ u.cell \in Board(b) => Founds(u, stock'))
    <3>1. PICK stk2 : stk2 = stock'
      OBVIOUS
    <3>2. Applied(b, t, stock, stk2)
      BY <1>2, <3>1
    <3>3. Chains(b, u, stk2) /\ (Founds(u, stock) /\ u.cell \in Board(b) => Founds(u, stk2))
      BY <1>1, <2>3, <2>5, <3>2, AppliedChains
    <3> QED
      BY <3>1, <3>3
  <2>7. ASSUME u.op = "initial" PROVE Founds(u, stock')
    <3>1. u.cell \in Board(b)
      BY <2>3, <2>7, OpenFields DEF InitialTxn
    <3> QED
      BY <2>3, <2>6, <2>7, <3>1 DEF Works
  <2>8. ASSUME u.op # "initial" PROVE Serves(b, u, docs')
    <3>1. u.ref \in Paper(b)
      BY <2>3, <2>8, OpenFields DEF PaperTxn
    <3>2. docs'[u.ref] = docs[u.ref]
      BY <2>5, <3>1
    <3>3. Serves(b, u, docs)
      BY <2>3, <2>8 DEF Works
    <3> QED
      BY <3>2, <3>3 DEF Serves
  <2> QED
    BY <2>1, <2>2, <2>6, <2>7, <2>8 DEF Works
<1>8. Stocks(b, stock') /\ Ledger(b, log', stock')
  <2>1. PICK stk2, ls2 : stk2 = stock' /\ ls2 = log'
    OBVIOUS
  <2>2. Applied(b, t, stock, stk2) /\ ls2 = log \o t.log
    BY <1>2, <1>3, <2>1
  <2>3. Stocks(b, stk2) /\ Ledger(b, ls2, stk2)
    BY <1>1, <2>2, AppliedLedger
  <2> QED
    BY <2>1, <2>3
<1> QED
  BY <1>3, <1>5, <1>6, <1>7, <1>8

\* A document that leaves its status behind.
Restated(r, s, r2) == r2 = [r EXCEPT !.status = s]

\* Only the status changes.
LEMMA PaperRestated ==
    ASSUME NEW CONSTANT b, NEW r, r \in CheckPaper(b) \/ r \in MovePaper(b), NEW s \in Stages,
           NEW r2, Restated(r, s, r2)
    PROVE  /\ r \in CheckPaper(b) =>
                /\ r2 \in CheckPaper(b) /\ r2.since = r.since /\ r2.warehouse = r.warehouse
                /\ r.since \in Nat
           /\ r \in MovePaper(b) =>
                r2 \in MovePaper(b) /\ \A k : LegAt(r2, k) = LegAt(r, k)
           /\ r2.lines = r.lines /\ r2.status = s /\ r2 # NoRow /\ r # NoRow /\ Len(r.lines) \in Nat
<1>1. CASE r \in CheckPaper(b)
  <2>1. /\ r2 \in CheckPaper(b) /\ r2.since = r.since /\ r2.warehouse = r.warehouse /\ r2.lines = r.lines
        /\ r2.status = s /\ r.kind = "check" /\ r.lines \in Seq(CheckLine(b)) /\ r.since \in Nat
    BY <1>1 DEF CheckPaper, Restated
  <2>2. r \notin MovePaper(b)
    BY <2>1 DEF MovePaper
  <2>3. r # NoRow /\ r2 # NoRow
    <3>1. \A x \in CheckPaper(b) : DOMAIN x = {"kind", "status", "warehouse", "since", "lines"}
      BY DEF CheckPaper
    <3>2. DOMAIN NoRow = {"row"}
      BY DEF NoRow
    <3> QED
      BY <1>1, <2>1, <3>1, <3>2
  <2> QED
    BY <1>1, <2>1, <2>2, <2>3
<1>2. CASE r \in MovePaper(b)
  <2>1. /\ r2 \in MovePaper(b) /\ r2.from = r.from /\ r2.to = r.to /\ r2.lines = r.lines /\ r2.status = s
        /\ r.kind = "transfer" /\ r.lines \in Seq(MoveLine(b))
    BY <1>2 DEF MovePaper, Restated
  <2>2. r \notin CheckPaper(b)
    BY <2>1 DEF CheckPaper
  <2>3. r # NoRow /\ r2 # NoRow
    <3>1. \A x \in MovePaper(b) : DOMAIN x = {"kind", "status", "from", "to", "lines"}
      BY DEF MovePaper
    <3>2. DOMAIN NoRow = {"row"}
      BY DEF NoRow
    <3> QED
      BY <1>2, <2>1, <3>1, <3>2
  <2>4. \A k : LegAt(r2, k) = LegAt(r, k)
    BY <2>1 DEF LegAt
  <2> QED
    BY <1>2, <2>1, <2>2, <2>3, <2>4
<1> QED
  BY <1>1, <1>2

\* The commit of a check or a transfer.
LEMMA DocCommit ==
    ASSUME NEW CONSTANT b, Papered(b), PaperInv(b), NEW w \in Workers,
           Docs(b)!CommitCheck(w) \/ Docs(b)!CommitTransfer(w)
    PROVE  PaperInv(b)'
<1>1. PICK t, d : t = txn[w] /\ d = t.ref
  OBVIOUS
<1>2. t # NoTxn /\ d \in Paper(b) /\ Docs(b)!CommitDocument(w)
  BY <1>1 DEF Docs!CommitCheck, Docs!CommitTransfer, Docs!Idle, NoTxn, Paper
<1>3. /\ t.todo = <<>> /\ docs' = [docs EXCEPT ![d].status = t.status]
      /\ trail' = [trail EXCEPT ![d] = Docs(b)!RecordUpdated(@, t.before, [status |-> t.status])]
      /\ Docs(b)!Apply(w)
  BY <1>1, <1>2 DEF Docs!CommitDocument
<1>4. t \in OpenTxn(b) /\ Chains(b, t, stock) /\ Works(b, t, docs, stock)
  BY <1>1, <1>2 DEF PaperInv, Dealings
<1>5. t.op # "initial" /\ t \in PaperTxn(b)
  <2>1. t.op = "initial" => t.ref \in b.initials
    BY <1>4, OpenFields DEF InitialTxn
  <2>2. t.op # "initial"
    BY <1>1, <1>2, <2>1 DEF Papered, Docs!StockAssumption, Paper
  <2> QED
    BY <1>4, <2>2, OpenFields
<1>6. Serves(b, t, docs) /\ t.status \in Stages /\ t.before \in [status : Stages] /\ t.log \in Seq(Entry(b))
      /\ t.op \in {"submit", "approve_check", "approve_transfer"}
  BY <1>4, <1>5 DEF Works, PaperTxn
<1>7. PICK r, r2, s, more : r = docs[d] /\ s = t.status /\ Restated(r, s, r2) /\ more = t.log
  BY DEF Restated
<1>8. /\ docs' = [x \in Paper(b) |-> docs'[x]] /\ docs'[d] = r2
      /\ \A x \in Paper(b) : x # d => docs'[x] = docs[x]
  BY <1>2, <1>3, <1>7 DEF PaperInv, Papers, Restated
<1>9. r # NoRow /\ (r \in CheckPaper(b) \/ r \in MovePaper(b)) /\ s \in Stages
      /\ (d \in b.checks => r \in CheckPaper(b)) /\ (d \in b.transfers => r \in MovePaper(b))
  <2>1. r # NoRow
    BY <1>1, <1>6, <1>7 DEF Serves
  <2> QED
    BY <1>2, <1>6, <1>7, <2>1 DEF PaperInv, Papers, Paper
<1>10. /\ r \in CheckPaper(b) =>
                /\ r2 \in CheckPaper(b) /\ r2.since = r.since /\ r2.warehouse = r.warehouse
                /\ r.since \in Nat
       /\ r \in MovePaper(b) => r2 \in MovePaper(b) /\ \A k : LegAt(r2, k) = LegAt(r, k)
       /\ r2.lines = r.lines /\ r2.status = s /\ r2 # NoRow /\ Len(r.lines) \in Nat
  BY <1>7, <1>9, PaperRestated
<1>11. Papers(b, docs')
  BY <1>2, <1>8, <1>9, <1>10 DEF PaperInv, Papers, Paper
<1>12. /\ Stocks(b, stock') /\ Ledger(b, log', stock') /\ Dealings(b, txn') /\ Locked(b, txn')
       /\ \A v \in Workers : txn'[v] # NoTxn => Chains(b, txn'[v], stock') /\ Works(b, txn'[v], docs', stock')
       /\ log' = log \o t.log
  <2>1. \A x \in Paper(b) : docs'[x] = docs[x] \/ x = t.ref
    BY <1>1, <1>8
  <2> QED
    BY <1>1, <1>2, <1>3, <2>1, DocApply
<1>13. PICK ls : ls = log
  OBVIOUS
<1>14. /\ ls \in Seq(Entry(b)) /\ more \in Seq(Entry(b)) /\ log' = ls \o more
       /\ \A j \in 1..Len(more) : more[j].ref = d
       /\ Joined(Entry(b), ls, more, ls \o more)
  <2>1. ls \in Seq(Entry(b)) /\ more \in Seq(Entry(b))
    BY <1>6, <1>7, <1>13 DEF PaperInv, Ledger
  <2>2. \A j \in 1..Len(more) : more[j].ref = d
    BY <1>1, <1>4, <1>7 DEF Chains
  <2>3. Joined(Entry(b), ls, more, ls \o more)
    BY <2>1, JoinShape
  <2> QED
    BY <1>7, <1>12, <1>13, <2>1, <2>2, <2>3
<1>15. ASSUME NEW x \in b.transfers PROVE MovedOnce(x, docs'[x], ls \o more)
  <2>1. MovedOnce(x, docs[x], ls) /\ x \in Paper(b)
    BY <1>13 DEF PaperInv, Posts, Paper
  <2>2. CASE x # d
    <3>1. PICK y : y = docs[x]
      OBVIOUS
    <3>2. y = NoRow \/ Len(y.lines) \in Nat
      <4>1. y = NoRow \/ y.lines \in Seq(MoveLine(b))
        BY <3>1 DEF PaperInv, Papers, MovePaper
      <4> QED
        BY <4>1
    <3>3. \A j \in 1..Len(more) : more[j].ref # x
      BY <1>14, <2>2
    <3>4. MovedOnce(x, y, ls \o more)
      BY <1>14, <2>1, <3>1, <3>2, <3>3, MovedStays
    <3> QED
      BY <1>8, <2>1, <2>2, <3>1, <3>4
  <2>3. CASE x = d
    <3>1. r \in MovePaper(b) /\ d \notin b.checks
      BY <1>9, <2>3 DEF Papered, Docs!StockAssumption
    <3>2. t.op # "approve_check"
      BY <1>1, <1>6, <3>1 DEF Serves
    <3>3. r.status # 3 /\ t.before = [status |-> r.status]
      <4>1. t.before = [status |-> r.status]
        BY <1>1, <1>6, <1>7 DEF Serves
      <4>2. t.before.status \in {0, 1}
        BY <1>6 DEF Serves
      <4> QED
        BY <4>1, <4>2
    <3>4. \A k \in 1..Len(ls) : ls[k].ref # d
      BY <1>7, <2>1, <2>3, <3>3 DEF MovedOnce
    <3>5. CASE t.op = "submit"
      <4>1. s = 1 /\ more = <<>>
        BY <1>6, <1>7, <3>5 DEF Serves
      <4>2. \A j \in 1..Len(ls \o more) : (ls \o more)[j].ref # d
        BY <1>14, <3>4, <4>1
      <4> QED
        BY <1>8, <1>10, <2>3, <4>1, <4>2 DEF MovedOnce
    <3>6. CASE t.op = "approve_transfer"
      <4>1. s = 3 /\ Len(more) + Len(t.todo) = 2 * Len(r.lines) /\ \A k \in 1..Len(more) : Carried(LegAt(r, k), more[k])
        BY <1>1, <1>6, <1>7, <3>6 DEF Serves
      <4>2. Len(t.todo) = 0 /\ Len(more) \in Nat
        BY <1>3, <1>14
      <4>3. Len(more) = 2 * Len(r2.lines) /\ Len(r2.lines) \in Nat
        BY <1>10, <4>1, <4>2
      <4>4. \A k \in 1..Len(more) : Carried(LegAt(r2, k), more[k])
        BY <1>10, <3>1, <4>1
      <4>5. MovedOnce(d, r2, ls \o more)
        BY <1>10, <1>14, <3>4, <4>1, <4>3, <4>4, MovedNow
      <4> QED
        BY <1>8, <2>3, <4>5
    <3> QED
      BY <1>6, <3>2, <3>5, <3>6
  <2> QED
    BY <2>2, <2>3
<1>16. ASSUME NEW x \in b.checks, docs'[x] # NoRow PROVE Noted(b, docs'[x], ls \o more)
  <2>1. PICK y, y2 : y = docs[x] /\ y2 = docs'[x]
    OBVIOUS
  <2>2. x \in Paper(b) /\ y # NoRow
    BY <1>7, <1>8, <1>9, <1>16, <2>1 DEF Paper
  <2>3. Noted(b, y, ls) /\ y \in CheckPaper(b)
    BY <1>13, <2>1, <2>2 DEF PaperInv, Posts, Papers
  <2>4. y2.since = y.since /\ y2.lines = y.lines /\ y2.warehouse = y.warehouse /\ y.since \in Nat
    <3>1. y.since \in Nat
      BY <2>3 DEF CheckPaper
    <3>2. CASE x # d
      BY <1>8, <2>1, <2>2, <3>1, <3>2
    <3>3. CASE x = d
      BY <1>7, <1>8, <1>10, <2>1, <2>3, <3>1, <3>3
    <3> QED
      BY <3>2, <3>3
  <2>5. Noted(b, y2, ls \o more)
    BY <1>14, <2>3, <2>4, NotedStays
  <2> QED
    BY <2>1, <2>5
<1>17. ASSUME NEW k \in 1..Len(log'), log'[k].ref \in b.checks
       PROVE  docs'[log'[k].ref] # NoRow /\ k > docs'[log'[k].ref].since /\ Counted(docs'[log'[k].ref], log'[k])
  <2>1. PICK x, e : x = log'[k].ref /\ e = log'[k]
    OBVIOUS
  <2>2. PICK y, y2 : y = docs[x] /\ y2 = docs'[x]
    OBVIOUS
  <2>3. x \in Paper(b) /\ x \in b.checks
    BY <1>17, <2>1 DEF Paper
  <2>4. y # NoRow => y2 # NoRow /\ y2.since = y.since /\ y2.lines = y.lines /\ y2.warehouse = y.warehouse
    <3>1. CASE x # d
      BY <1>8, <2>2, <2>3, <3>1
    <3>2. CASE x = d
      BY <1>7, <1>8, <1>9, <1>10, <2>2, <2>3, <3>2
    <3> QED
      BY <3>1, <3>2
  <2>5. CASE k \in 1..Len(ls)
    <3>1. e = log[k]
      BY <1>13, <1>14, <2>1, <2>5 DEF Joined
    <3>2. y # NoRow /\ k > y.since /\ Counted(y, e)
      BY <1>13, <1>17, <2>1, <2>2, <2>5, <3>1 DEF PaperInv, Posts
    <3>3. y2 # NoRow /\ k > y2.since /\ Counted(y2, e)
      BY <2>4, <3>2 DEF Counted
    <3> QED
      BY <2>1, <2>2, <3>3
  <2>6. ASSUME NEW j \in 1..Len(more), k = Len(ls) + j
        PROVE  y # NoRow /\ k > y.since /\ Counted(y, e)
    <3>1. e = more[j] /\ x = d
      BY <1>14, <2>1, <2>6 DEF Joined
    <3>2. t.op = "approve_check"
      <4>1. t.op # "submit"
        <5>1. t.op = "submit" => Len(more) = 0
          BY <1>6, <1>7 DEF Serves
        <5> QED
          BY <2>6, <5>1
      <4>2. t.op # "approve_transfer"
        BY <1>1, <1>6, <2>3, <3>1 DEF Serves, Papered, Docs!StockAssumption
      <4> QED
        BY <1>6, <4>1, <4>2
    <3>3. Counted(y, e)
      BY <1>1, <1>6, <1>7, <2>2, <3>1, <3>2 DEF Serves
    <3>4. y # NoRow /\ Noted(b, y, ls) /\ y.since \in Nat
      BY <1>7, <1>9, <1>10, <1>13, <2>2, <2>3, <3>1 DEF PaperInv, Posts
    <3>5. k > y.since
      <4>1. Len(ls) \in Nat /\ y.since <= Len(ls)
        BY <1>14, <3>4 DEF Joined, Noted
      <4> QED
        BY <2>6, <3>4, <4>1
    <3> QED
      BY <3>3, <3>4, <3>5
  <2>7. ASSUME NEW j \in 1..Len(more), k = Len(ls) + j
        PROVE  y2 # NoRow /\ k > y2.since /\ Counted(y2, e)
    BY <2>4, <2>6, <2>7 DEF Counted
  <2> QED
    BY <1>14, <1>17, <2>1, <2>2, <2>5, <2>7 DEF Joined
<1>18. Posts(b, docs', log')
  BY <1>14, <1>15, <1>16, <1>17 DEF Posts
<1>19. Trails(b, docs', trail')
  <2>1. PICK lg, e : /\ lg = trail[d]
                     /\ e = [action |-> "updated", before |-> t.before, after |-> [status |-> s]]
    OBVIOUS
  <2>2. e \in PaperEntry /\ e.action = "updated" /\ e.before = t.before /\ e.after = [status |-> s]
    BY <1>6, <1>9, <2>1 DEF PaperEntry
  <2>3. t.before = [status |-> r.status]
    BY <1>1, <1>6, <1>7 DEF Serves
  <2>4. lg \in Seq(PaperEntry) /\ Tells(lg, [status |-> r.status])
    BY <1>2, <1>7, <1>9, <2>1 DEF PaperInv, Trails
  <2>5. Append(lg, e) \in Seq(PaperEntry)
    BY <2>2, <2>4
  <2>6. Tells(Append(lg, e), [status |-> s])
    <3>1. PICK view : view = [status |-> r.status]
      OBVIOUS
    <3>2. Tells(lg, view) /\ e.before = view
      BY <2>2, <2>3, <2>4, <3>1
    <3>3. Tells(Append(lg, e), e.after)
      BY <2>2, <2>4, <3>2, TellsMore
    <3> QED
      BY <2>2, <3>3
  <2>7. trail' = [trail EXCEPT ![d] = Append(lg, e)]
    BY <1>3, <1>7, <2>1 DEF Docs!RecordUpdated
  <2>8. /\ trail' = [x \in Paper(b) \cup Board(b) |-> trail'[x]] /\ trail'[d] = Append(lg, e)
        /\ \A x \in Paper(b) \cup Board(b) : x # d => trail'[x] = trail[x]
    BY <1>2, <2>7 DEF PaperInv, Trails
  <2>9. \A c \in Board(b) : c # d
    BY <1>2 DEF Papered, Docs!StockAssumption, Docs!StockRows, Paper, Board
  <2>10. ASSUME NEW x \in Paper(b)
         PROVE  /\ trail'[x] \in Seq(PaperEntry)
                /\ IF docs'[x] = NoRow THEN trail'[x] = <<>> ELSE Tells(trail'[x], [status |-> docs'[x].status])
    <3>1. CASE x = d
      BY <1>8, <1>10, <2>5, <2>6, <2>8, <3>1
    <3>2. CASE x # d
      BY <1>8, <2>8, <3>2 DEF PaperInv, Trails
    <3> QED
      BY <3>1, <3>2
  <2>11. \A c \in Board(b) : trail'[c] \in Seq(RowEntry) /\ \A k \in 1..Len(trail'[c]) : OneStepOf(trail'[c][k])
    BY <2>8, <2>9 DEF PaperInv, Trails
  <2> QED
    BY <2>8, <2>10, <2>11 DEF Trails
<1> QED
  BY <1>11, <1>12, <1>18, <1>19 DEF PaperInv

\* The commit of an initial stock.
LEMMA DocCommitInitial ==
    ASSUME NEW CONSTANT b, Papered(b), PaperInv(b), NEW w \in Workers, Docs(b)!CommitInitial(w)
    PROVE  PaperInv(b)'
<1>1. PICK t, c, e, row : t = txn[w] /\ c = t.cell /\ e = t.before /\ row = Seen(t, stock, c)
  OBVIOUS
<1>2. t # NoTxn /\ t.op = "initial" /\ t.todo = <<>> /\ Docs(b)!Apply(w) /\ docs' = docs
  BY <1>1 DEF Docs!CommitInitial, Docs!Idle, NoTxn
<1>3. t \in OpenTxn(b) /\ Chains(b, t, stock) /\ Works(b, t, docs, stock)
  BY <1>1, <1>2 DEF PaperInv, Dealings
<1>4. t.ref \in b.initials /\ t.ref \notin Paper(b) /\ c \in Board(b) /\ e \in Row \cup {NoRow}
  <2>1. t \in InitialTxn(b)
    BY <1>2, <1>3, OpenFields
  <2> QED
    BY <1>1, <2>1 DEF InitialTxn, Papered, Docs!StockAssumption, Paper
<1>5. row \in Row \cup {NoRow} /\ t.log \in Seq(Entry(b))
  <2>1. t.wrote \in [Board(b) -> Row \cup {NoRow}] /\ t.log \in Seq(Entry(b))
    BY <1>3, OpenFields
  <2> QED
    BY <1>1, <1>4, <2>1 DEF Seen, PaperInv, Stocks
<1>6. Founds(t, stock)
  BY <1>2, <1>3 DEF Works
<1>7. e # NoRow => row = e \/ row.version = e.version + 1
  <2>1. e # NoRow => stock[c] = e /\ (t.wrote[c] # NoRow => t.wrote[c].version = e.version + 1)
    BY <1>1, <1>6 DEF Founds
  <2> QED
    BY <1>1, <2>1 DEF Seen
<1>8. /\ Stocks(b, stock') /\ Ledger(b, log', stock') /\ Dealings(b, txn') /\ Locked(b, txn')
      /\ \A v \in Workers : txn'[v] # NoTxn => Chains(b, txn'[v], stock') /\ Works(b, txn'[v], docs', stock')
      /\ log' = log \o t.log
  <2>1. \A x \in Paper(b) : docs'[x] = docs[x] \/ x = t.ref
    BY <1>2
  <2> QED
    BY <1>1, <1>2, <2>1, DocApply
<1>9. PICK ls, more : ls = log /\ more = t.log
  OBVIOUS
<1>10. /\ ls \in Seq(Entry(b)) /\ more \in Seq(Entry(b)) /\ log' = ls \o more
       /\ \A j \in 1..Len(more) : more[j].ref = t.ref
       /\ Joined(Entry(b), ls, more, ls \o more)
  <2>1. ls \in Seq(Entry(b)) /\ more \in Seq(Entry(b))
    BY <1>5, <1>9 DEF PaperInv, Ledger
  <2>2. \A j \in 1..Len(more) : more[j].ref = t.ref
    BY <1>3, <1>9 DEF Chains
  <2>3. Joined(Entry(b), ls, more, ls \o more)
    BY <2>1, JoinShape
  <2> QED
    BY <1>8, <1>9, <2>1, <2>2, <2>3
<1>11. ASSUME NEW x \in b.transfers PROVE MovedOnce(x, docs[x], ls \o more)
  <2>1. PICK y : y = docs[x]
    OBVIOUS
  <2>2. y = NoRow \/ Len(y.lines) \in Nat
    <3>1. y = NoRow \/ y.lines \in Seq(MoveLine(b))
      BY <2>1 DEF PaperInv, Papers, MovePaper
    <3> QED
      BY <3>1
  <2>3. MovedOnce(x, y, ls) /\ \A j \in 1..Len(more) : more[j].ref # x
    BY <1>4, <1>9, <1>10, <2>1 DEF PaperInv, Posts, Paper
  <2> QED
    BY <1>10, <2>1, <2>2, <2>3, MovedStays
<1>12. ASSUME NEW x \in b.checks, docs[x] # NoRow PROVE Noted(b, docs[x], ls \o more)
  <2>1. PICK y : y = docs[x]
    OBVIOUS
  <2>2. Noted(b, y, ls) /\ y.since \in Nat
    BY <1>9, <1>12, <2>1 DEF PaperInv, Posts, Papers, CheckPaper
  <2>3. Noted(b, y, ls \o more)
    BY <1>10, <2>2, NotedStays
  <2> QED
    BY <2>1, <2>3
<1>13. ASSUME NEW k \in 1..Len(log'), log'[k].ref \in b.checks
       PROVE  docs[log'[k].ref] # NoRow /\ k > docs[log'[k].ref].since /\ Counted(docs[log'[k].ref], log'[k])
  <2>1. \A j \in 1..Len(more) : k # Len(ls) + j
    <3>1. ASSUME NEW j \in 1..Len(more), k = Len(ls) + j PROVE FALSE
      <4>1. log'[k].ref = t.ref
        BY <1>10, <3>1 DEF Joined
      <4> QED
        BY <1>4, <1>13, <4>1 DEF Paper
    <3> QED
      BY <3>1
  <2>2. k \in 1..Len(ls) /\ log'[k] = log[k]
    BY <1>9, <1>10, <1>13, <2>1 DEF Joined
  <2> QED
    BY <1>9, <1>13, <2>2 DEF PaperInv, Posts
<1>14. Posts(b, docs', log')
  BY <1>2, <1>10, <1>11, <1>12, <1>13 DEF Posts
<1>15. Trails(b, docs', trail')
  <2>1. PICK lg, r : /\ lg = trail[c]
                     /\ r = [action |-> IF e = NoRow THEN "created" ELSE "updated",
                             before |-> IF e = NoRow THEN Unseen ELSE e, after |-> row]
    OBVIOUS
  <2>2. PICK lg2 : lg2 = IF row = NoRow THEN lg ELSE Append(lg, r)
    OBVIOUS
  <2>3. trail' = [trail EXCEPT ![c] = lg2]
    <3>1. trail' = [trail EXCEPT ![c] =
             CASE row = NoRow -> @
               [] row # NoRow /\ e = NoRow -> Docs(b)!RecordCreate(@, row)
               [] OTHER -> Docs(b)!RecordUpdated(@, e, row)]
      BY <1>1 DEF Docs!CommitInitial, Docs!Visible, Seen, Docs!Absent, NoRow
    <3>2. lg2 = CASE row = NoRow -> lg
               [] row # NoRow /\ e = NoRow -> Docs(b)!RecordCreate(lg, row)
               [] OTHER -> Docs(b)!RecordUpdated(lg, e, row)
      <4>1. CASE row = NoRow
        BY <2>2, <4>1
      <4>2. CASE row # NoRow /\ e = NoRow
        BY <2>1, <2>2, <4>2 DEF Docs!RecordCreate, Docs!Nothing, Unseen
      <4>3. CASE row # NoRow /\ e # NoRow
        BY <2>1, <2>2, <4>3 DEF Docs!RecordUpdated
      <4> QED
        BY <4>1, <4>2, <4>3
    <3> QED
      BY <2>1, <3>1, <3>2
  <2>4. /\ trail' = [x \in Paper(b) \cup Board(b) |-> trail'[x]] /\ trail'[c] = lg2
        /\ \A x \in Paper(b) \cup Board(b) : x # c => trail'[x] = trail[x]
    BY <1>4, <2>3 DEF PaperInv, Trails
  <2>5. \A x \in Paper(b) : x # c
    BY <1>4 DEF Papered, Docs!StockAssumption, Docs!StockRows, Paper, Board
  <2>6. lg \in Seq(RowEntry) /\ \A k \in 1..Len(lg) : OneStepOf(lg[k])
    BY <1>4, <2>1 DEF PaperInv, Trails
  <2>7. lg2 \in Seq(RowEntry) /\ \A k \in 1..Len(lg2) : OneStepOf(lg2[k])
    <3>1. CASE row = NoRow
      BY <2>2, <2>6, <3>1
    <3>2. CASE row # NoRow
      <4>1. r \in RowEntry
        BY <1>4, <1>5, <2>1, <3>2 DEF RowEntry
      <4>2. OneStepOf(r)
        BY <1>7, <2>1 DEF OneStepOf
      <4>3. /\ lg2 \in Seq(RowEntry) /\ Len(lg2) = Len(lg) + 1 /\ Len(lg) \in Nat /\ lg2[Len(lg) + 1] = r
            /\ \A k \in 1..Len(lg) : lg2[k] = lg[k]
        BY <2>2, <2>6, <3>2, <4>1
      <4>4. \A k \in 1..Len(lg2) : k \in 1..Len(lg) \/ k = Len(lg) + 1
        BY <4>3
      <4> QED
        BY <2>6, <4>2, <4>3, <4>4
    <3> QED
      BY <3>1, <3>2
  <2>8. \A x \in Board(b) : trail'[x] \in Seq(RowEntry) /\ \A k \in 1..Len(trail'[x]) : OneStepOf(trail'[x][k])
    <3>1. TAKE x \in Board(b)
    <3>2. CASE x = c
      BY <2>4, <2>7, <3>2
    <3>3. CASE x # c
      BY <2>4, <3>3 DEF PaperInv, Trails
    <3> QED
      BY <3>2, <3>3
  <2>9. \A x \in Paper(b) :
          /\ trail'[x] \in Seq(PaperEntry)
          /\ IF docs'[x] = NoRow THEN trail'[x] = <<>> ELSE Tells(trail'[x], [status |-> docs'[x].status])
    BY <1>2, <2>4, <2>5 DEF PaperInv, Trails
  <2> QED
    BY <2>4, <2>8, <2>9 DEF Trails
<1>16. Papers(b, docs')
  BY <1>2 DEF PaperInv
<1> QED
  BY <1>8, <1>14, <1>15, <1>16 DEF PaperInv

\* A document is created as a draft.
LEMMA DocDraft ==
    ASSUME NEW CONSTANT b, Papered(b), PaperInv(b), NEW d \in Paper(b), docs[d] = NoRow, NEW r,
           docs' = [docs EXCEPT ![d] = r], trail' = [trail EXCEPT ![d] = Docs(b)!RecordCreate(@, [status |-> 0])],
           stock' = stock, log' = log, txn' = txn, r.status = 0,
           d \in b.checks => r \in CheckPaper(b) /\ Noted(b, r, log),
           d \in b.transfers => r \in MovePaper(b)
    PROVE  PaperInv(b)'
<1>1. docs' = [x \in Paper(b) |-> docs'[x]] /\ docs'[d] = r /\ \A x \in Paper(b) : x # d => docs'[x] = docs[x]
  BY DEF PaperInv, Papers
<1>2. r # NoRow
  <2>1. r \in CheckPaper(b) \/ r \in MovePaper(b)
    BY DEF Paper
  <2>2. \A x \in CheckPaper(b) : DOMAIN x = {"kind", "status", "warehouse", "since", "lines"}
    BY DEF CheckPaper
  <2>3. \A x \in MovePaper(b) : DOMAIN x = {"kind", "status", "from", "to", "lines"}
    BY DEF MovePaper
  <2>4. DOMAIN NoRow = {"row"}
    BY DEF NoRow
  <2> QED
    BY <2>1, <2>2, <2>3, <2>4
<1>3. Papers(b, docs')
  BY <1>1 DEF PaperInv, Papers, Paper
<1>4. ASSUME NEW v \in Workers, txn[v] # NoTxn PROVE Works(b, txn[v], docs', stock)
  <2>1. PICK u : u = txn[v]
    OBVIOUS
  <2>2. u \in OpenTxn(b) /\ Works(b, u, docs, stock)
    BY <1>4, <2>1 DEF PaperInv, Dealings
  <2>3. ASSUME u.op # "initial" PROVE Serves(b, u, docs')
    <3>1. Serves(b, u, docs) /\ u.ref \in Paper(b)
      BY <2>2, <2>3, OpenFields DEF Works, PaperTxn
    <3>2. u.ref # d
      BY <3>1 DEF Serves
    <3>3. docs'[u.ref] = docs[u.ref]
      BY <1>1, <3>1, <3>2
    <3> QED
      BY <3>1, <3>3 DEF Serves
  <2> QED
    BY <2>1, <2>2, <2>3 DEF Works
<1>5. Posts(b, docs', log)
  <2>1. ASSUME NEW x \in b.transfers PROVE MovedOnce(x, docs'[x], log)
    <3>1. MovedOnce(x, docs[x], log) /\ x \in Paper(b)
      BY DEF PaperInv, Posts, Paper
    <3>2. CASE x = d
      BY <1>1, <3>1, <3>2 DEF MovedOnce
    <3> QED
      BY <1>1, <3>1, <3>2
  <2>2. ASSUME NEW x \in b.checks, docs'[x] # NoRow PROVE Noted(b, docs'[x], log)
    <3>1. x \in Paper(b)
      BY DEF Paper
    <3>2. CASE x = d
      BY <1>1, <3>2
    <3>3. CASE x # d
      BY <1>1, <2>2, <3>1, <3>3 DEF PaperInv, Posts
    <3> QED
      BY <3>2, <3>3
  <2>3. ASSUME NEW k \in 1..Len(log), log[k].ref \in b.checks
        PROVE  docs'[log[k].ref] # NoRow /\ k > docs'[log[k].ref].since /\ Counted(docs'[log[k].ref], log[k])
    <3>1. docs[log[k].ref] # NoRow /\ log[k].ref \in Paper(b)
      BY <2>3 DEF PaperInv, Posts, Paper
    <3>2. docs'[log[k].ref] = docs[log[k].ref]
      BY <1>1, <3>1
    <3> QED
      BY <2>3, <3>2 DEF PaperInv, Posts
  <2> QED
    BY <2>1, <2>2, <2>3 DEF Posts
<1>6. Trails(b, docs', trail')
  <2>1. PICK e : e = [action |-> "created", before |-> Unseen, after |-> [status |-> 0]]
    OBVIOUS
  <2>2. e \in PaperEntry /\ e.action = "created" /\ e.after = [status |-> 0]
    BY <2>1 DEF PaperEntry, Stages
  <2>3. Tells(Append(<<>>, e), [status |-> 0]) /\ Append(<<>>, e) \in Seq(PaperEntry)
    <3>1. Tells(Append(<<>>, e), e.after) /\ Append(<<>>, e) \in Seq(PaperEntry)
      BY <2>2, TellsFirst
    <3> QED
      BY <2>2, <3>1
  <2>4. trail[d] = <<>>
    BY DEF PaperInv, Trails
  <2>5. trail' = [trail EXCEPT ![d] = Append(<<>>, e)]
    BY <2>1, <2>4 DEF Docs!RecordCreate, Docs!Nothing, Unseen
  <2>6. /\ trail' = [x \in Paper(b) \cup Board(b) |-> trail'[x]] /\ trail'[d] = Append(<<>>, e)
        /\ \A x \in Paper(b) \cup Board(b) : x # d => trail'[x] = trail[x]
    BY <2>5 DEF PaperInv, Trails
  <2>7. \A c \in Board(b) : c # d
    BY DEF Papered, Docs!StockAssumption, Docs!StockRows, Paper, Board
  <2>8. ASSUME NEW x \in Paper(b)
        PROVE  /\ trail'[x] \in Seq(PaperEntry)
               /\ IF docs'[x] = NoRow THEN trail'[x] = <<>> ELSE Tells(trail'[x], [status |-> docs'[x].status])
    <3>1. CASE x = d
      BY <1>1, <1>2, <2>3, <2>6, <3>1
    <3>2. CASE x # d
      BY <1>1, <2>6, <3>2 DEF PaperInv, Trails
    <3> QED
      BY <3>1, <3>2
  <2>9. \A c \in Board(b) : trail'[c] \in Seq(RowEntry) /\ \A k \in 1..Len(trail'[c]) : OneStepOf(trail'[c][k])
    BY <2>6, <2>7 DEF PaperInv, Trails
  <2> QED
    BY <2>6, <2>8, <2>9 DEF Trails
<1>7. Stocks(b, stock') /\ Dealings(b, txn') /\ Locked(b, txn') /\ Ledger(b, log', stock')
  BY DEF PaperInv
<1>8. \A v \in Workers : txn'[v] # NoTxn => Chains(b, txn'[v], stock') /\ Works(b, txn'[v], docs', stock')
  BY <1>4 DEF PaperInv
<1> QED
  BY <1>3, <1>5, <1>6, <1>7, <1>8 DEF PaperInv

\* A check notes the quantities on the books.
LEMMA DocCreateCheck ==
    ASSUME NEW CONSTANT b, Papered(b), PaperInv(b), NEW d \in b.checks, Docs(b)!CreateCheck(d)
    PROVE  PaperInv(b)'
<1>1. PICK h \in b.warehouses, ls \in Docs(b)!Lines([item : b.items, actual : b.counts]) :
        docs' = [docs EXCEPT ![d] =
           [kind |-> "check", status |-> 0, warehouse |-> h, since |-> Len(log),
            lines |-> [k \in DOMAIN ls |->
              [item |-> ls[k].item, actual |-> ls[k].actual, book |-> Docs(b)!Quantity(stock[<<ls[k].item, h>>]),
               diff |-> ls[k].actual - Docs(b)!Quantity(stock[<<ls[k].item, h>>])]]]]
  BY DEF Docs!CreateCheck, Docs!Draft
<1>2. /\ docs[d] = NoRow /\ trail' = [trail EXCEPT ![d] = Docs(b)!RecordCreate(@, [status |-> 0])]
      /\ stock' = stock /\ log' = log /\ txn' = txn
  BY DEF Docs!CreateCheck, Docs!Absent, NoRow, Docs!Draft
<1>3. PICK n \in 1..b.lines : ls \in [1..n -> [item : b.items, actual : b.counts]]
  BY DEF Docs!Lines
<1>4. n \in Nat /\ DOMAIN ls = 1..n
  BY <1>3 DEF Papered, Docs!StockAssumption
<1>5. PICK rows : rows = [k \in 1..n |->
              [item |-> ls[k].item, actual |-> ls[k].actual, book |-> Amount(stock[<<ls[k].item, h>>]),
               diff |-> ls[k].actual - Amount(stock[<<ls[k].item, h>>])]]
  OBVIOUS
<1>6. \A row : Docs(b)!Quantity(row) = Amount(row)
  BY DEF Docs!Quantity, Amount, Docs!Absent, NoRow
<1>7. PICK m : m = Len(log)
  OBVIOUS
<1>8. m \in Nat /\ log \in Seq(Entry(b))
  BY <1>7 DEF PaperInv, Ledger
<1>9. PICK r : r = [kind |-> "check", status |-> 0, warehouse |-> h, since |-> m, lines |-> rows]
  OBVIOUS
<1>10. docs' = [docs EXCEPT ![d] = r]
  BY <1>1, <1>4, <1>5, <1>6, <1>7, <1>9
<1>11. ASSUME NEW k \in 1..n
       PROVE  /\ rows[k] \in CheckLine(b) /\ rows[k].diff = rows[k].actual - rows[k].book
              /\ <<rows[k].item, h>> \in Kept(b) =>
                    Leads(log, <<rows[k].item, h>>, b.opening[<<rows[k].item, h>>], m, rows[k].book)
  <2>1. PICK c, v : c = <<ls[k].item, h>> /\ v = Amount(stock[c])
    OBVIOUS
  <2>2. ls[k] \in [item : b.items, actual : b.counts]
    BY <1>3
  <2>3. ls[k].item \in b.items /\ ls[k].actual \in Int
    BY <2>2 DEF Papered, Docs!StockAssumption
  <2>4. c \in Board(b) /\ v \in Int
    <3>1. c \in Board(b)
      BY <2>1, <2>3 DEF Board
    <3>2. stock[c] \in Row \cup {NoRow}
      BY <3>1 DEF PaperInv, Stocks
    <3> QED
      BY <2>1, <3>1, <3>2 DEF Amount, Row
  <2>5. rows[k] = [item |-> ls[k].item, actual |-> ls[k].actual, book |-> v, diff |-> ls[k].actual - v]
    BY <1>5, <2>1
  <2>6. rows[k].item = ls[k].item /\ rows[k].actual = ls[k].actual /\ rows[k].book = v
        /\ rows[k].diff = ls[k].actual - v
    BY <2>5
  <2>7. rows[k] \in CheckLine(b)
    BY <2>3, <2>4, <2>5 DEF CheckLine
  <2>8. c \in Kept(b) => Leads(log, c, b.opening[c], m, v)
    BY <1>7, <2>1, <2>4 DEF PaperInv, Ledger
  <2> QED
    BY <2>1, <2>6, <2>7, <2>8
<1>12. rows \in Seq(CheckLine(b)) /\ Len(rows) = n
  <2>1. rows = [k \in 1..n |-> rows[k]] /\ \A k \in 1..n : rows[k] \in CheckLine(b)
    BY <1>5, <1>11
  <2> QED
    BY <1>4, <2>1
<1>13. r \in CheckPaper(b) /\ r.status = 0
  BY <1>8, <1>9, <1>12 DEF CheckPaper, Stages
<1>14. Noted(b, r, log)
  <2>1. r.since = m /\ r.lines = rows /\ r.warehouse = h
    BY <1>9
  <2> QED
    BY <1>7, <1>8, <1>11, <1>12, <2>1 DEF Noted
<1>15. d \in Paper(b) /\ d \notin b.transfers
  BY DEF Paper, Papered, Docs!StockAssumption
<1> QED
  BY <1>2, <1>10, <1>13, <1>14, <1>15, DocDraft

\* A transfer is created.
LEMMA DocCreateTransfer ==
    ASSUME NEW CONSTANT b, Papered(b), PaperInv(b), NEW d \in b.transfers, Docs(b)!CreateTransfer(d)
    PROVE  PaperInv(b)'
<1>1. PICK from \in b.warehouses, to \in b.warehouses, ls \in Docs(b)!Lines([item : b.items, quantity : b.moves]) :
        docs' = [docs EXCEPT ![d] =
           [kind |-> "transfer", status |-> 0, from |-> from, to |-> to, lines |-> ls]]
  BY DEF Docs!CreateTransfer, Docs!Draft
<1>2. /\ docs[d] = NoRow /\ trail' = [trail EXCEPT ![d] = Docs(b)!RecordCreate(@, [status |-> 0])]
      /\ stock' = stock /\ log' = log /\ txn' = txn
  BY DEF Docs!CreateTransfer, Docs!Absent, NoRow, Docs!Draft
<1>3. PICK n \in 1..b.lines : ls \in [1..n -> [item : b.items, quantity : b.moves]]
  BY DEF Docs!Lines
<1>4. n \in Nat
  BY <1>3 DEF Papered, Docs!StockAssumption
<1>5. [item : b.items, quantity : b.moves] \subseteq MoveLine(b)
  BY DEF MoveLine, Papered, Docs!StockAssumption
<1>6. ls \in Seq(MoveLine(b))
  <2>1. ls \in [1..n -> MoveLine(b)]
    BY <1>3, <1>5
  <2> QED
    BY <1>4, <2>1
<1>7. PICK r : r = [kind |-> "transfer", status |-> 0, from |-> from, to |-> to, lines |-> ls]
  OBVIOUS
<1>8. r \in MovePaper(b) /\ r.status = 0
  BY <1>6, <1>7 DEF MovePaper, Stages
<1>9. d \in Paper(b) /\ d \notin b.checks
  BY DEF Paper, Papered, Docs!StockAssumption
<1>10. docs' = [docs EXCEPT ![d] = r]
  BY <1>1, <1>7
<1> QED
  BY <1>2, <1>8, <1>9, <1>10, DocDraft

\* Nothing happens.
LEMMA DocStutter ==
    ASSUME NEW CONSTANT b, PaperInv(b), docs' = docs, stock' = stock, log' = log, trail' = trail, txn' = txn
    PROVE  PaperInv(b)'
BY DEF PaperInv

\* Every step keeps the invariant.
LEMMA DocStep ==
    ASSUME NEW CONSTANT b, Papered(b), PaperInv(b), [Docs(b)!Next]_(Docs(b)!vars)
    PROVE  PaperInv(b)'
<1>1. CASE UNCHANGED Docs(b)!vars
  BY <1>1, DocStutter DEF Docs!vars
<1>2. CASE Docs(b)!Read
  BY <1>2, DocStutter DEF Docs!vars, Docs!Read
<1>3. ASSUME NEW d \in b.checks, Docs(b)!CreateCheck(d) PROVE PaperInv(b)'
  BY <1>3, DocCreateCheck
<1>4. ASSUME NEW d \in b.transfers, Docs(b)!CreateTransfer(d) PROVE PaperInv(b)'
  BY <1>4, DocCreateTransfer
<1>5. ASSUME NEW w \in Workers, NEW d \in b.checks, Docs(b)!SubmitCheck(w, d) \/ Docs(b)!ApproveCheck(w, d)
      PROVE  PaperInv(b)'
  BY <1>5, DocSubmit, DocApproveCheck
<1>6. ASSUME NEW w \in Workers, NEW d \in b.transfers, Docs(b)!SubmitTransfer(w, d) \/ Docs(b)!ApproveTransfer(w, d)
      PROVE  PaperInv(b)'
  BY <1>6, DocSubmit, DocApproveTransfer
<1>7. ASSUME NEW w \in Workers, NEW i \in b.initials, Docs(b)!StartInitial(w, i) PROVE PaperInv(b)'
  BY <1>7, DocStartInitial
<1>8. ASSUME NEW w \in Workers, NEW k, Docs(b)!Post(w, k) PROVE PaperInv(b)'
  BY <1>8, DocPost
<1>10. ASSUME NEW w \in Workers, NEW k, Docs(b)!MissRow(w, k) PROVE PaperInv(b)'
  BY <1>10, DocMiss
<1>9. ASSUME NEW w \in Workers,
             Docs(b)!CommitCheck(w) \/ Docs(b)!CommitTransfer(w) \/ Docs(b)!CommitInitial(w) \/ Docs(b)!Rollback(w)
      PROVE  PaperInv(b)'
  BY <1>9, DocCommit, DocCommitInitial, DocRollback
<1> QED
  BY <1>1, <1>2, <1>3, <1>4, <1>5, <1>6, <1>7, <1>8, <1>9, <1>10 DEF Docs!Next

\* It holds initially.
LEMMA DocInit == ASSUME NEW CONSTANT b, Papered(b), Docs(b)!Init PROVE PaperInv(b)
<1>1. /\ docs = [d \in Paper(b) |-> NoRow] /\ log = <<>>
      /\ stock = [c \in Board(b) |->
                    IF c \in DOMAIN b.opening THEN [quantity |-> b.opening[c], version |-> 1] ELSE NoRow]
      /\ trail = [x \in Paper(b) \cup Board(b) |-> <<>>] /\ txn = [w \in Workers |-> NoTxn]
  BY DEF Docs!Init, Docs!Absent, NoRow, Docs!Idle, NoTxn, Docs!StockRows, Board, Paper
<1>2. Papers(b, docs)
  BY <1>1 DEF Papers, Paper
<1>3. Stocks(b, stock) /\ Dealings(b, txn) /\ Locked(b, txn)
  <2>1. \A c \in Board(b) : c \in DOMAIN b.opening => [quantity |-> b.opening[c], version |-> 1] \in Row
    BY DEF Papered, Docs!StockAssumption, Row
  <2>2. Stocks(b, stock)
    BY <1>1, <2>1 DEF Stocks
  <2> QED
    BY <1>1, <2>2 DEF Dealings, Locked
<1>4. log \in Seq(Entry(b)) /\ Len(log) = 0 /\ \A j \in 1..0 : FALSE
  BY <1>1
<1>5. Ledger(b, log, stock)
  <2>1. ASSUME NEW c \in Kept(b)
        PROVE  /\ stock[c] # NoRow /\ Leads(log, c, b.opening[c], Len(log), Amount(stock[c]))
               /\ Version(stock[c]) = Tally(log, c) + 1
    <3>1. Tally(log, c) = 0
      BY <1>4, TallyNone
    <3>2. PICK r : r = stock[c] /\ r = [quantity |-> b.opening[c], version |-> 1]
      BY <1>1 DEF Kept
    <3>3. r \in Row /\ r.quantity = b.opening[c] /\ r.version = 1
      BY <3>2 DEF Papered, Docs!StockAssumption, Row, Kept
    <3>4. r # NoRow /\ Amount(r) = b.opening[c] /\ Version(r) = 1
      BY <3>3, RowThere
    <3> QED
      BY <1>4, <3>1, <3>2, <3>4 DEF Leads
  <2> QED
    BY <1>4, <2>1 DEF Ledger
<1>6. Posts(b, docs, log)
  <2>1. ASSUME NEW d \in b.transfers PROVE MovedOnce(d, docs[d], log)
    BY <1>1, <1>4 DEF MovedOnce, Paper
  <2>2. \A d \in b.checks : docs[d] = NoRow
    BY <1>1 DEF Paper
  <2> QED
    BY <1>4, <2>1, <2>2 DEF Posts
<1>7. Trails(b, docs, trail)
  <2>1. \A x \in Paper(b) \cup Board(b) : trail[x] = <<>>
    BY <1>1
  <2>2. \A x \in Paper(b) : docs[x] = NoRow
    BY <1>1
  <2>3. <<>> \in Seq(PaperEntry) /\ <<>> \in Seq(RowEntry)
    OBVIOUS
  <2>4. trail = [x \in Paper(b) \cup Board(b) |-> trail[x]]
    BY <1>1
  <2>5. \A x \in Board(b) : \A k \in 1..Len(trail[x]) : OneStepOf(trail[x][k])
    BY <2>1
  <2> QED
    BY <2>1, <2>2, <2>3, <2>4, <2>5 DEF Trails
<1> QED
  BY <1>1, <1>2, <1>3, <1>5, <1>6, <1>7 DEF PaperInv

\* Operators of the library, in the instance as elsewhere.
LEMMA DocsLibrary ==
    ASSUME NEW CONSTANT b
    PROVE  /\ \A S : Docs(b)!Cardinality(S) = Cardinality(S)
           /\ \A f, S : Docs(b)!SumFunctionOnSet(f, S) = SumFunctionOnSet(f, S)
<1>1. \A S : Docs(b)!Cardinality(S) = Cardinality(S)
  BY DEF Docs!Cardinality, Cardinality, Docs!IsFiniteSet, IsFiniteSet
<1>2. \A f, S : Docs(b)!SumFunctionOnSet(f, S) = SumFunctionOnSet(f, S)
  BY DEF Docs!SumFunctionOnSet, SumFunctionOnSet, Docs!FoldFunctionOnSet, FoldFunctionOnSet,
         Docs!MapThenFoldSet, MapThenFoldSet
<1> QED
  BY <1>1, <1>2

\* The last of the entries of a cell.
LEMMA LeadsLast ==
    ASSUME NEW CONSTANT b, NEW ls, NEW m \in Nat, NEW c, NEW u, NEW v, Leads(ls, c, u, m, v), NEW S, S = At(ls, c, m)
    PROVE  v = IF S = {} THEN u ELSE ls[Docs(b)!Max(S)].after
<1>1. CASE v = u /\ \A j \in 1..m : ls[j].cell # c
  <2>1. S = {}
    BY <1>1 DEF At
  <2> QED
    BY <1>1, <2>1
<1>2. ASSUME NEW k \in 1..m, ls[k].cell = c, v = ls[k].after, \A j \in 1..m : j > k => ls[j].cell # c
      PROVE  S # {} /\ v = ls[Docs(b)!Max(S)].after
  <2>1. k \in S /\ S \in SUBSET (1..m) /\ \A j \in S : ~(j > k)
    BY <1>2 DEF At
  <2>2. \A j \in S : k >= j
    BY <2>1
  <2>3. PICK x : x = Docs(b)!Max(S)
    OBVIOUS
  <2>4. x \in S /\ \A y \in S : x >= y
    BY <2>1, <2>2, <2>3 DEF Docs!Max
  <2>5. x = k
    <3>1. x >= k /\ k >= x /\ x \in Int /\ k \in Int
      BY <2>1, <2>2, <2>4
    <3> QED
      BY <3>1
  <2> QED
    BY <1>2, <2>1, <2>3, <2>5
<1> QED
  BY <1>1, <1>2 DEF Leads

\* The invariant gives type correctness.
LEMMA DocTypeOK == ASSUME NEW CONSTANT b, PaperInv(b) PROVE Docs(b)!TypeOK
<1>1. \A d \in Docs(b)!Rows(docs) : docs[d].status \in {Docs(b)!Draft, Docs(b)!Submitted, Docs(b)!Approved}
  BY PaperThere DEF Stages, Docs!Draft, Docs!Submitted, Docs!Approved
<1>2. \A c \in Docs(b)!Rows(stock) : stock[c] \in Docs(b)!InventoryRow
  BY DEF Docs!Rows, Docs!Absent, NoRow, Docs!InventoryRow, Row, PaperInv, Stocks
<1>3. log \in Seq([cell : Docs(b)!StockRows, type : {"out", "in", "check"}, quantity : Int, before : Int,
                   after : Int, ref : b.checks \cup b.transfers \cup b.initials])
  BY DEF PaperInv, Ledger, Entry, Paper, Board, Docs!StockRows
<1>4. ASSUME NEW w \in Workers, txn[w] # NoTxn
      PROVE  /\ txn[w].held \subseteq Board(b)
             /\ \A c \in Board(b) : txn[w].wrote[c] # NoRow => c \in txn[w].held
  <2>1. txn[w] \in OpenTxn(b) /\ Chains(b, txn[w], stock)
    BY <1>4 DEF PaperInv, Dealings
  <2> QED
    BY <2>1, OpenFields DEF Chains
<1> QED
  BY <1>1, <1>2, <1>3, <1>4 DEF Docs!TypeOK, Docs!Idle, NoTxn, Docs!StockRows, Board, Docs!Absent, NoRow

\* What is kept is a cell of the board.
LEMMA KeptCells ==
    ASSUME NEW CONSTANT b, Papered(b)
    PROVE  Kept(b) = DOMAIN b.opening /\ DOMAIN b.opening \subseteq Board(b) /\ \A c \in Kept(b) : b.opening[c] \in Int
<1>1. PICK S \in SUBSET Board(b) : b.opening \in [S -> Int]
  BY DEF Papered, Docs!StockAssumption, Docs!StockRows, Board
<1> QED
  BY <1>1 DEF Kept

\* The entries of a cell that had its row chain from its opening quantity to
\* the quantity on hand.
LEMMA DocStockIsLogged == ASSUME NEW CONSTANT b, Papered(b), PaperInv(b) PROVE Docs(b)!StockIsLogged
<1>1. SUFFICES ASSUME NEW c \in DOMAIN b.opening
      PROVE  LET h == Docs(b)!History(c)
                 After(S) == IF S = {} THEN b.opening[c] ELSE log[Docs(b)!Max(S)].after
             IN  /\ c \in Docs(b)!SearchInventories(b.warehouses)
                 /\ stock[c].quantity = After(h)
                 /\ \A k \in h : log[k].before = After({j \in h : j < k})
                 /\ stock[c].version = Docs(b)!Cardinality(h) + 1
  BY DEF Docs!StockIsLogged
<1>12. c \in Kept(b) /\ c \in Board(b)
  BY KeptCells
<1>2. PICK n \in Nat : n = Len(log) /\ DOMAIN log = 1..n
  BY DEF PaperInv, Ledger
<1>3. \A k \in 1..n : log[k].cell \in Board(b) /\ log[k].type \in {"out", "in", "check"}
  <2>1. \A k \in 1..n : log[k] \in Entry(b)
    BY <1>2 DEF PaperInv, Ledger
  <2> QED
    BY <2>1 DEF Entry
<1>4. PICK h : h = Docs(b)!History(c)
  OBVIOUS
<1>5. h = At(log, c, n)
  <2>1. \A x \in Board(b) : (x[1] = c[1] /\ x[2] = c[2]) <=> x = c
    BY <1>12 DEF Board
  <2>2. h = {k \in 1..n : log[k].cell[1] = c[1] /\ log[k].cell[2] = c[2]}
    BY <1>2, <1>3, <1>4 DEF Docs!History, Docs!SearchTransactions
  <2> QED
    BY <1>3, <2>1, <2>2 DEF At
<1>6. /\ Leads(log, c, b.opening[c], n, Amount(stock[c])) /\ Version(stock[c]) = Cardinality(h) + 1
      /\ stock[c] # NoRow
  BY <1>2, <1>5, <1>12 DEF PaperInv, Ledger, Tally
<1>7. stock[c].quantity = IF h = {} THEN b.opening[c] ELSE log[Docs(b)!Max(h)].after
  <2>1. PICK v, o : v = Amount(stock[c]) /\ o = b.opening[c]
    OBVIOUS
  <2>2. v = IF h = {} THEN o ELSE log[Docs(b)!Max(h)].after
    BY <1>5, <1>6, <2>1, LeadsLast
  <2> QED
    BY <1>6, <2>1, <2>2 DEF Amount
<1>8. ASSUME NEW k \in h, NEW S, S = {j \in h : j < k}
      PROVE  log[k].before = IF S = {} THEN b.opening[c] ELSE log[Docs(b)!Max(S)].after
  <2>1. k \in 1..n /\ log[k].cell = c
    BY <1>5 DEF At
  <2>2. PICK m \in Nat : m = k - 1 /\ m <= n /\ k = m + 1
    <3>1. k - 1 \in Nat /\ k - 1 <= n /\ k = (k - 1) + 1
      BY <2>1
    <3> QED
      BY <3>1
  <2>3. S = At(log, c, m)
    <3>1. \A j : j \in 1..m <=> j \in 1..n /\ j < k
      BY <2>2
    <3> QED
      BY <1>5, <1>8, <3>1 DEF At
  <2>4. PICK v, o : v = log[k].before /\ o = b.opening[c]
    OBVIOUS
  <2>5. Leads(log, c, o, m, v)
    BY <1>2, <1>12, <2>1, <2>2, <2>4 DEF PaperInv, Ledger, Linked
  <2> QED
    BY <2>3, <2>4, <2>5, LeadsLast
<1>9. c \in Docs(b)!SearchInventories(b.warehouses)
  BY <1>6, <1>12 DEF Docs!SearchInventories, Docs!Rows, Docs!Absent, NoRow, PaperInv, Stocks, Board
<1>10. stock[c].version = Docs(b)!Cardinality(h) + 1
  BY <1>6, DocsLibrary DEF Version
<1> QED
  BY <1>4, <1>7, <1>8, <1>9, <1>10

\* An approved transfer has posted each line once, as one block.
LEMMA DocTransferPostedOnce == ASSUME NEW CONSTANT b, PaperInv(b) PROVE Docs(b)!TransferPostedOnce
<1>1. SUFFICES ASSUME NEW d \in b.transfers, d \in Docs(b)!Rows(docs)
      PROVE  LET mine == {k \in DOMAIN log : log[k].ref = d}
                 ls == docs[d].lines
                 Posted(k, type, h, l) ==
                   log[k].type = type /\ log[k].cell = <<l.item, h>> /\ log[k].quantity = l.quantity
             IN  IF docs[d].status = 3
                 THEN \E p \in 0..Len(log) :
                        /\ mine = (p + 1)..(p + 2 * Len(ls))
                        /\ \A k \in DOMAIN ls :
                             /\ Posted(p + 2 * k - 1, "out", docs[d].from, ls[k])
                             /\ Posted(p + 2 * k, "in", docs[d].to, ls[k])
                 ELSE mine = {}
  BY DEF Docs!TransferPostedOnce, Docs!Approved
<1>2. PICK n \in Nat : n = Len(log) /\ DOMAIN log = 1..n
  BY DEF PaperInv, Ledger
<1>3. PICK r : r = docs[d]
  OBVIOUS
<1>4. r # NoRow /\ r \in MovePaper(b) /\ MovedOnce(d, r, log)
  BY <1>1, <1>3, PaperThere DEF PaperInv, Posts
<1>5. PICK l \in Nat : l = Len(r.lines) /\ DOMAIN r.lines = 1..l
  <2>1. r.lines \in Seq(MoveLine(b))
    BY <1>4 DEF MovePaper
  <2> QED
    BY <2>1
<1>6. CASE r.status # 3
  BY <1>2, <1>3, <1>4, <1>6 DEF MovedOnce
<1>7. CASE r.status = 3
  <2>1. PICK p \in 0..n :
           /\ \A k \in 1..n : (log[k].ref = d) <=> (k \in (p + 1)..(p + 2 * l))
           /\ p + 2 * l <= n
           /\ \A k \in 1..(2 * l) : Carried(LegAt(r, k), log[p + k])
    BY <1>2, <1>4, <1>5, <1>7 DEF MovedOnce
  <2>2. {k \in DOMAIN log : log[k].ref = d} = (p + 1)..(p + 2 * l)
    <3>1. \A k \in (p + 1)..(p + 2 * l) : k \in 1..n
      BY <2>1
    <3> QED
      BY <1>2, <2>1, <3>1
  <2>3. ASSUME NEW k \in 1..l
        PROVE  /\ Carried([op |-> "issue", type |-> "out", cell |-> <<r.lines[k].item, r.from>>, n |-> r.lines[k].quantity],
                          log[p + 2 * k - 1])
               /\ Carried([op |-> "receive", type |-> "in", cell |-> <<r.lines[k].item, r.to>>, n |-> r.lines[k].quantity],
                          log[p + 2 * k])
    <3>1. PICK i, j : i = 2 * k - 1 /\ j = 2 * k
      OBVIOUS
    <3>2. i \in 1..(2 * l) /\ j \in 1..(2 * l) /\ (i + 1) \div 2 = k /\ (j + 1) \div 2 = k /\ i % 2 = 1 /\ j % 2 = 0
          /\ p + 2 * k - 1 = p + i /\ p + 2 * k = p + j
      BY <3>1
    <3>3. Carried(LegAt(r, i), log[p + i]) /\ Carried(LegAt(r, j), log[p + j])
      BY <2>1, <3>2
    <3>4. /\ LegAt(r, i) = [op |-> "issue", type |-> "out", cell |-> <<r.lines[k].item, r.from>>, n |-> r.lines[k].quantity]
          /\ LegAt(r, j) = [op |-> "receive", type |-> "in", cell |-> <<r.lines[k].item, r.to>>, n |-> r.lines[k].quantity]
      BY <3>2 DEF LegAt
    <3> QED
      BY <3>2, <3>3, <3>4
  <2>4. ASSUME NEW k \in DOMAIN r.lines
        PROVE  /\ log[p + 2 * k - 1].type = "out" /\ log[p + 2 * k - 1].cell = <<r.lines[k].item, r.from>>
               /\ log[p + 2 * k - 1].quantity = r.lines[k].quantity
               /\ log[p + 2 * k].type = "in" /\ log[p + 2 * k].cell = <<r.lines[k].item, r.to>>
               /\ log[p + 2 * k].quantity = r.lines[k].quantity
    BY <1>5, <2>3, <2>4 DEF Carried
  <2> QED
    BY <1>2, <1>3, <1>5, <1>7, <2>2, <2>4
<1> QED
  BY <1>3, <1>6, <1>7

\* The audit trail of a document tells its status.
LEMMA DocHistory == ASSUME NEW CONSTANT b, PaperInv(b) PROVE Docs(b)!DocumentHistory
<1>1. SUFFICES ASSUME NEW d \in Docs(b)!Rows(docs)
               PROVE  Docs(b)!Chained(trail[d]) /\ Docs(b)!UpToDate(trail[d], Docs(b)!Snapshot(d))
  BY DEF Docs!DocumentHistory
<1>2. Tells(trail[d], [status |-> docs[d].status])
  BY PaperThere DEF PaperInv, Trails
<1> QED
  BY <1>2 DEF Tells, Docs!Chained, Docs!UpToDate, Docs!Snapshot

\* What an approved check posts replaces the movements since it was noted.
LEMMA DocCheckReplaces == ASSUME NEW CONSTANT b, Papered(b), PaperInv(b) PROVE Docs(b)!CheckReplacesMovements
<1>1. SUFFICES ASSUME NEW d \in b.checks, d \in Docs(b)!Rows(docs), NEW n \in DOMAIN log, NEW k \in DOMAIN docs[d].lines
      PROVE
        LET c == <<docs[d].lines[k].item, docs[d].warehouse>>
            once == Docs(b)!Cardinality({j \in DOMAIN docs[d].lines : docs[d].lines[j].item = c[1]}) = 1
            between == {j \in (docs[d].since + 1)..(n - 1) : log[j].cell = c}
        IN  c \in DOMAIN b.opening /\ once /\ log[n].ref = d /\ log[n].cell = c =>
              log[n].quantity = docs[d].lines[k].diff
              - Docs(b)!SumFunctionOnSet([j \in between |-> log[j].after - log[j].before], between)
  BY DEF Docs!CheckReplacesMovements
<1>2. PICK r, c, s, K : /\ r = docs[d] /\ c = <<r.lines[k].item, r.warehouse>> /\ s = r.since
                        /\ K = {j \in (s + 1)..(n - 1) : log[j].cell = c}
  OBVIOUS
<1>3. r # NoRow /\ r \in CheckPaper(b) /\ Noted(b, r, log)
  BY <1>1, <1>2, PaperThere DEF PaperInv, Posts
<1>4. PICK l \in Nat : l = Len(r.lines) /\ DOMAIN r.lines = 1..l
  <2>1. r.lines \in Seq(CheckLine(b))
    BY <1>3 DEF CheckPaper
  <2> QED
    BY <2>1
<1>5. r.lines \in Seq(CheckLine(b)) /\ s \in Nat
  BY <1>2, <1>3 DEF CheckPaper
<1>6. k \in 1..l /\ \A j \in 1..l : r.lines[j] \in CheckLine(b)
  BY <1>2, <1>4, <1>5
<1>7. r.lines[k].actual \in Int /\ r.lines[k].book \in Int
  BY <1>6 DEF CheckLine
<1>8. PICK N \in Nat : N = Len(log) /\ n \in 1..N
  BY DEF PaperInv, Ledger
<1>9. \A j \in 1..N : log[j] \in Entry(b)
  BY <1>8 DEF PaperInv, Ledger
<1>10. \A j \in 1..N : log[j].after \in Int /\ log[j].before \in Int
  BY <1>9 DEF Entry
<1>11. SUFFICES ASSUME c \in DOMAIN b.opening, Docs(b)!Cardinality({j \in 1..l : r.lines[j].item = c[1]}) = 1, log[n].ref = d, log[n].cell = c
                PROVE  log[n].quantity = r.lines[k].diff
                       - Docs(b)!SumFunctionOnSet([j \in K |-> log[j].after - log[j].before], K)
  BY <1>2, <1>4
<1>27. PICK o : o = b.opening[c] /\ c \in Kept(b)
  BY <1>11, KeptCells
<1>12. PICK L : L = {j \in 1..l : r.lines[j].item = c[1]}
  OBVIOUS
<1>13. \A i, j \in L : i = j
  <2>1. Cardinality(L) = 1
    BY <1>11, <1>12, DocsLibrary
  <2>2. L \in SUBSET (1..l) /\ 1 \in Int /\ l \in Int
    BY <1>12
  <2>3. IsFiniteSet(L)
    BY <2>2, FS_Interval, FS_Subset
  <2>4. \E x : L = {x}
    BY <2>1, <2>3, FS_Singleton
  <2> QED
    BY <2>4
<1>14. n > s /\ Counted(r, log[n])
  BY <1>2, <1>8, <1>11 DEF PaperInv, Posts
<1>15. PICK i \in 1..l : log[n].cell = <<r.lines[i].item, r.warehouse>> /\ log[n].after = r.lines[i].actual
  BY <1>4, <1>14 DEF Counted
<1>16. i = k
  <2>1. r.lines[i].item = r.lines[k].item /\ c[1] = r.lines[k].item
    BY <1>2, <1>11, <1>15
  <2>2. i \in L /\ k \in L
    BY <1>6, <1>12, <2>1
  <2> QED
    BY <1>13, <2>2
<1>17. log[n].quantity = r.lines[k].actual - log[n].before
  BY <1>14, <1>15, <1>16 DEF Counted
<1>18. r.lines[k].diff = r.lines[k].actual - r.lines[k].book /\ Leads(log, c, o, s, r.lines[k].book) /\ s <= N
  BY <1>2, <1>3, <1>4, <1>6, <1>8, <1>27 DEF Noted
<1>19. PICK m \in Nat : m = n - 1 /\ m <= N /\ s <= m
  <2>1. n - 1 \in Nat /\ n - 1 <= N /\ s <= n - 1
    BY <1>5, <1>8, <1>14
  <2> QED
    BY <2>1
<1>20. PICK v, x : v = r.lines[k].book /\ x = log[n].before
  OBVIOUS
<1>21. v \in Int /\ Leads(log, c, o, s, v) /\ Leads(log, c, o, m, x)
  BY <1>7, <1>8, <1>11, <1>18, <1>19, <1>20, <1>27 DEF PaperInv, Ledger, Linked
<1>22. \A j \in 1..N : log[j].cell = c => Leads(log, c, o, j - 1, log[j].before)
  BY <1>8, <1>27 DEF PaperInv, Ledger, Linked
<1>23. x = v + Changed(log, Since(log, c, s, m))
  BY <1>5, <1>10, <1>19, <1>21, <1>22, Telescope
<1>24. K = Since(log, c, s, m)
  BY <1>2, <1>19 DEF Since
<1>25. Docs(b)!SumFunctionOnSet([j \in K |-> log[j].after - log[j].before], K) = Changed(log, K)
  BY DocsLibrary DEF Changed
<1>26. Changed(log, K) \in Int /\ x \in Int
  <2>1. K \in SUBSET (1..N) /\ 1 \in Int /\ N \in Int
    BY <1>2, <1>5, <1>8
  <2>2. IsFiniteSet(K)
    BY <2>1, FS_Interval, FS_Subset
  <2>3. PICK f : f = [j \in K |-> log[j].after - log[j].before]
    OBVIOUS
  <2>4. \A j \in K : f[j] \in Int
    BY <1>10, <2>1, <2>3
  <2>5. SumFunctionOnSet(f, K) \in Int
    BY <2>2, <2>4, SumInt
  <2> QED
    BY <1>8, <1>10, <1>20, <2>3, <2>5 DEF Changed
<1> QED
  BY <1>7, <1>17, <1>18, <1>20, <1>23, <1>24, <1>25, <1>26

\* A recorded update of the initial stock is one step.
LEMMA DocOneStep == ASSUME NEW CONSTANT b, PaperInv(b) PROVE Docs(b)!InitialIsOneStep
<1>1. \A c \in Board(b) : trail[c] \in Seq(RowEntry) /\ \A k \in 1..Len(trail[c]) : OneStepOf(trail[c][k])
  BY DEF PaperInv, Trails
<1>2. \A c \in Board(b) : \A k \in DOMAIN trail[c] : OneStepOf(trail[c][k])
  BY <1>1
<1> QED
  BY <1>2 DEF Docs!InitialIsOneStep, Docs!StockRows, Board, OneStepOf

\* What holds of the documents in the parts that move them.
DocInv ==
    /\ part = "transfer" => PaperInv(Transferring)
    /\ part = "count" => PaperInv(Counting)
    /\ part = "initial" => PaperInv(Founding)

\* The three instances satisfy the assumption of StockDocuments.
LEMMA DocAssumed == Papered(Transferring) /\ Papered(Counting) /\ Papered(Founding)
BY StockedAssumption DEF StockedAssumption, Papered

\* The invariant holds throughout the parts that move documents.
LEMMA DocsHold == StockSpec => []DocInv
<1>1. StockInit => DocInv
  BY DocAssumed, DocInit DEF StockInit, DocInv
<1>2. DocInv /\ [StockNext]_vStock => DocInv'
  <2>1. SUFFICES ASSUME DocInv, [StockNext]_vStock PROVE DocInv'
    OBVIOUS
  <2>2. part' = part
    BY <2>1 DEF StockNext, vStock
  <2>3. ASSUME NEW CONSTANT b, Docs(b)!Next \/ UNCHANGED vStock PROVE [Docs(b)!Next]_(Docs(b)!vars)
    BY <2>3 DEF Docs!vars, vStock, vCommon, vDocs
  <2>4. ASSUME part = "transfer" PROVE PaperInv(Transferring)'
    <3>1. PaperInv(Transferring) /\ (Docs(Transferring)!Next \/ UNCHANGED vStock)
      BY <2>1, <2>4 DEF DocInv, StockNext
    <3> QED
      BY <2>3, <3>1, DocAssumed, DocStep
  <2>5. ASSUME part = "count" PROVE PaperInv(Counting)'
    <3>1. PaperInv(Counting) /\ (Docs(Counting)!Next \/ UNCHANGED vStock)
      BY <2>1, <2>5 DEF DocInv, StockNext
    <3> QED
      BY <2>3, <3>1, DocAssumed, DocStep
  <2>6. ASSUME part = "initial" PROVE PaperInv(Founding)'
    <3>1. PaperInv(Founding) /\ (Docs(Founding)!Next \/ UNCHANGED vStock)
      BY <2>1, <2>6 DEF DocInv, StockNext
    <3> QED
      BY <2>3, <3>1, DocAssumed, DocStep
  <2> QED
    BY <2>2, <2>4, <2>5, <2>6 DEF DocInv
<1> QED
  BY <1>1, <1>2, PTL DEF StockSpec

\* Approvals of transfers that race post each of them once and whole, and
\* the ledger of a row that was there is an unbroken chain.
THEOREM TransfersPostedHolds == StockSpec => []TransfersPosted
<1>1. DocInv => TransfersPosted
  BY DocAssumed, DocTypeOK, DocTransferPostedOnce, DocStockIsLogged, DocHistory DEF DocInv, TransfersPosted
<1> QED
  BY <1>1, DocsHold, PTL

\* A count replaces what was posted since it was noted, and an initial stock
\* recorded as an update is one step.
THEOREM CountsReplaceHolds == StockSpec => []CountsReplace
<1>1. DocInv => CountsReplace
  BY DocAssumed, DocCheckReplaces, DocOneStep DEF DocInv, CountsReplace
<1> QED
  BY <1>1, DocsHold, PTL
=============================================================================
