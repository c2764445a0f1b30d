----------------------------- MODULE MasterData -----------------------------
(***************************************************************************)
(* The records that documents refer to: customers, suppliers, items and    *)
(* warehouses (features customer, supplier, item, warehouse).              *)
(*                                                                         *)
(* A request runs in a transaction at READ COMMITTED and takes no lock     *)
(* before its UPDATE: an update reads the row for the audit record, reads  *)
(* it again to fill the fields that the request leaves out (a warehouse    *)
(* uses the first read for both), and then writes every column.  UPDATE,   *)
(* read back, audit record and commit are one step: the row is locked from *)
(* the UPDATE on.                                                          *)
(***************************************************************************)
EXTENDS AuditTrail, Integers, Functions

CONSTANTS
    Workers,
    Records,    \* ids
    Names,      \* values of a text field
    MaxSeq,     \* bound on the codes taken, from all sequences together
    MaxTrail    \* bound on the changes of a record: no request starts beyond it

MasterAssumption == MaxSeq \in Nat /\ MaxTrail \in Nat

Kinds == {"customer", "supplier", "item", "warehouse"}

\* The sequences that codes are taken from: one per table, and for items
\* one per item type (two of the seven).
Prefixes(kind) ==
    CASE kind = "customer" -> {"C"}
      [] kind = "supplier" -> {"S"}
      [] kind = "warehouse" -> {"WH"}
      [] kind = "item" -> {"RAW", "MFT"}
SeqNames == UNION {Prefixes(k) : k \in Kinds}

VARIABLES
    rows,   \* the four tables, or Absent; note stands for the other columns
    seq,    \* last value of each sequence
    trail,  \* audit_logs
    txn     \* the request of each worker, or Idle

vars == <<rows, seq, trail, txn>>

Absent == [row |-> "absent"]
Idle == [op |-> "idle"]
Rows == {r \in Records : rows[r] # Absent}

\* A field that a PATCH request leaves out.
Keep == "keep"

Patch == [name: Names \cup {Keep}, note: Names \cup {Keep}, active: {"true", "false", Keep}]

\* Faulty form of Merge: a field that is left out is written too.
MergeAll(row, patch) ==
    [row EXCEPT !.name = patch.name, !.note = patch.note,
                !.active = patch.active = "true"]

\* The row with the fields of the request, in SQL all columns are assigned.
Merge(row, patch) ==
    [row EXCEPT !.name = IF patch.name = Keep THEN @ ELSE patch.name,
                !.note = IF patch.note = Keep THEN @ ELSE patch.note,
                !.active = IF patch.active = Keep THEN @ ELSE patch.active = "true"]

Init ==
    /\ rows = [r \in Records |-> Absent]
    /\ seq = [p \in SeqNames |-> 0]
    /\ trail = [r \in Records |-> <<>>]
    /\ txn = [w \in Workers |-> Idle]

-----------------------------------------------------------------------------
(* Creation. *)

\* Faulty form of NextSeq: the highest code in the table plus one.
NextSeqFromRows(p) ==
    LET taken == {rows[r].code[2] : r \in {q \in Rows : rows[q].code[1] = p}} IN
    1 + (IF taken = {} THEN 0 ELSE CHOOSE n \in taken : \A k \in taken : k <= n)

\* nextval: never undone, not even by a rollback.
NextSeq(p) == seq[p] + 1

TakeCode(w, kind) ==
    /\ txn[w] = Idle /\ Rows # Records
    /\ \E p \in Prefixes(kind), n \in Names, o \in Names :
         /\ SumFunctionOnSet(seq, SeqNames) < MaxSeq
         /\ seq' = [seq EXCEPT ![p] = @ + 1]
         /\ txn' = [txn EXCEPT ![w] =
              [op |-> "create", row |-> [kind |-> kind, code |-> <<p, NextSeq(p)>>,
               name |-> n, note |-> o, active |-> TRUE]]]
    /\ UNCHANGED <<rows, trail>>

CreateCustomer(w) == TakeCode(w, "customer")
CreateSupplier(w) == TakeCode(w, "supplier")
CreateItem(w) == TakeCode(w, "item")
CreateWarehouse(w) == TakeCode(w, "warehouse")

CommitCreate(w, r) ==
    /\ txn[w].op = "create" /\ rows[r] = Absent
    /\ rows' = [rows EXCEPT ![r] = txn[w].row]
    /\ trail' = [trail EXCEPT ![r] = RecordCreate(@, txn[w].row)]
    /\ txn' = [txn EXCEPT ![w] = Idle]
    /\ UNCHANGED seq

-----------------------------------------------------------------------------
(* Update. *)

\* by_id of the port: the row of the audit record's before.
StartUpdate(w, r, patch) ==
    /\ txn[w] = Idle /\ r \in Rows /\ Len(trail[r]) < MaxTrail
    /\ txn' = [txn EXCEPT ![w] =
         [op |-> "read", id |-> r, patch |-> patch, before |-> rows[r], row |-> rows[r]]]
    /\ UNCHANGED <<rows, seq, trail>>

UpdateWarehouse(w, r, patch) ==
    /\ txn[w] = Idle /\ r \in Rows /\ Len(trail[r]) < MaxTrail /\ rows[r].kind = "warehouse"
    /\ txn' = [txn EXCEPT ![w] =
         [op |-> "update", id |-> r, patch |-> patch, before |-> rows[r], row |-> rows[r]]]
    /\ UNCHANGED <<rows, seq, trail>>

UpdateCustomer(w, r, patch) == r \in Rows /\ rows[r].kind = "customer" /\ StartUpdate(w, r, patch)
UpdateSupplier(w, r, patch) == r \in Rows /\ rows[r].kind = "supplier" /\ StartUpdate(w, r, patch)
UpdateItem(w, r, patch) == r \in Rows /\ rows[r].kind = "item" /\ StartUpdate(w, r, patch)

\* The repository's update reads the row once more.
ReadAgain(w, kind) ==
    /\ txn[w].op = "read" /\ txn[w].row.kind = kind
    /\ txn' = [txn EXCEPT ![w].op = "update", ![w].row = rows[txn[w].id]]
    /\ UNCHANGED <<rows, seq, trail>>

ReadCustomer(w) == ReadAgain(w, "customer")
ReadSupplier(w) == ReadAgain(w, "supplier")
ReadItem(w) == ReadAgain(w, "item")

\* Faulty form of ReadBack: what the request makes of the first read.
ReadBackStale(w, row) == Merge(txn[w].before, txn[w].patch)

\* The row is read again in the transaction, after the UPDATE.
ReadBack(w, row) == row

CommitUpdate(w) ==
    /\ txn[w].op = "update"
    /\ LET r == txn[w].id
           row == Merge(txn[w].row, txn[w].patch)
       IN  /\ rows' = [rows EXCEPT ![r] = row]
           /\ trail' = [trail EXCEPT ![r] = RecordUpdated(@, txn[w].before, ReadBack(w, row))]
    /\ txn' = [txn EXCEPT ![w] = Idle]
    /\ UNCHANGED seq

-----------------------------------------------------------------------------
(* Deletion clears is_active, again and again if asked to. *)

StartDelete(w, r, kind) ==
    /\ txn[w] = Idle /\ r \in Rows /\ Len(trail[r]) < MaxTrail /\ rows[r].kind = kind
    /\ txn' = [txn EXCEPT ![w] = [op |-> "delete", id |-> r, before |-> rows[r]]]
    /\ UNCHANGED <<rows, seq, trail>>

DeleteCustomer(w, r) == StartDelete(w, r, "customer")
DeleteSupplier(w, r) == StartDelete(w, r, "supplier")
DeleteItem(w, r) == StartDelete(w, r, "item")
DeleteWarehouse(w, r) == StartDelete(w, r, "warehouse")

CommitDelete(w) ==
    /\ txn[w].op = "delete"
    /\ rows' = [rows EXCEPT ![txn[w].id].active = FALSE]
    /\ trail' = [trail EXCEPT ![txn[w].id] = RecordDeleted(@, txn[w].before)]
    /\ txn' = [txn EXCEPT ![w] = Idle]
    /\ UNCHANGED seq

Rollback(w) ==
    /\ txn[w] # Idle
    /\ txn' = [txn EXCEPT ![w] = Idle]
    /\ UNCHANGED <<rows, seq, trail>>

-----------------------------------------------------------------------------
(* Reads.  A record is found by id whether active or not; lists show the   *)
(* active ones.                                                            *)

\* Faulty form of Active: the filter is missing.
Listed(kind) == {r \in Rows : rows[r].kind = kind}

Active(kind) == {r \in Rows : rows[r].kind = kind /\ rows[r].active}

GetCustomer(r) == rows[r]
GetSupplier(r) == rows[r]
GetItem(r) == rows[r]
SearchCustomers(names) == {r \in Active("customer") : rows[r].name \in names}
SearchSuppliers(names) == {r \in Active("supplier") : rows[r].name \in names}
SearchItems(names, prefixes) ==
    {r \in Active("item") : rows[r].name \in names /\ rows[r].code[1] \in prefixes}
ListWarehouses == Active("warehouse")

Get(r) ==
    CASE rows[r].kind = "customer" -> GetCustomer(r)
      [] rows[r].kind = "supplier" -> GetSupplier(r)
      [] rows[r].kind = "item" -> GetItem(r)
      [] OTHER -> rows[r]
Lists ==
    SearchCustomers(Names) \cup SearchSuppliers(Names)
      \cup SearchItems(Names, Prefixes("item")) \cup ListWarehouses

Read == Lists \subseteq Rows /\ UNCHANGED vars

Next ==
    \/ \E w \in Workers :
         \/ CreateCustomer(w) \/ CreateSupplier(w) \/ CreateItem(w) \/ CreateWarehouse(w)
         \/ \E r \in Records : CommitCreate(w, r)
         \/ \E r \in Records, p \in Patch :
              UpdateCustomer(w, r, p) \/ UpdateSupplier(w, r, p) \/ UpdateItem(w, r, p)
                \/ UpdateWarehouse(w, r, p)
         \/ ReadCustomer(w) \/ ReadSupplier(w) \/ ReadItem(w)
         \/ CommitUpdate(w)
         \/ \E r \in Records :
              DeleteCustomer(w, r) \/ DeleteSupplier(w, r) \/ DeleteItem(w, r) \/ DeleteWarehouse(w, r)
         \/ CommitDelete(w)
         \/ Rollback(w)
    \/ Read

Spec == Init /\ [][Next]_vars

-----------------------------------------------------------------------------
(* Properties. *)

Row == [kind: Kinds, code: SeqNames \X (1..MaxSeq), name: Names, note: Names, active: BOOLEAN]

\* Type correctness: whatever the order of requests, rows stay complete and
\* of the kind they were created with.
TypeOK ==
    /\ \A r \in Rows : rows[r] \in Row /\ rows[r].code[1] \in Prefixes(rows[r].kind)
    /\ seq \in [SeqNames -> 0..MaxSeq]

\* No two records share a code, although codes are taken long before they
\* are committed and requests fail in between (the UNIQUE column never
\* refuses a request).
CodesUnique ==
    \A r, q \in Rows : rows[r].code = rows[q].code => r = q

\* The trail ends with what the API shows: the last recorded after is the
\* row, and a record deleted last is in no list, whatever requests ran at
\* the same time.
TrailShowsRow ==
    \A r \in Rows :
      LET last == trail[r][Len(trail[r])] IN
      IF last.action = "deleted" THEN r \notin Lists ELSE Get(r) = last.after

\* A PATCH changes no field that it does not name.
PatchTouchesOnly ==
    [][\A w \in Workers : txn[w].op = "update" /\ txn'[w] = Idle =>
         LET old == rows[txn[w].id]
             new == rows'[txn[w].id]
             p == txn[w].patch
         IN  /\ p.name = Keep => new.name = old.name
             /\ p.note = Keep => new.note = old.note
             /\ p.active = Keep => new.active = old.active]_vars

\* The before of an update is the row that it replaced: the after of the
\* record before it, when that was an update too.
UpdatesChain ==
    \A r \in Rows : \A k \in 2..Len(trail[r]) :
      trail[r][k].action = "updated" /\ trail[r][k - 1].action = "updated" =>
        trail[r][k].before = trail[r][k - 1].after
=============================================================================
