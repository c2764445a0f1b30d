----------------------------- MODULE Categories -----------------------------
(***************************************************************************)
(* features/item: the tree of item categories, and the units of an item.   *)
(*                                                                         *)
(* Unlike the other records, a category is updated column by column, only  *)
(* those that the request names.  The foreign keys (parent_id,             *)
(* items.category_id) make PostgreSQL refuse a parent that is gone and the *)
(* deletion of a category in use.                                          *)
(***************************************************************************)
EXTENDS AuditTrail, Integers, FiniteSets, Functions

CONSTANTS
    Workers,
    Cats,       \* ids, numbers: the tree is ordered by them
    Items,
    Names, Sorts, Units, Rates,
    MaxTrail    \* bound on the changes of a category

CategoryAssumption == Cats \subseteq Nat \ {0} /\ MaxTrail \in Nat /\ Sorts \subseteq Int

VARIABLES
    cats,   \* item_categories, or Absent
    items,  \* items.category_id, or Null before the item exists
    units,  \* item_units: rate by item and unit
    trail,  \* audit_logs of the categories
    txn     \* the request of each worker, or Idle

vars == <<cats, items, units, trail, txn>>

Absent == [row |-> "absent"]
Idle == [op |-> "idle"]
Null == 0       \* no id
Keep == -1      \* a field that the request leaves out
Rows == {c \in Cats : cats[c] # Absent}

Init ==
    /\ cats = [c \in Cats |-> Absent]
    /\ items = [i \in Items |-> Null]
    /\ units = {}
    /\ trail = [c \in Cats |-> <<>>]
    /\ txn = [w \in Workers |-> Idle]

Create(c) ==
    /\ cats[c] = Absent /\ trail[c] = <<>>
    /\ \E n \in Names, p \in Rows \cup {Null}, s \in Sorts :
         LET row == [name |-> n, parent |-> p, sort |-> s] IN
         /\ cats' = [cats EXCEPT ![c] = row]
         /\ trail' = [trail EXCEPT ![c] = RecordCreate(@, row)]
    /\ UNCHANGED <<items, units, txn>>

-----------------------------------------------------------------------------
(* Update. *)

\* What serde makes of a body: Option<Option<ID>> without a deserializer of
\* its own reads null as None, which is what a missing field gives.
Parse(body) == [body EXCEPT !.parent = IF @ = Null THEN Keep ELSE @]

Bodies == [name: Names \cup {Keep}, parent: Cats \cup {Null, Keep}, sort: Sorts \cup {Keep}]

StartUpdate(w, c, body) ==
    /\ txn[w] = Idle /\ Len(trail[c]) < MaxTrail /\ c \in Rows
    /\ txn' = [txn EXCEPT ![w] =
         [op |-> "update", id |-> c, body |-> body, before |-> cats[c]]]
    /\ UNCHANGED <<cats, items, units, trail>>

\* Faulty form of Assign: all columns, filled from the first read.
AssignAll(w, row) ==
    LET p == Parse(txn[w].body)
        b == txn[w].before
    IN  [name |-> IF p.name = Keep THEN b.name ELSE p.name,
         parent |-> IF p.parent = Keep THEN b.parent ELSE p.parent,
         sort |-> IF p.sort = Keep THEN b.sort ELSE p.sort]

\* One UPDATE per column that is given.
Assign(w, row) ==
    LET p == Parse(txn[w].body) IN
    [row EXCEPT !.name = IF p.name = Keep THEN @ ELSE p.name,
                !.parent = IF p.parent = Keep THEN @ ELSE p.parent,
                !.sort = IF p.sort = Keep THEN @ ELSE p.sort]

\* A row deleted meanwhile: nothing is updated and nothing recorded, and
\* the answer is the same.
CommitUpdate(w) ==
    /\ txn[w].op = "update"
    /\ LET c == txn[w].id IN
       IF c \notin Rows
       THEN UNCHANGED <<cats, trail>>
       ELSE LET row == Assign(w, cats[c]) IN
            /\ row.parent \in Rows \cup {Null}
            /\ cats' = [cats EXCEPT ![c] = row]
            /\ trail' = [trail EXCEPT ![c] = RecordUpdated(@, txn[w].before, row)]
    /\ txn' = [txn EXCEPT ![w] = Idle]
    /\ UNCHANGED <<items, units>>

-----------------------------------------------------------------------------
(* Deletion. *)

StartDelete(w, c) ==
    /\ txn[w] = Idle /\ Len(trail[c]) < MaxTrail /\ c \in Rows
    /\ txn' = [txn EXCEPT ![w] = [op |-> "delete", id |-> c, before |-> cats[c]]]
    /\ UNCHANGED <<cats, items, units, trail>>

Children(c) == {d \in Rows : cats[d].parent = c}

\* Refused while it has children (CategoryNotEmpty) or items (the foreign
\* key); the record is written whether or not a row was deleted.
CommitDelete(w) ==
    /\ txn[w].op = "delete"
    /\ LET c == txn[w].id IN
         /\ Children(c) = {}
         /\ \A i \in Items : items[i] # c
         /\ cats' = [cats EXCEPT ![c] = Absent]
         /\ trail' = [trail EXCEPT ![c] = RecordDeleted(@, txn[w].before)]
    /\ txn' = [txn EXCEPT ![w] = Idle]
    /\ UNCHANGED <<items, units>>

Rollback(w) ==
    /\ txn[w] # Idle
    /\ txn' = [txn EXCEPT ![w] = Idle]
    /\ UNCHANGED <<cats, items, units, trail>>

-----------------------------------------------------------------------------
(* Items and units. *)

PlaceItem(i) ==
    /\ \E c \in Rows : items' = [items EXCEPT ![i] = c]
    /\ UNCHANGED <<cats, units, trail, txn>>

\* Faulty form of CreateUnit: the unique key (item, unit) is missing.
CreateAnyUnit(i) ==
    /\ items[i] # Null
    /\ \E u \in Units, r \in Rates :
         units' = units \cup {[item |-> i, unit |-> u, rate |-> r]}
    /\ UNCHANGED <<cats, items, trail, txn>>

CreateUnit(i) ==
    /\ items[i] # Null
    /\ \E u \in Units, r \in Rates :
         /\ \A x \in units : x.item = i => x.unit # u
         /\ units' = units \cup {[item |-> i, unit |-> u, rate |-> r]}
    /\ UNCHANGED <<cats, items, trail, txn>>

ListUnits(i) == {x \in units : x.item = i}

-----------------------------------------------------------------------------
(* The tree, as the sequence of its nodes with their depth. *)

Before(c, d) ==
    \/ cats[c].sort < cats[d].sort
    \/ cats[c].sort = cats[d].sort /\ c < d

\* The rows of S, ORDER BY sort_order, id.
Ordered(S) ==
    CHOOSE s \in [1..Cardinality(S) -> S] : \A i, j \in DOMAIN s : i < j => Before(s[i], s[j])

\* Faulty form of BuildTree: the children of a node are not built.
BuildLevel(p, depth) ==
    LET kids == Ordered(Children(p)) IN
    [k \in DOMAIN kids |-> [id |-> kids[k], depth |-> depth]]

\* The categories from which a chain of parents leads to one without: the
\* smallest set that with the parent of a category, or none, holds it too.
Closed(S) == \A c \in Rows : cats[c].parent \in S \cup {Null} => c \in S
Rooted == {c \in Rows : \A S \in SUBSET Rows : Closed(S) => c \in S}

\* What hangs on no root is not reached.  listed[k] is what the first k
\* children of q give, n levels deep.
BuildTree(p, depth) ==
    LET build[q \in Rooted \cup {Null}] ==
          LET kids == Ordered(Children(q)) IN
          [n \in Nat |->
             LET listed[k \in 0..Len(kids)] ==
                   IF k = 0 THEN <<>>
                   ELSE listed[k - 1] \o <<[id |-> kids[k], depth |-> n]>> \o build[kids[k]][n + 1]
             IN  listed[Len(kids)]]
    IN  build[p][depth]

Tree == BuildTree(Null, 0)

Read == (Rows = {} => Tree = <<>>) /\ UNCHANGED vars

Next ==
    \/ \E c \in Cats : Create(c)
    \/ \E w \in Workers :
         \/ \E c \in Cats, b \in Bodies : StartUpdate(w, c, b)
         \/ CommitUpdate(w)
         \/ \E c \in Cats : StartDelete(w, c)
         \/ CommitDelete(w)
         \/ Rollback(w)
    \/ \E i \in Items : PlaceItem(i) \/ CreateUnit(i)
    \/ Read

Spec == Init /\ [][Next]_vars

-----------------------------------------------------------------------------
(* Properties. *)

\* Type correctness; an item has one rate for a unit.
TypeOK ==
    /\ \A c \in Rows : cats[c] \in [name: Names, parent: Cats \cup {Null}, sort: Sorts]
    /\ \A c \in Rows : cats[c].parent \in Rows \cup {Null}
    /\ \A i \in Items : items[i] \in Rows \cup {Null}
    /\ \A i \in Items : \A x, y \in ListUnits(i) : x.unit = y.unit => x = y

\* The tree that the API returns holds every category with a chain of
\* parents up to the root exactly once, below its parent, and terminates
\* although the table may hold cycles (build_tree).
TreeShowsRooted ==
    LET ids == [k \in DOMAIN Tree |-> Tree[k].id] IN
    /\ Range(ids) = Rooted /\ IsInjective(ids)
    /\ \A k \in DOMAIN Tree :
         LET p == cats[ids[k]].parent IN
         IF p = Null THEN Tree[k].depth = 0
         ELSE \E j \in 1..(k - 1) :
                /\ ids[j] = p /\ Tree[j].depth = Tree[k].depth - 1
                /\ \A n \in (j + 1)..(k - 1) : Tree[n].depth > Tree[j].depth

\* The tree shows every category.
TreeShowsAll == Rooted = Rows

\* A PATCH changes no column that its body does not name, whatever is
\* committed between its reads and its writes.
PatchKept ==
    \A w \in Workers :
      txn[w].op = "update" /\ txn'[w] = Idle /\ txn[w].id \in Rows =>
        LET old == cats[txn[w].id]
            new == cats'[txn[w].id]
            b == txn[w].body
        IN  /\ b.name = Keep => new.name = old.name
            /\ b.parent = Keep => new.parent = old.parent
            /\ b.sort = Keep => new.sort = old.sort
PatchTouchesOnly == [][PatchKept]_vars

\* A committed PATCH whose body sets the parent to null makes the category
\* a root.
NullClearsParent ==
    [][\A w \in Workers :
         txn[w].op = "update" /\ txn'[w] = Idle /\ txn[w].id \in Rows /\ trail' # trail
           /\ txn[w].body.parent = Null => cats'[txn[w].id].parent = Null]_vars

\* A category that is gone is not recorded as deleted once more.
DeletedOnce ==
    \A c \in Cats :
      Cardinality({k \in DOMAIN trail[c] : trail[c][k].action = "deleted"}) <= 1
=============================================================================
