------------------------------ MODULE JsonDiff ------------------------------
(***************************************************************************)
(* features/audit: the history of a resource as audit_search shows it, with*)
(* the field-level differences computed from the snapshots when it is read.*)
(*                                                                         *)
(* A JSON value is [kind, at]: a scalar (an array counts as one), null, or *)
(* an object, a function from some of Keys to values.  A path is a sequence*)
(* of keys; the dotted text it is shown as is left out.                    *)
(***************************************************************************)
EXTENDS Naturals, SequencesExt

CONSTANTS
    Keys, Scalars,
    Depth,      \* nesting of the snapshots
    MaxLogs,    \* bound on the length of the history
    Nothing     \* Option::None: no snapshot on this side

VARIABLES
    current,    \* the resource, or Nothing
    log         \* its audit_logs, oldest first: [before, after]

vars == <<current, log>>

Null == [kind |-> "null"]
Scalar(x) == [kind |-> "scalar", at |-> x]
Object(f) == [kind |-> "object", at |-> f]
IsObject(v) == v.kind = "object"

\* Values nested up to Depth levels.
Values ==
    LET json[d \in 0..Depth] ==
          {Null} \cup {Scalar(x) : x \in Scalars}
          \cup IF d = 0 THEN {}
               ELSE {Object(f) : f \in UNION {[K -> json[d - 1]] : K \in SUBSET Keys}}
    IN  json[Depth]
Snapshots == {v \in Values : IsObject(v)}

DiffAssumption == Depth \in Nat /\ MaxLogs \in Nat /\ Nothing \notin Values

-----------------------------------------------------------------------------
(* json_diff. *)

Field(v, k) == IF k \in DOMAIN v.at THEN v.at[k] ELSE Null

\* What concerns the value at a path, as it concerns the whole.
Under(path, S) == {[x EXCEPT !.field = path \o @] : x \in S}

\* The leaves of a value with their paths; an empty object has none.
Collect(v) ==
    LET leaves[x \in Values] ==
          IF IsObject(x) THEN UNION {Under(<<k>>, leaves[x.at[k]]) : k \in DOMAIN x.at}
          ELSE {[field |-> <<>>, value |-> x]}
    IN  leaves[v]

Change(path, b, a) == [field |-> path, before |-> b, after |-> a]

\* Faulty form of DiffValue: only the keys of the new snapshot are compared.
DiffNewKeys(b, a) ==
    LET diff[x \in Values] == [y \in Values |->
          IF x = y THEN {}
          ELSE IF IsObject(x) /\ IsObject(y)
               THEN UNION {Under(<<k>>, diff[Field(x, k)][Field(y, k)]) : k \in DOMAIN y.at}
               ELSE {Change(<<>>, x, y)}]
    IN  diff[b][a]

DiffValue(b, a) ==
    LET diff[x \in Values] == [y \in Values |->
          IF x = y THEN {}
          ELSE IF IsObject(x) /\ IsObject(y)
               THEN UNION {Under(<<k>>, diff[Field(x, k)][Field(y, k)])
                             : k \in DOMAIN x.at \cup DOMAIN y.at}
               ELSE {Change(<<>>, x, y)}]
    IN  diff[b][a]

Diff(b, a) ==
    CASE b = Nothing /\ a = Nothing -> {}
      [] b = Nothing /\ a # Nothing -> {Change(c.field, Null, c.value) : c \in Collect(a)}
      [] b # Nothing /\ a = Nothing -> {Change(c.field, c.value, Null) : c \in Collect(b)}
      [] OTHER -> DiffValue(b, a)

\* Faulty form of ChangeType: whatever has a snapshot after it is an update.
ChangeTypeAfter(b, a) == IF a = Nothing THEN "delete" ELSE "update"

ChangeType(b, a) ==
    CASE b = Nothing /\ a # Nothing -> "create"
      [] b # Nothing /\ a = Nothing -> "delete"
      [] OTHER -> "update"

\* A line of audit_search.
Item(row) == [change_type |-> ChangeType(row.before, row.after), diff |-> Diff(row.before, row.after)]

-----------------------------------------------------------------------------
(* The resource: each change is recorded with its snapshots. *)

Init == current = Nothing /\ log = <<>>

Record(after) ==
    /\ Len(log) < MaxLogs
    /\ log' = Append(log, [before |-> current, after |-> after])
    /\ current' = after

Create == current = Nothing /\ log = <<>> /\ \E s \in Snapshots : Record(s)
Modify == current # Nothing /\ \E s \in Snapshots : Record(s)
Delete == current # Nothing /\ Record(Nothing)

Next == Create \/ Modify \/ Delete
Spec == Init /\ [][Next]_vars

-----------------------------------------------------------------------------
(* What a reader makes of a value. *)

\* Absent fields, nulls and objects without fields look the same.
Seen(v) == IF v = Nothing THEN {} ELSE {leaf \in Collect(v) : leaf.value # Null}

\* The value at a path, Null if there is none.
Get(v, path) ==
    LET at[i \in 0..Len(path)] ==
          IF i = 0 THEN v
          ELSE IF IsObject(at[i - 1]) THEN Field(at[i - 1], path[i]) ELSE Null
    IN  at[Len(path)]

-----------------------------------------------------------------------------
(* Properties. *)

\* Type correctness of the history and of what is shown of it.
TypeOK ==
    /\ current \in Snapshots \cup {Nothing}
    /\ \A n \in DOMAIN log : Item(log[n]).change_type =
         (IF n = 1 THEN "create" ELSE IF log[n].after = Nothing THEN "delete" ELSE "update")

\* The differences of a change, applied to what was there before, give what is
\* there after it: nothing that changed is missing, at any depth.
DiffRebuilds ==
    \A n \in DOMAIN log :
        LET diff == Item(log[n]).diff
            kept == {leaf \in Seen(log[n].before) : ~\E c \in diff : IsPrefix(c.field, leaf.field)}
        IN  Seen(log[n].after) = kept \cup UNION {Under(c.field, Seen(c.after)) : c \in diff}

\* The fields an update shows do not overlap, and each has two different
\* values, the first of which was there before and the second is now: nothing
\* is shown twice, and nothing that did not change.
DiffIsMinimal ==
    \A n \in {m \in DOMAIN log : log[m].before # Nothing /\ log[m].after # Nothing} :
        LET diff == Item(log[n]).diff
        IN  \A c \in diff :
               /\ c.before # c.after
               /\ Get(log[n].before, c.field) = c.before /\ Get(log[n].after, c.field) = c.after
               /\ \A d \in diff \ {c} : ~IsPrefix(c.field, d.field)
=============================================================================
