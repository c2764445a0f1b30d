----------------------------- MODULE AuditTrail -----------------------------
(***************************************************************************)
(* audit_contract: the change records that a business transaction writes   *)
(* next to its own rows.  A record holds the row before and after, as the  *)
(* caller passes them: nothing here compares them with the table.          *)
(***************************************************************************)
EXTENDS Naturals, Sequences

Nothing == [row |-> "none"] \* a snapshot that is absent (NULL)

RecordCreate(trail, after) ==
    Append(trail, [action |-> "created", before |-> Nothing, after |-> after])

RecordUpdated(trail, before, after) ==
    Append(trail, [action |-> "updated", before |-> before, after |-> after])

RecordDeleted(trail, before) ==
    Append(trail, [action |-> "deleted", before |-> before, after |-> Nothing])

\* The trail starts with the creation and every record continues the one
\* before it: read backwards it reconstructs every value the row had.
Chained(trail) ==
    /\ trail # <<>> => trail[1].action = "created"
    /\ \A k \in 2..Len(trail) :
         /\ trail[k].action # "created"
         /\ trail[k].before = trail[k - 1].after

\* The last record of the trail shows the row as it is now.
UpToDate(trail, row) == trail # <<>> /\ trail[Len(trail)].after = row
=============================================================================
