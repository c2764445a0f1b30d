------------------------------ MODULE Accounts ------------------------------
(***************************************************************************)
(* The accounts table of features/identity and the endpoints that write    *)
(* it, with the audit_logs rows and the account.created event that they    *)
(* write next to it.                                                       *)
(*                                                                         *)
(* Each endpoint reads the row first, without a lock, and writes it in a   *)
(* later statement; the steps of different requests interleave between the *)
(* two.  A write and the commit that follows it are one step: the UPDATE   *)
(* or DELETE holds the row lock until then, so nobody sees or changes the  *)
(* row in between.  account_reset_password has no transaction: there every *)
(* statement commits by itself.                                            *)
(***************************************************************************)
EXTENDS Naturals, Sequences, FiniteSets

CONSTANTS
    Reqs,        \* requests (and server starts) in progress at a time
    Ids,         \* account ids
    Names,
    Phones,
    Passwords,   \* password hashes, one per clear text
    SeedPhone,   \* SEED_ADMIN_PHONE, the same on every instance
    SeedPassword,
    Ops,         \* the endpoints this instance exercises
    MaxVersion,  \* bound on accounts.version
    MaxLog       \* bound on the audit records of one account

Op == {"create", "update", "delete", "update_password", "reset_password", "seed"}

AccountsAssumption ==
    /\ SeedPhone \in Phones
    /\ SeedPassword \in Passwords
    /\ Ops \subseteq Op
    /\ MaxVersion \in Nat

Unborn == [state |-> "unborn"] \* ID::new() has not produced it yet
Gone == [state |-> "gone"] \* its row was deleted

VARIABLES
    rows,    \* accounts, committed
    audit,   \* audit_logs of each account, in commit order
    events,  \* accounts with a published account.created event
    req      \* the request each process serves

vars == <<rows, audit, events, req>>

Row == [name: Names, phone: Phones, password: Passwords,
        privileged: BOOLEAN, version: Nat \ {0}]
IsRow(x) == x \notin {Unborn, Gone}
Live == {i \in Ids : IsRow(rows[i])}

\* What serde writes of an Account: neither password nor version.
Snapshot(x) ==
    IF IsRow(x)
    THEN [name |-> x.name, phone |-> x.phone, privileged |-> x.privileged]
    ELSE Gone

Idle == [op |-> "idle"]

Init ==
    /\ rows = [i \in Ids |-> Unborn]
    /\ audit = [i \in Ids |-> <<>>]
    /\ events = {}
    /\ req = [r \in Reqs |-> Idle]

-----------------------------------------------------------------------------
Become(r, q) == req' = [req EXCEPT ![r] = q]
End(r) == Become(r, Idle)
At(r, op, stage) == req[r].op = op /\ req[r].stage = stage
Record(i, action, before, after) ==
    audit' = [audit EXCEPT ![i] =
                Append(@, [action |-> action, before |-> before, after |-> after])]

\* Faulty form of UniquePhone: the unique violation is ignored.
PhoneUnchecked(i, phone) == TRUE

\* accounts.phone is UNIQUE; 23505 becomes AccountDuplicated.
UniquePhone(i, phone) == \A j \in Live \ {i} : rows[j].phone # phone

\* A new id; the bounds keep the table and its history finite.
Fresh(i) == rows[i] = Unborn

Room(i) == Len(audit[i]) < MaxLog

\* Faulty form of Create: the event is published on a connection of its
\* own, so it stays when the insert fails and the transaction rolls back.
CreateAndPublish(r) ==
    /\ req[r].op = "idle" /\ "create" \in Ops
    /\ \E i \in Ids, n \in Names, p \in Phones, w \in Passwords :
         /\ Fresh(i)
         /\ events' = events \cup {i}
         /\ UNCHANGED req
         /\ IF UniquePhone(i, p)
            THEN LET row == [name |-> n, phone |-> p, password |-> w,
                             privileged |-> FALSE, version |-> 1] IN
                 /\ rows' = [rows EXCEPT ![i] = row]
                 /\ Record(i, "created", Gone, Snapshot(row))
            ELSE UNCHANGED <<rows, audit>>

\* Faulty form of Create: the version starts at 0, which no row may have.
CreateUnversioned(r) ==
    /\ req[r].op = "idle" /\ "create" \in Ops
    /\ \E i \in Ids, n \in Names, p \in Phones, w \in Passwords :
         /\ Fresh(i)
         /\ UniquePhone(i, p)
         /\ rows' = [rows EXCEPT ![i] = [name |-> n, phone |-> p, password |-> w,
                                         privileged |-> FALSE, version |-> 0]]
         /\ Record(i, "created", Gone, Snapshot(rows'[i]))
         /\ events' = events \cup {i}
    /\ UNCHANGED req

\* account_create: insert, audit record and publish_in_tx in one transaction.
\* The new row is invisible until the commit, so all of it is one step.
Create(r) ==
    /\ req[r].op = "idle" /\ "create" \in Ops
    /\ \E i \in Ids, n \in Names, p \in Phones, w \in Passwords :
         LET row == [name |-> n, phone |-> p, password |-> w,
                     privileged |-> FALSE, version |-> 1] IN
         /\ Fresh(i)
         /\ UniquePhone(i, p)
         /\ rows' = [rows EXCEPT ![i] = row]
         /\ Record(i, "created", Gone, Snapshot(row))
         /\ events' = events \cup {i}
    /\ UNCHANGED req

\* before_starting: a starting instance counts the privileged accounts ...
SeedCount(r) ==
    /\ req[r].op = "idle" /\ "seed" \in Ops
    /\ \A i \in Live : ~rows[i].privileged
    /\ Become(r, [op |-> "seed", stage |-> "insert"])
    /\ UNCHANGED <<rows, audit, events>>

\* ... and inserts one when it saw none.  A duplicate phone fails the start.
\* No audit record and no event are written.
SeedInsert(r) ==
    /\ At(r, "seed", "insert")
    /\ \E i \in Ids : \E n \in Names :
         /\ Fresh(i)
         /\ rows' = IF UniquePhone(i, SeedPhone)
                    THEN [rows EXCEPT ![i] =
                            [name |-> n, phone |-> SeedPhone, password |-> SeedPassword,
                             privileged |-> TRUE, version |-> 1]]
                    ELSE rows
    /\ End(r)
    /\ UNCHANGED <<audit, events>>

\* AccountPort::by_id, no lock.  update, delete and reset_password refuse a
\* privileged account; a missing row ends all of them but delete.
\* update_password is called by the account itself, privileged or not.
ByIdUnprotected(r) ==
    /\ req[r].op = "idle"
    /\ \E op \in Ops \ {"create", "seed"}, i \in Ids :
         /\ Room(i)
         /\ IsRow(rows[i]) \/ (op = "delete" /\ rows[i] = Gone)
         /\ Become(r, [op |-> op, stage |-> "read", id |-> i, before |-> rows[i]])
    /\ UNCHANGED <<rows, audit, events>>

ById(r) ==
    /\ req[r].op = "idle"
    /\ \E op \in Ops \ {"create", "seed"}, i \in Ids :
         /\ Room(i)
         /\ IsRow(rows[i]) \/ (op = "delete" /\ rows[i] = Gone)
         /\ IsRow(rows[i]) /\ op # "update_password" => ~rows[i].privileged
         /\ Become(r, [op |-> op, stage |-> "read", id |-> i, before |-> rows[i]])
    /\ UNCHANGED <<rows, audit, events>>

\* Faulty form of Update: the UPDATE is not conditioned on the version.
UpdateAnyVersion(r) ==
    /\ At(r, "update", "read")
    /\ LET i == req[r].id IN
       \/ \E n \in Names, p \in Phones :
            /\ IsRow(rows[i]) /\ UniquePhone(i, p)
            /\ rows[i].version < MaxVersion
            /\ rows' = [rows EXCEPT ![i].name = n, ![i].phone = p, ![i].version = @ + 1]
            /\ Record(i, "updated", Snapshot(req[r].before), Snapshot(rows'[i]))
    /\ End(r)
    /\ UNCHANGED events

\* account_update: UPDATE ... WHERE id AND version, audit record, commit.
\* With no matching row it is VersionConflict or NotFound, with a taken
\* phone AccountDuplicated; see Fail.
Update(r) ==
    /\ At(r, "update", "read")
    /\ LET i == req[r].id IN
         /\ IsRow(rows[i])
         /\ rows[i].version = req[r].before.version
         /\ rows[i].version < MaxVersion
         /\ \E n \in Names, p \in Phones :
              /\ UniquePhone(i, p)
              /\ rows' = [rows EXCEPT ![i].name = n, ![i].phone = p, ![i].version = @ + 1]
         /\ Record(i, "updated", Snapshot(req[r].before), Snapshot(rows'[i]))
    /\ End(r)
    /\ UNCHANGED events

\* account_delete: the DELETE does not look at the number of rows, and the
\* record is written for the row that was read, whatever was deleted.
Delete(r) ==
    /\ At(r, "delete", "read")
    /\ LET i == req[r].id IN
         /\ rows' = [rows EXCEPT ![i] = Gone]
         /\ IF IsRow(req[r].before)
            THEN Record(i, "deleted", Snapshot(req[r].before), Gone)
            ELSE UNCHANGED audit
    /\ End(r)
    /\ UNCHANGED events

\* account_update_password: get_password_hash, a second read, and verify.  A
\* wrong old password ends the request; see Fail.
VerifyOld(r) ==
    /\ At(r, "update_password", "read")
    /\ IsRow(rows[req[r].id])
    /\ Become(r, [req[r] EXCEPT !.stage = "verified"])
    /\ UNCHANGED <<rows, audit, events>>

\* update_password has no version condition; the row is read again in the
\* same transaction for the audit record.
SetPassword(i) ==
    /\ IsRow(rows[i])
    /\ rows[i].version < MaxVersion
    /\ \E w \in Passwords :
         rows' = [rows EXCEPT ![i].password = w, ![i].version = @ + 1]

UpdatePassword(r) ==
    /\ At(r, "update_password", "verified")
    /\ LET i == req[r].id IN
         /\ SetPassword(i)
         /\ Record(i, "updated", Snapshot(req[r].before), Snapshot(rows'[i]))
    /\ End(r)
    /\ UNCHANGED events

\* account_reset_password, one statement after the other without a
\* transaction: the UPDATE, the second read, the audit record.
ResetWrite(r) ==
    /\ At(r, "reset_password", "read")
    /\ SetPassword(req[r].id)
    /\ Become(r, [req[r] EXCEPT !.stage = "written"])
    /\ UNCHANGED <<audit, events>>

ResetReadBack(r) ==
    /\ At(r, "reset_password", "written")
    /\ IsRow(rows[req[r].id])
    /\ Become(r, [op |-> "reset_password", stage |-> "after", id |-> req[r].id,
                  before |-> req[r].before, after |-> rows[req[r].id]])
    /\ UNCHANGED <<rows, audit, events>>

ResetAudit(r) ==
    /\ At(r, "reset_password", "after")
    /\ Record(req[r].id, "updated", Snapshot(req[r].before), Snapshot(req[r].after))
    /\ End(r)
    /\ UNCHANGED <<rows, events>>

\* account_get, profile_current and account_search only read.
Get(r) == req[r].op = "idle" /\ UNCHANGED vars

\* A request that ends with an error (a refused update, a wrong password, a
\* lost connection, a stopped server) drops its open transaction.
Fail(r) ==
    /\ req[r].op # "idle"
    /\ End(r)
    /\ UNCHANGED <<rows, audit, events>>

Step(r) ==
    \/ Create(r)
    \/ SeedCount(r) \/ SeedInsert(r)
    \/ ById(r)
    \/ Update(r)
    \/ Delete(r)
    \/ VerifyOld(r) \/ UpdatePassword(r)
    \/ ResetWrite(r) \/ ResetReadBack(r) \/ ResetAudit(r)
    \/ Get(r)
    \/ Fail(r)

Next == \E r \in Reqs : Step(r)
Spec == Init /\ [][Next]_vars

-----------------------------------------------------------------------------
Stage == {"read", "verified", "insert", "written", "after"}

TypeOK ==
    /\ rows \in [Ids -> Row \cup {Unborn, Gone}]
    /\ events \subseteq Ids
    /\ DOMAIN audit = Ids
    /\ \A r \in Reqs : req[r].op = "idle" \/ (req[r].op \in Op /\ req[r].stage \in Stage)

\* Instances that start together, and restarts after any history of
\* account writes, leave at most one privileged account: the second insert
\* meets the phone of the first, which nobody can change.
OnePrivileged == Cardinality({i \in Live : rows[i].privileged}) <= 1

\* A privileged account keeps its name, phone and privilege and is never
\* deleted, although the check and the write are different statements.
KeepsPrivileged ==
    \A i \in Live : rows[i].privileged =>
      IsRow(rows'[i]) /\ Snapshot(rows'[i]) = Snapshot(rows[i])
ProtectedAccount == [][KeepsPrivileged]_vars

\* The account.created event is published for exactly the accounts whose
\* creation committed (publish_in_tx, the outbox).
CreatedEvents ==
    events = {i \in Ids : Len(audit[i]) > 0 /\ audit[i][1].action = "created"}

\* The audit records of an account tell its history: each record starts
\* from what the previous one ended with, and the last one is the row.
AuditChain ==
    \A i \in Ids : LET log == audit[i] IN
      /\ \A k \in 1 .. Len(log) - 1 : log[k + 1].before = log[k].after
      /\ Len(log) > 0 => log[Len(log)].after = Snapshot(rows[i])

\* Every committed change of an account is in the audit log once its request
\* has ended: one record per version of the row.
AuditedChange ==
    (\A r \in Reqs : req[r].op = "idle") =>
      \A i \in Live : Len(audit[i]) > 0 => Len(audit[i]) >= rows[i].version
=============================================================================
