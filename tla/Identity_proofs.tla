--------------------------- MODULE Identity_proofs ---------------------------
(***************************************************************************)
(* Proofs about the identity modules.  Accounts: the effects that a step   *)
(* can have, what each keeps, and what the version condition adds.         *)
(* TokenSessions: for any number of accounts, token pairs and requests,    *)
(* and any faults of the store, a consumed refresh token stays consumed    *)
(* and a completed logout leaves no earlier access token valid.            *)
(***************************************************************************)
EXTENDS MCIdentity, Sequences, FiniteSets, FiniteSetTheorems, TLAPS

-----------------------------------------------------------------------------
(* Accounts: the rows, what the requests have read of them, and the trail. *)

Editing == {"update", "delete", "update_password", "reset_password"}
Refusing == {"update", "delete", "reset_password"} \* they refuse a privileged account
Unborn == Guard!Unborn
Gone == Guard!Gone
Stored == Guard!Row \cup {Gone}
Shown == [name: Names, phone: Phones, privileged: BOOLEAN] \cup {Gone}
Entry == [action: {"created", "updated", "deleted"}, before: Shown, after: Shown]
Served ==
    {Guard!Idle} \cup [op: {"seed"}, stage: {"insert"}]
    \cup [op: Editing, stage: {"read", "verified", "written"}, id: Ids, before: Stored]
    \cup [op: {"reset_password"}, stage: {"after"}, id: Ids, before: Stored, after: Guard!Row]

Privileged(x) == Guard!IsRow(x) /\ x.privileged

AccountTypes ==
    /\ rows \in [Ids -> Stored \cup {Unborn}]
    /\ audit \in [Ids -> Seq(Entry)]
    /\ events \subseteq Ids
    /\ served \in [Reqs -> Served]

\* No request has read a row that does not exist yet, and nothing is recorded of it.
UnbornUntouched ==
    \A i \in Ids : rows[i] = Unborn =>
        audit[i] = <<>> /\ \A r \in Reqs : served[r].op \in Editing => served[r].id # i

PhonesUnique ==
    \A i, j \in Ids :
        Guard!IsRow(rows[i]) /\ Guard!IsRow(rows[j]) /\ rows[i].phone = rows[j].phone => i = j

\* A privileged row was seeded, and no request that refuses one works on it.
SeededOnly ==
    /\ \A i \in Ids : Privileged(rows[i]) => rows[i].phone = SeedPhone
    /\ \A r \in Reqs : served[r].op \in Refusing => ~Privileged(rows[served[r].id])

FirstRecord ==
    \A i \in Ids : i \in events <=> audit[i] # <<>> /\ audit[i][1].action = "created"

AccountsInv == AccountTypes /\ UnbornUntouched /\ PhonesUnique /\ SeededOnly /\ FirstRecord

LEMMA RowShapes ==
    /\ Guard!Unborn # Guard!Gone
    /\ \A x \in Guard!Row : x # Guard!Gone /\ x # Guard!Unborn /\ Guard!IsRow(x)
    /\ ~Guard!IsRow(Unborn) /\ ~Guard!IsRow(Gone)
    /\ \A n \in Names, p \in Phones, w \in Passwords, b \in BOOLEAN :
         [name |-> n, phone |-> p, password |-> w, privileged |-> b, version |-> 1] \in Guard!Row
<1>1. 1 \in Nat \ {0}
  OBVIOUS
<1> QED
  BY <1>1 DEF Guard!Row, Guard!Unborn, Guard!Gone, Guard!IsRow, Unborn, Gone

LEMMA ShownType ==
    \A x \in Stored \cup {Unborn} : Guard!Snapshot(x) \in Shown
BY RowShapes DEF Guard!Snapshot, Guard!Row, Shown, Stored, Gone, Unborn

\* Both instances say the same of rows.
LEMMA SameRows ==
    /\ Chain!Row = Guard!Row /\ Chain!Unborn = Unborn /\ Chain!Gone = Gone /\ Chain!Idle = Guard!Idle
    /\ \A x : Chain!IsRow(x) = Guard!IsRow(x) /\ Chain!Snapshot(x) = Guard!Snapshot(x)
    /\ \A i, p : Chain!UniquePhone(i, p) <=> Guard!UniquePhone(i, p)
BY DEF Chain!Row, Guard!Row, Chain!Unborn, Guard!Unborn, Unborn, Chain!Gone, Guard!Gone, Gone, Chain!Idle,
       Guard!Idle, Chain!IsRow, Guard!IsRow, Chain!Snapshot, Guard!Snapshot, Chain!UniquePhone,
       Guard!UniquePhone, Chain!Live, Guard!Live

\* What a step of a request does, in either instance.
Kept(r, q) ==
    /\ UNCHANGED <<rows, audit, events>> /\ served' = [served EXCEPT ![r] = q]
    /\ q \in Served
    /\ q.op \in Editing => rows[q.id] # Unborn
    /\ q.op \in Refusing => ~Privileged(rows[q.id])

Created(i, x) ==
    /\ rows[i] = Unborn /\ Guard!UniquePhone(i, x.phone) /\ ~x.privileged
    /\ rows' = [rows EXCEPT ![i] = x]
    /\ audit' = [audit EXCEPT ![i] =
                   Append(@, [action |-> "created", before |-> Gone, after |-> Guard!Snapshot(x)])]
    /\ events' = events \cup {i} /\ served' = served

Seeded(r, i, x) ==
    /\ rows[i] = Unborn /\ Guard!UniquePhone(i, x.phone) /\ x.phone = SeedPhone
    /\ rows' = [rows EXCEPT ![i] = x]
    /\ UNCHANGED <<audit, events>> /\ served' = [served EXCEPT ![r] = Guard!Idle]

Written(r, q, i, x) ==
    /\ rows[i] # Unborn
    /\ Guard!IsRow(x) => /\ Guard!IsRow(rows[i]) /\ Guard!UniquePhone(i, x.phone)
                         /\ x.privileged = rows[i].privileged
    /\ Privileged(rows[i]) => Guard!IsRow(x) /\ Guard!Snapshot(x) = Guard!Snapshot(rows[i])
    /\ rows' = [rows EXCEPT ![i] = x]
    /\ \/ audit' = audit
       \/ \E e \in Entry : e.action # "created" /\ audit' = [audit EXCEPT ![i] = Append(@, e)]
    /\ events' = events /\ served' = [served EXCEPT ![r] = q]
    /\ q \in Served
    /\ q.op \in Editing => q.op = served[r].op /\ q.id = served[r].id

LEMMA KeptInv ==
    ASSUME AccountsInv, NEW r \in Reqs, NEW q, Kept(r, q)
    PROVE  AccountsInv'
<1>1. AccountTypes'
  BY DEF AccountsInv, AccountTypes, Kept
<1>2. UnbornUntouched'
  BY DEF AccountsInv, AccountTypes, UnbornUntouched, Kept
<1>3. PhonesUnique' /\ FirstRecord'
  BY DEF AccountsInv, PhonesUnique, FirstRecord, Kept
<1>4. SeededOnly'
  BY DEF AccountsInv, AccountTypes, SeededOnly, Kept
<1> QED
  BY <1>1, <1>2, <1>3, <1>4 DEF AccountsInv

\* A trail that grows keeps its first record.
LEMMA FirstKept ==
    ASSUME NEW log \in Seq(Entry), NEW e \in Entry
    PROVE  /\ Append(log, e) \in Seq(Entry) /\ Append(log, e) # <<>>
           /\ log = <<>> => Append(log, e)[1] = e
           /\ log # <<>> => Append(log, e)[1] = log[1]
OBVIOUS

LEMMA CreatedInv ==
    ASSUME AccountsInv, NEW i \in Ids, NEW x \in Guard!Row, Created(i, x)
    PROVE  AccountsInv'
<1>1. PICK e \in Entry : e.action = "created" /\ audit' = [audit EXCEPT ![i] = Append(@, e)]
  BY ShownType DEF Created, Entry, Stored, Shown
<1>2. audit[i] = <<>> /\ audit[i] \in Seq(Entry)
  BY DEF AccountsInv, UnbornUntouched, Created, AccountTypes
<1>3. audit'[i] \in Seq(Entry) /\ audit'[i] # <<>> /\ audit'[i][1] = e
  BY <1>1, <1>2, FirstKept DEF AccountsInv, AccountTypes
<1>4. rows' = [rows EXCEPT ![i] = x] /\ rows'[i] = x /\ \A j \in Ids \ {i} : rows'[j] = rows[j]
  BY DEF Created, AccountsInv, AccountTypes
<1>5. AccountTypes'
  BY <1>1, <1>3, <1>4 DEF Created, AccountsInv, AccountTypes, Stored
<1>6. UnbornUntouched'
  BY <1>1, <1>4, RowShapes DEF Created, AccountsInv, AccountTypes, UnbornUntouched, Unborn
<1>7. PhonesUnique'
  BY <1>4, RowShapes DEF Created, AccountsInv, PhonesUnique, Guard!UniquePhone, Guard!Live
<1>8. SeededOnly'
  BY <1>4 DEF Created, AccountsInv, AccountTypes, SeededOnly, Privileged, UnbornUntouched, Editing, Refusing
<1>9. FirstRecord'
  <2>1. ASSUME NEW j \in Ids PROVE (j \in events <=> audit[j] # <<>> /\ audit[j][1].action = "created")'
    <3>1. CASE j = i
      BY <1>1, <1>3, <3>1 DEF Created
    <3>2. CASE j # i
      BY <1>1, <3>2 DEF Created, AccountsInv, AccountTypes, FirstRecord
    <3> QED
      BY <3>1, <3>2
  <2> QED
    BY <2>1 DEF FirstRecord
<1> QED
  BY <1>5, <1>6, <1>7, <1>8, <1>9 DEF AccountsInv

LEMMA SeededInv ==
    ASSUME AccountsInv, NEW r \in Reqs, NEW i \in Ids, NEW x \in Guard!Row, Seeded(r, i, x)
    PROVE  AccountsInv'
<1>1. rows' = [rows EXCEPT ![i] = x] /\ rows'[i] = x /\ \A j \in Ids \ {i} : rows'[j] = rows[j]
  BY DEF Seeded, AccountsInv, AccountTypes
<1>2. served' \in [Reqs -> Served] /\ \A q \in Reqs : served'[q] = served[q] \/ served'[q].op = "idle"
  BY DEF Seeded, AccountsInv, AccountTypes, Served, Guard!Idle
<1>3. AccountTypes'
  BY <1>1, <1>2 DEF Seeded, AccountsInv, AccountTypes, Stored
<1>4. UnbornUntouched'
  BY <1>1, <1>2, RowShapes DEF Seeded, AccountsInv, AccountTypes, UnbornUntouched, Unborn, Editing
<1>5. PhonesUnique'
  BY <1>1, RowShapes DEF Seeded, AccountsInv, PhonesUnique, Guard!UniquePhone, Guard!Live
<1>6. SeededOnly'
  <2>1. \A j \in Ids : Privileged(rows'[j]) => rows'[j].phone = SeedPhone
    BY <1>1 DEF Seeded, AccountsInv, SeededOnly
  <2>2. ASSUME NEW q \in Reqs, served'[q].op \in Refusing PROVE ~Privileged(rows'[served'[q].id])
    <3>1. served'[q] = served[q]
      BY <1>2, <2>2 DEF Refusing
    <3>2. served[q].id \in Ids \ {i}
      BY <2>2, <3>1 DEF Seeded, AccountsInv, AccountTypes, Served, Guard!Idle, UnbornUntouched, Refusing, Editing
    <3> QED
      BY <1>1, <2>2, <3>1, <3>2 DEF AccountsInv, SeededOnly
  <2> QED
    BY <2>1, <2>2 DEF SeededOnly, Privileged
<1>7. FirstRecord'
  BY DEF Seeded, AccountsInv, FirstRecord
<1> QED
  BY <1>3, <1>4, <1>5, <1>6, <1>7 DEF AccountsInv

LEMMA WrittenInv ==
    ASSUME AccountsInv, NEW r \in Reqs, NEW q, NEW i \in Ids, NEW x \in Stored, Written(r, q, i, x)
    PROVE  AccountsInv'
<1>1. rows' = [rows EXCEPT ![i] = x] /\ rows'[i] = x /\ \A j \in Ids \ {i} : rows'[j] = rows[j]
  BY DEF Written, AccountsInv, AccountTypes
<1>2. /\ served' \in [Reqs -> Served]
      /\ \A p \in Reqs : served'[p].op \in Editing =>
           served'[p].op = served[p].op /\ served'[p].id = served[p].id /\ served[p].id \in Ids
  <2>1. served' = [served EXCEPT ![r] = q] /\ q \in Served
    BY DEF Written
  <2>2. ASSUME NEW p \in Reqs, served[p].op \in Editing PROVE served[p].id \in Ids
    BY <2>2 DEF AccountsInv, AccountTypes, Served, Guard!Idle, Editing
  <2> QED
    BY <2>1, <2>2 DEF Written, AccountsInv, AccountTypes
<1>3. /\ audit' \in [Ids -> Seq(Entry)]
      /\ \A j \in Ids \ {i} : audit'[j] = audit[j]
      /\ (audit'[i] # <<>> /\ audit'[i][1].action = "created")
           <=> (audit[i] # <<>> /\ audit[i][1].action = "created")
  <2>1. audit \in [Ids -> Seq(Entry)]
    BY DEF AccountsInv, AccountTypes
  <2>2. CASE audit' = audit
    BY <2>1, <2>2
  <2>3. ASSUME NEW e \in Entry, e.action # "created", audit' = [audit EXCEPT ![i] = Append(@, e)]
        PROVE  <1>3!1 /\ <1>3!2 /\ <1>3!3
    <3>1. audit'[i] = Append(audit[i], e) /\ audit[i] \in Seq(Entry)
      BY <2>1, <2>3
    <3>2. /\ audit'[i] \in Seq(Entry) /\ audit'[i] # <<>>
          /\ audit[i] = <<>> => audit'[i][1] = e
          /\ audit[i] # <<>> => audit'[i][1] = audit[i][1]
      BY <3>1, FirstKept
    <3>3. audit' \in [Ids -> Seq(Entry)] /\ \A j \in Ids \ {i} : audit'[j] = audit[j]
      BY <2>1, <2>3, <3>1, <3>2
    <3> QED
      BY <2>3, <3>2, <3>3
  <2> QED
    BY <2>2, <2>3 DEF Written
<1>4. AccountTypes'
  BY <1>1, <1>2, <1>3 DEF Written, AccountsInv, AccountTypes
<1>5. x # Unborn
  BY RowShapes DEF Stored, Gone, Unborn
<1>6. UnbornUntouched'
  <2>1. ASSUME NEW j \in Ids, rows'[j] = Unborn
        PROVE  audit'[j] = <<>> /\ \A p \in Reqs : served'[p].op \in Editing => served'[p].id # j
    <3>1. j # i /\ rows[j] = Unborn
      BY <1>1, <1>5, <2>1
    <3> QED
      BY <1>2, <1>3, <3>1 DEF AccountsInv, UnbornUntouched
  <2> QED
    BY <2>1 DEF UnbornUntouched, Unborn
<1>7. PhonesUnique'
  BY <1>1 DEF Written, AccountsInv, PhonesUnique, Guard!UniquePhone, Guard!Live
<1>8. Privileged(rows'[i]) => Privileged(rows[i]) /\ rows'[i].phone = rows[i].phone
  <2>1. ASSUME Privileged(rows'[i]) PROVE Privileged(rows[i]) /\ Guard!IsRow(x)
    BY <1>1, <2>1 DEF Written, Privileged
  <2>2. ASSUME Privileged(rows'[i]) PROVE rows'[i].phone = rows[i].phone
    <3>1. Guard!Snapshot(x) = Guard!Snapshot(rows[i])
      BY <2>1, <2>2 DEF Written
    <3> QED
      BY <3>1, <2>1, <2>2, <1>1 DEF Guard!Snapshot, Privileged
  <2> QED
    BY <2>1, <2>2
<1>9. SeededOnly'
  <2>1. ASSUME NEW j \in Ids, Privileged(rows'[j]) PROVE rows'[j].phone = SeedPhone /\ Privileged(rows[j])
    BY <1>1, <1>8, <2>1 DEF AccountsInv, SeededOnly
  <2>2. ASSUME NEW p \in Reqs, served'[p].op \in Refusing PROVE ~Privileged(rows'[served'[p].id])
    BY <1>2, <2>1, <2>2 DEF AccountsInv, SeededOnly, Refusing, Editing
  <2> QED
    BY <2>1, <2>2 DEF SeededOnly, Privileged
<1>10. FirstRecord'
  BY <1>3 DEF Written, AccountsInv, FirstRecord
<1> QED
  BY <1>4, <1>6, <1>7, <1>9, <1>10 DEF AccountsInv

Effect ==
    \/ \E r \in Reqs, q \in Served : Kept(r, q)
    \/ \E i \in Ids, x \in Guard!Row : Created(i, x)
    \/ \E r \in Reqs, i \in Ids, x \in Guard!Row : Seeded(r, i, x)
    \/ \E r \in Reqs, q \in Served, i \in Ids, x \in Stored : Written(r, q, i, x)
    \/ UNCHANGED vAccounts

LEMMA EffectInv == ASSUME AccountsInv, Effect PROVE AccountsInv'
<1>1. CASE UNCHANGED vAccounts
  BY <1>1 DEF vAccounts, AccountsInv, AccountTypes, UnbornUntouched, PhonesUnique, SeededOnly, FirstRecord
<1> QED
  BY <1>1, KeptInv, CreatedInv, SeededInv, WrittenInv DEF Effect

\* No effect renames or removes a privileged account.
LEMMA EffectKeeps == ASSUME AccountsInv, Effect PROVE Guard!KeepsPrivileged
<1>1. SUFFICES ASSUME NEW j \in Ids, Privileged(rows[j])
               PROVE  Guard!IsRow(rows'[j]) /\ Guard!Snapshot(rows'[j]) = Guard!Snapshot(rows[j])
  BY DEF Guard!KeepsPrivileged, Guard!Live, Privileged
<1>2. rows[j] # Unborn
  BY <1>1, RowShapes DEF Privileged
<1>3. CASE UNCHANGED rows
  BY <1>1, <1>3 DEF Privileged
<1>4. ASSUME NEW i \in Ids, NEW x \in Guard!Row, Created(i, x) \/ \E r \in Reqs : Seeded(r, i, x)
      PROVE  rows'[j] = rows[j]
  BY <1>2, <1>4 DEF Created, Seeded, AccountsInv, AccountTypes
<1>5. ASSUME NEW r \in Reqs, NEW q \in Served, NEW i \in Ids, NEW x \in Stored, Written(r, q, i, x)
      PROVE  Guard!IsRow(rows'[j]) /\ Guard!Snapshot(rows'[j]) = Guard!Snapshot(rows[j])
  <2>1. CASE i = j
    BY <1>1, <1>5, <2>1 DEF Written, AccountsInv, AccountTypes
  <2>2. CASE i # j
    BY <1>1, <1>5, <2>2 DEF Written, AccountsInv, AccountTypes, Privileged
  <2> QED
    BY <2>1, <2>2
<1> QED
  BY <1>1, <1>3, <1>4, <1>5 DEF Effect, Kept, vAccounts, Privileged

LEMMA OneAtMost == AccountsInv => Guard!OnePrivileged
<1>1. SUFFICES ASSUME AccountsInv, NEW A, A = {i \in Guard!Live : rows[i].privileged}
               PROVE  Cardinality(A) <= 1
  BY DEF Guard!OnePrivileged, Guard!Cardinality, Cardinality
<1>2. \A i, j \in A : i = j
  BY <1>1 DEF AccountsInv, PhonesUnique, SeededOnly, Privileged, Guard!Live
<1>3. CASE A = {}
  BY <1>3, FS_EmptySet
<1>4. CASE A # {}
  <2>1. PICK i \in A : A = {i}
    BY <1>2, <1>4
  <2> QED
    BY <2>1, FS_Singleton
<1> QED
  BY <1>3, <1>4

\* Every action of an instance has one of the effects.
LEMMA GuardEffect == ASSUME AccountsInv, Guard!Next PROVE Effect
<1>1. PICK r \in Reqs : Guard!Step(r)
  BY DEF Guard!Next
<1>2. AccountTypes /\ served[r] \in Served
  BY DEF AccountsInv, AccountTypes
<1> USE DEF Guard!At, Guard!Become, Guard!End
<1>3. Guard!Idle \in Served /\ Guard!Idle.op = "idle"
  BY DEF Served, Guard!Idle
<1>4. CASE Guard!Create(r)
  <2>1. PICK i \in Ids, n \in Names, p \in Phones, w \in Passwords :
          LET row == [name |-> n, phone |-> p, password |-> w, privileged |-> FALSE, version |-> 1] IN
          /\ Guard!Fresh(i) /\ Guard!UniquePhone(i, p) /\ rows' = [rows EXCEPT ![i] = row]
          /\ Guard!Record(i, "created", Guard!Gone, Guard!Snapshot(row)) /\ events' = events \cup {i}
    BY <1>4 DEF Guard!Create
  <2>2. PICK x \in Guard!Row :
          x = [name |-> n, phone |-> p, password |-> w, privileged |-> FALSE, version |-> 1]
    BY RowShapes
  <2>3. Created(i, x)
    BY <1>4, <2>1, <2>2 DEF Guard!Create, Created, Guard!Fresh, Guard!Record, Gone, Unborn
  <2> QED
    BY <2>3 DEF Effect
<1>5. CASE Guard!SeedCount(r)
  <2>1. [op |-> "seed", stage |-> "insert"] \in Served
    BY DEF Served
  <2>2. Kept(r, [op |-> "seed", stage |-> "insert"])
    BY <1>5, <2>1 DEF Guard!SeedCount, Kept, Editing, Refusing
  <2> QED
    BY <2>1, <2>2 DEF Effect
<1>6. CASE Guard!SeedInsert(r)
  <2>1. PICK i \in Ids, n \in Names :
          /\ Guard!Fresh(i)
          /\ rows' = IF Guard!UniquePhone(i, SeedPhone)
                     THEN [rows EXCEPT ![i] = [name |-> n, phone |-> SeedPhone,
                             password |-> SeedPassword, privileged |-> TRUE, version |-> 1]]
                     ELSE rows
    BY <1>6 DEF Guard!SeedInsert
  <2>2. PICK x \in Guard!Row : x = [name |-> n, phone |-> SeedPhone, password |-> SeedPassword,
                                    privileged |-> TRUE, version |-> 1]
    BY RowShapes, IdentityAssumption DEF IdentityAssumption, Guard!AccountsAssumption
  <2>3. CASE Guard!UniquePhone(i, SeedPhone)
    <3>1. Seeded(r, i, x)
      BY <1>6, <2>1, <2>2, <2>3 DEF Guard!SeedInsert, Seeded, Guard!Fresh, Unborn
    <3> QED
      BY <3>1 DEF Effect
  <2>4. CASE ~Guard!UniquePhone(i, SeedPhone)
    <3>1. Kept(r, Guard!Idle)
      BY <1>3, <1>6, <2>1, <2>4 DEF Guard!SeedInsert, Kept, Editing, Refusing
    <3> QED
      BY <1>3, <3>1 DEF Effect
  <2> QED
    BY <2>3, <2>4
<1>7. CASE Guard!ById(r)
  <2>1. PICK op \in Editing, i \in Ids :
          /\ Guard!IsRow(rows[i]) \/ (op = "delete" /\ rows[i] = Guard!Gone)
          /\ Guard!IsRow(rows[i]) /\ op # "update_password" => ~rows[i].privileged
          /\ served' = [served EXCEPT ![r] = [op |-> op, stage |-> "read", id |-> i, before |-> rows[i]]]
          /\ UNCHANGED <<rows, audit, events>>
    BY <1>7 DEF Guard!ById, Editing
  <2>2. PICK q : q = [op |-> op, stage |-> "read", id |-> i, before |-> rows[i]]
    OBVIOUS
  <2>3. rows[i] \in Stored
    BY <1>2, <2>1, RowShapes DEF AccountTypes, Unborn
  <2>4. q \in Served
    BY <2>2, <2>3 DEF Served
  <2>5. Kept(r, q)
    BY <2>1, <2>2, <2>4, RowShapes DEF Kept, Editing, Refusing, Privileged, Unborn
  <2> QED
    BY <2>4, <2>5 DEF Effect
<1>8. CASE Guard!Update(r)
  <2>1. served[r].op = "update" /\ served[r].id \in Ids
    BY <1>2, <1>8 DEF Guard!Update, Served, Guard!Idle
  <2>2. PICK i \in Ids : i = served[r].id
    BY <2>1
  <2>3. PICK n \in Names, p \in Phones :
          /\ Guard!UniquePhone(i, p)
          /\ rows' = [rows EXCEPT ![i].name = n, ![i].phone = p, ![i].version = @ + 1]
    BY <1>8, <2>2 DEF Guard!Update
  <2>4. Guard!IsRow(rows[i]) /\ rows[i] \in Guard!Row
    BY <1>2, <1>8, <2>2, RowShapes DEF Guard!Update, AccountTypes, Stored, Unborn, Gone
  <2>5. PICK x : x = [rows[i] EXCEPT !.name = n, !.phone = p, !.version = @ + 1]
    OBVIOUS
  <2>6. x \in Guard!Row /\ x.privileged = rows[i].privileged /\ x.phone = p
    <3>1. rows[i].version + 1 \in Nat \ {0}
      BY <2>4 DEF Guard!Row
    <3> QED
      BY <2>4, <2>5, <3>1 DEF Guard!Row
  <2>7. rows' = [rows EXCEPT ![i] = x]
    BY <1>2, <2>3, <2>5 DEF AccountTypes
  <2>8. ~Privileged(rows[i])
    BY <2>1, <2>2 DEF AccountsInv, SeededOnly, Refusing
  <2>9. \E e \in Entry : e.action # "created" /\ audit' = [audit EXCEPT ![i] = Append(@, e)]
    <3>1. Guard!Snapshot(served[r].before) \in Shown /\ Guard!Snapshot(rows'[i]) \in Shown
      <4>1. served[r].before \in Stored
        BY <1>2, <1>8 DEF Guard!Update, Served, Guard!Idle
      <4>2. rows'[i] = x
        BY <1>2, <2>7 DEF AccountTypes
      <4> QED
        BY <4>1, <4>2, <2>6, ShownType DEF Stored
    <3>2. PICK e \in Entry : e = [action |-> "updated", before |-> Guard!Snapshot(served[r].before),
                                 after |-> Guard!Snapshot(rows'[i])]
      BY <3>1 DEF Entry
    <3> QED
      BY <1>8, <2>2, <3>2 DEF Guard!Update, Guard!Record
  <2>10. Written(r, Guard!Idle, i, x)
    BY <1>3, <1>8, <2>3, <2>4, <2>6, <2>7, <2>8, <2>9, RowShapes
    DEF Guard!Update, Written, Editing, Unborn
  <2> QED
    BY <1>3, <2>6, <2>10 DEF Effect, Stored
<1>9. CASE Guard!Delete(r)
  <2>1. served[r].op = "delete" /\ served[r].id \in Ids /\ served[r].before \in Stored
    BY <1>2, <1>9 DEF Guard!Delete, Served, Guard!Idle
  <2>2. PICK i \in Ids : i = served[r].id
    BY <2>1
  <2>3. rows[i] # Unborn /\ ~Privileged(rows[i])
    BY <2>1, <2>2 DEF AccountsInv, UnbornUntouched, SeededOnly, Editing, Refusing
  <2>4. \/ audit' = audit
        \/ \E e \in Entry : e.action # "created" /\ audit' = [audit EXCEPT ![i] = Append(@, e)]
    <3>1. PICK e \in Entry : e = [action |-> "deleted", before |-> Guard!Snapshot(served[r].before),
                                 after |-> Guard!Gone]
      BY <2>1, ShownType DEF Entry, Shown, Gone
    <3> QED
      BY <1>9, <2>2, <3>1 DEF Guard!Delete, Guard!Record
  <2>5. Written(r, Guard!Idle, i, Gone)
    BY <1>3, <1>9, <2>2, <2>3, <2>4, RowShapes DEF Guard!Delete, Written, Editing, Gone
  <2> QED
    BY <1>3, <2>5 DEF Effect, Stored
<1>10. CASE Guard!VerifyOld(r)
  <2>1. served[r].op = "update_password" /\ served[r].id \in Ids /\ served[r].stage = "read"
    BY <1>2, <1>10 DEF Guard!VerifyOld, Served, Guard!Idle
  <2>2. PICK q : q = [served[r] EXCEPT !.stage = "verified"]
    OBVIOUS
  <2>3. q \in Served /\ q.op = "update_password" /\ q.id = served[r].id
    BY <1>2, <2>1, <2>2 DEF Served, Guard!Idle, Editing
  <2>4. Kept(r, q)
    BY <1>10, <2>2, <2>3, RowShapes DEF Guard!VerifyOld, Kept, Refusing, Unborn
  <2> QED
    BY <2>3, <2>4 DEF Effect
<1>11. ASSUME NEW i \in Ids, rows[i] \in Guard!Row, Guard!SetPassword(i)
       PROVE  \E x \in Guard!Row : /\ rows' = [rows EXCEPT ![i] = x]
                                   /\ x.phone = rows[i].phone /\ x.privileged = rows[i].privileged
                                   /\ Guard!Snapshot(x) = Guard!Snapshot(rows[i])
  <2>1. PICK w \in Passwords : rows' = [rows EXCEPT ![i].password = w, ![i].version = @ + 1]
    BY <1>11 DEF Guard!SetPassword
  <2>2. PICK x : x = [rows[i] EXCEPT !.password = w, !.version = @ + 1]
    OBVIOUS
  <2>3. /\ x \in Guard!Row /\ x.phone = rows[i].phone /\ x.privileged = rows[i].privileged
        /\ x.name = rows[i].name
    <3>1. rows[i].version + 1 \in Nat \ {0}
      BY <1>11 DEF Guard!Row
    <3> QED
      BY <1>11, <2>2, <3>1 DEF Guard!Row
  <2>4. rows' = [rows EXCEPT ![i] = x]
    BY <1>2, <2>1, <2>2 DEF AccountTypes
  <2>5. Guard!Snapshot(x) = Guard!Snapshot(rows[i])
    BY <1>11, <2>3, RowShapes DEF Guard!Snapshot
  <2> QED
    BY <2>3, <2>4, <2>5
<1>12. ASSUME NEW i \in Ids, Guard!IsRow(rows[i])
       PROVE  rows[i] \in Guard!Row /\ rows[i] # Unborn /\ Guard!UniquePhone(i, rows[i].phone)
  <2>1. rows[i] \in Guard!Row
    BY <1>2, <1>12, RowShapes DEF AccountTypes, Stored, Unborn, Gone
  <2> QED
    BY <1>12, <2>1, RowShapes DEF AccountsInv, PhonesUnique, Guard!UniquePhone, Guard!Live, Unborn
<1>13. CASE Guard!UpdatePassword(r)
  <2>1. served[r].op = "update_password" /\ served[r].id \in Ids /\ served[r].before \in Stored
    BY <1>2, <1>13 DEF Guard!UpdatePassword, Served, Guard!Idle
  <2>2. PICK i \in Ids : i = served[r].id
    BY <2>1
  <2>3. Guard!SetPassword(i) /\ Guard!IsRow(rows[i])
    BY <1>13, <2>2 DEF Guard!UpdatePassword, Guard!SetPassword
  <2>4. PICK x \in Guard!Row : /\ rows' = [rows EXCEPT ![i] = x]
                              /\ x.phone = rows[i].phone /\ x.privileged = rows[i].privileged
                              /\ Guard!Snapshot(x) = Guard!Snapshot(rows[i])
    BY <1>11, <1>12, <2>3
  <2>5. \E e \in Entry : e.action # "created" /\ audit' = [audit EXCEPT ![i] = Append(@, e)]
    <3>1. rows'[i] = x
      BY <1>2, <2>4 DEF AccountTypes
    <3>2. PICK e \in Entry : e = [action |-> "updated", before |-> Guard!Snapshot(served[r].before),
                                 after |-> Guard!Snapshot(rows'[i])]
      BY <2>1, <3>1, ShownType DEF Entry, Stored
    <3> QED
      BY <1>13, <2>2, <3>2 DEF Guard!UpdatePassword, Guard!Record
  <2>6. Written(r, Guard!Idle, i, x)
    BY <1>3, <1>12, <1>13, <2>3, <2>4, <2>5, RowShapes DEF Guard!UpdatePassword, Written, Editing
  <2> QED
    BY <1>3, <2>6 DEF Effect, Stored
<1>14. CASE Guard!ResetWrite(r)
  <2>1. /\ served[r].op = "reset_password" /\ served[r].id \in Ids /\ served[r].before \in Stored
        /\ served[r] \in [op: Editing, stage: {"read", "verified", "written"}, id: Ids, before: Stored]
    BY <1>2, <1>14 DEF Guard!ResetWrite, Served, Guard!Idle
  <2>2. PICK i \in Ids : i = served[r].id
    BY <2>1
  <2>3. Guard!SetPassword(i) /\ Guard!IsRow(rows[i])
    BY <1>14, <2>2 DEF Guard!ResetWrite, Guard!SetPassword
  <2>4. PICK x \in Guard!Row : /\ rows' = [rows EXCEPT ![i] = x]
                              /\ x.phone = rows[i].phone /\ x.privileged = rows[i].privileged
                              /\ Guard!Snapshot(x) = Guard!Snapshot(rows[i])
    BY <1>11, <1>12, <2>3
  <2>5. PICK q : q = [served[r] EXCEPT !.stage = "written"]
    OBVIOUS
  <2>6. q \in Served /\ q.op = served[r].op /\ q.id = served[r].id
    BY <2>1, <2>5 DEF Served
  <2>7. Written(r, q, i, x)
    BY <1>12, <1>14, <2>3, <2>4, <2>5, <2>6, RowShapes DEF Guard!ResetWrite, Written
  <2> QED
    BY <2>6, <2>7 DEF Effect, Stored
<1>15. CASE Guard!ResetReadBack(r)
  <2>1. /\ served[r].op = "reset_password" /\ served[r].id \in Ids /\ served[r].before \in Stored
        /\ Guard!IsRow(rows[served[r].id])
    BY <1>2, <1>15 DEF Guard!ResetReadBack, Served, Guard!Idle
  <2>2. PICK q : q = [op |-> "reset_password", stage |-> "after", id |-> served[r].id,
                      before |-> served[r].before, after |-> rows[served[r].id]]
    OBVIOUS
  <2>3. q \in Served /\ q.op = served[r].op /\ q.id = served[r].id
    BY <1>12, <2>1, <2>2 DEF Served
  <2>4. Kept(r, q)
    BY <1>12, <1>15, <2>1, <2>2, <2>3 DEF Guard!ResetReadBack, Kept, AccountsInv, SeededOnly
  <2> QED
    BY <2>3, <2>4 DEF Effect
<1>16. CASE Guard!ResetAudit(r)
  <2>1. /\ served[r].op = "reset_password" /\ served[r].id \in Ids /\ served[r].before \in Stored
        /\ served[r].after \in Guard!Row
    BY <1>2, <1>16 DEF Guard!ResetAudit, Served, Guard!Idle
  <2>2. PICK i \in Ids : i = served[r].id
    BY <2>1
  <2>3. rows[i] # Unborn /\ rows[i] \in Stored
    BY <1>2, <2>1, <2>2 DEF AccountsInv, AccountTypes, UnbornUntouched, Editing
  <2>4. \E e \in Entry : e.action # "created" /\ audit' = [audit EXCEPT ![i] = Append(@, e)]
    <3>1. PICK e \in Entry : e = [action |-> "updated", before |-> Guard!Snapshot(served[r].before),
                                 after |-> Guard!Snapshot(served[r].after)]
      BY <2>1, ShownType DEF Entry, Stored
    <3> QED
      BY <1>16, <2>2, <3>1 DEF Guard!ResetAudit, Guard!Record
  <2>5. Written(r, Guard!Idle, i, rows[i])
    <3>1. rows' = [rows EXCEPT ![i] = rows[i]]
      BY <1>2, <1>16 DEF Guard!ResetAudit, AccountTypes
    <3>2. Guard!IsRow(rows[i]) => Guard!UniquePhone(i, rows[i].phone)
      BY <1>12
    <3> QED
      BY <1>3, <1>16, <2>3, <2>4, <3>1, <3>2 DEF Guard!ResetAudit, Written, Editing, Privileged
  <2> QED
    BY <1>3, <2>3, <2>5 DEF Effect
<1>17. CASE Guard!Get(r) \/ Guard!Fail(r)
  <2>1. CASE Guard!Get(r)
    BY <2>1 DEF Guard!Get, Guard!vars, vAccounts, Effect
  <2>2. CASE Guard!Fail(r)
    <3>1. Kept(r, Guard!Idle)
      BY <1>3, <2>2 DEF Guard!Fail, Kept, Editing, Refusing
    <3> QED
      BY <1>3, <3>1 DEF Effect
  <2> QED
    BY <1>17, <2>1, <2>2
<1> QED
  BY <1>1, <1>4, <1>5, <1>6, <1>7, <1>8, <1>9, <1>10, <1>13, <1>14, <1>15, <1>16, <1>17 DEF Guard!Step

-----------------------------------------------------------------------------
(* Chain: with creations and updates alone, what a request has read is the *)
(* row as long as the version is the same, and so a record continues the   *)
(* one before it.                                                          *)

Continues(log, x) ==
    /\ \A k \in 1 .. Len(log) - 1 : log[k + 1].before = log[k].after
    /\ Len(log) > 0 => log[Len(log)].after = Guard!Snapshot(x)

ReadRow(q) ==
    /\ q.op = "update" /\ q.id \in Ids /\ q.before \in Guard!Row
    /\ rows[q.id] \in Guard!Row /\ q.before.version <= rows[q.id].version
    /\ q.before.version = rows[q.id].version => q.before = rows[q.id]

ChainInv ==
    /\ \A i \in Ids : rows[i] \in Guard!Row \cup {Unborn}
    /\ \A r \in Reqs : served[r].op # "idle" => ReadRow(served[r])
    /\ \A i \in Ids : Continues(audit[i], rows[i])

LEMMA ContinuesAppend ==
    ASSUME NEW log \in Seq(Entry), NEW e \in Entry, NEW x, NEW y, Continues(log, x),
           log = <<>> \/ e.before = Guard!Snapshot(x), e.after = Guard!Snapshot(y)
    PROVE  Continues(Append(log, e), y)
<1>1. /\ Len(log) \in Nat /\ Len(Append(log, e)) = Len(log) + 1
      /\ \A k \in 1..Len(log) : Append(log, e)[k] = log[k]
      /\ Append(log, e)[Len(log) + 1] = e
  OBVIOUS
<1>2. ASSUME NEW k \in 1..Len(log) PROVE Append(log, e)[k + 1].before = Append(log, e)[k].after
  <2>1. CASE k = Len(log)
    <3>1. log # <<>> /\ Len(log) > 0
      BY <1>1, <2>1
    <3>2. e.before = Guard!Snapshot(x) /\ log[Len(log)].after = Guard!Snapshot(x)
      BY <3>1 DEF Continues
    <3> QED
      BY <1>1, <2>1, <3>2
  <2>2. CASE k # Len(log)
    <3>1. k \in 1..(Len(log) - 1) /\ k + 1 \in 1..Len(log)
      BY <1>1, <2>2
    <3> QED
      BY <1>1, <3>1 DEF Continues
  <2> QED
    BY <2>1, <2>2
<1>3. Len(Append(log, e)) - 1 = Len(log)
  BY <1>1
<1>4. Append(log, e)[Len(Append(log, e))].after = Guard!Snapshot(y)
  BY <1>1
<1> QED
  BY <1>2, <1>3, <1>4 DEF Continues

\* The actions of Chain that can happen.
LEMMA ChainActions ==
    ASSUME AccountsInv, ChainInv, Chain!Next
    PROVE  \/ \E i \in Ids, x \in Guard!Row : x.version = 1 /\ Created(i, x)
           \/ \E r \in Reqs, q \in Served : (q.op # "idle" => ReadRow(q)) /\ Kept(r, q)
           \/ \E r \in Reqs, i \in Ids, x \in Guard!Row :
                /\ Written(r, Guard!Idle, i, x) /\ rows[i] \in Guard!Row
                /\ x.version = rows[i].version + 1
                /\ \E e \in Entry : /\ audit' = [audit EXCEPT ![i] = Append(@, e)]
                                    /\ e.before = Guard!Snapshot(rows[i])
                                    /\ e.after = Guard!Snapshot(x)
           \/ UNCHANGED vAccounts
<1>1. PICK r \in Reqs : Chain!Step(r)
  BY DEF Chain!Next
<1>2. AccountTypes /\ served[r] \in Served
  BY DEF AccountsInv, AccountTypes
<1>3. Guard!Idle \in Served /\ Guard!Idle.op = "idle"
  BY DEF Served, Guard!Idle
<1> USE DEF Chain!At, Chain!Become, Chain!End
<1>4. CASE Chain!Create(r)
  <2>1. PICK i \in Ids, n \in Names, p \in Phones, w \in Passwords :
          LET row == [name |-> n, phone |-> p, password |-> w, privileged |-> FALSE, version |-> 1] IN
          /\ Chain!Fresh(i) /\ Chain!UniquePhone(i, p) /\ rows' = [rows EXCEPT ![i] = row]
          /\ Chain!Record(i, "created", Chain!Gone, Chain!Snapshot(row)) /\ events' = events \cup {i}
    BY <1>4 DEF Chain!Create
  <2>2. PICK x \in Guard!Row :
          x = [name |-> n, phone |-> p, password |-> w, privileged |-> FALSE, version |-> 1]
    BY RowShapes
  <2>3. Created(i, x) /\ x.version = 1
    BY <1>4, <2>1, <2>2, SameRows DEF Chain!Create, Created, Chain!Fresh, Chain!Record
  <2> QED
    BY <2>3
<1>5. CASE Chain!ById(r)
  <2>1. PICK i \in Ids :
          /\ Guard!IsRow(rows[i]) /\ ~rows[i].privileged
          /\ served' = [served EXCEPT ![r] = [op |-> "update", stage |-> "read", id |-> i, before |-> rows[i]]]
          /\ UNCHANGED <<rows, audit, events>>
    BY <1>5, SameRows DEF Chain!ById
  <2>2. PICK q : q = [op |-> "update", stage |-> "read", id |-> i, before |-> rows[i]]
    OBVIOUS
  <2>3. rows[i] \in Guard!Row /\ rows[i].version \in Nat
    BY <2>1, RowShapes DEF ChainInv, Guard!Row
  <2>4. q \in Served /\ ReadRow(q)
    BY <2>2, <2>3 DEF Served, Stored, Editing, ReadRow
  <2>5. Kept(r, q)
    BY <2>1, <2>2, <2>3, <2>4, RowShapes DEF Kept, Privileged, Unborn
  <2> QED
    BY <2>4, <2>5
<1>6. CASE Chain!Update(r)
  <2>1. ReadRow(served[r]) /\ served[r].op = "update"
    BY <1>6 DEF Chain!Update, ChainInv
  <2>2. PICK i \in Ids : i = served[r].id
    BY <2>1 DEF ReadRow
  <2>3. PICK n \in Names, p \in Phones :
          /\ Guard!UniquePhone(i, p)
          /\ rows' = [rows EXCEPT ![i].name = n, ![i].phone = p, ![i].version = @ + 1]
    BY <1>6, <2>2, SameRows DEF Chain!Update
  <2>4. rows[i] \in Guard!Row /\ served[r].before = rows[i]
    BY <1>6, <2>1, <2>2 DEF Chain!Update, ReadRow
  <2>5. PICK x : x = [rows[i] EXCEPT !.name = n, !.phone = p, !.version = @ + 1]
    OBVIOUS
  <2>6. /\ x \in Guard!Row /\ x.privileged = rows[i].privileged /\ x.phone = p
        /\ x.version = rows[i].version + 1
    <3>1. rows[i].version + 1 \in Nat \ {0}
      BY <2>4 DEF Guard!Row
    <3> QED
      BY <2>4, <2>5, <3>1 DEF Guard!Row
  <2>7. rows' = [rows EXCEPT ![i] = x] /\ rows'[i] = x
    BY <1>2, <2>3, <2>5 DEF AccountTypes
  <2>8. ~Privileged(rows[i])
    BY <2>1, <2>2 DEF AccountsInv, SeededOnly, Refusing
  <2>9. PICK e \in Entry :
          e = [action |-> "updated", before |-> Guard!Snapshot(rows[i]), after |-> Guard!Snapshot(x)]
    BY <2>4, <2>6, ShownType DEF Entry, Stored
  <2>10. audit' = [audit EXCEPT ![i] = Append(@, e)]
    BY <1>6, <2>2, <2>4, <2>7, <2>9, SameRows DEF Chain!Update, Chain!Record
  <2>11. Written(r, Guard!Idle, i, x)
    BY <1>3, <1>6, <2>3, <2>4, <2>6, <2>7, <2>8, <2>9, <2>10, RowShapes, SameRows
    DEF Chain!Update, Written, Editing, Unborn
  <2> QED
    BY <2>4, <2>6, <2>9, <2>10, <2>11
<1>7. CASE Chain!Get(r) \/ Chain!Fail(r)
  <2>1. CASE Chain!Get(r)
    BY <2>1 DEF Chain!Get, Chain!vars, vAccounts
  <2>2. CASE Chain!Fail(r)
    <3>1. Kept(r, Guard!Idle)
      BY <1>3, <2>2, SameRows DEF Chain!Fail, Kept, Editing, Refusing
    <3> QED
      BY <1>3, <3>1
  <2> QED
    BY <1>7, <2>1, <2>2
<1>8. served[r].op \in {"idle", "update"} /\ ~Chain!SeedCount(r)
  BY DEF ChainInv, ReadRow, Chain!SeedCount
<1> QED
  BY <1>1, <1>4, <1>5, <1>6, <1>7, <1>8
  DEF Chain!Step, Chain!SeedInsert, Chain!Delete, Chain!VerifyOld, Chain!UpdatePassword, Chain!ResetWrite,
      Chain!ResetReadBack, Chain!ResetAudit

LEMMA ChainEffect == ASSUME AccountsInv, ChainInv, Chain!Next PROVE Effect
<1>1. Guard!Idle \in Served
  BY DEF Served
<1> QED
  BY <1>1, ChainActions DEF Effect, Stored

LEMMA ChainStep == ASSUME AccountsInv, ChainInv, Chain!Next PROVE ChainInv'
<1>1. AccountTypes
  BY DEF AccountsInv
<1>2. ASSUME NEW i \in Ids, NEW x \in Guard!Row, x.version = 1, Created(i, x) PROVE ChainInv'
  <2>1. rows'[i] = x /\ \A j \in Ids \ {i} : rows'[j] = rows[j]
    BY <1>1, <1>2 DEF Created, AccountTypes
  <2>2. audit[i] = <<>> /\ served' = served
    BY <1>2 DEF Created, AccountsInv, UnbornUntouched
  <2>3. ASSUME NEW r \in Reqs, served'[r].op # "idle" PROVE ReadRow(served[r])'
    BY <1>2, <2>1, <2>2, <2>3, RowShapes DEF Created, ChainInv, ReadRow, Unborn
  <2>4. Continues(audit'[i], x)
    <3>1. PICK e \in Entry : e.after = Guard!Snapshot(x) /\ audit' = [audit EXCEPT ![i] = Append(@, e)]
      BY <1>2, ShownType DEF Created, Entry, Stored, Shown
    <3> QED
      BY <1>1, <2>2, <3>1, ContinuesAppend DEF AccountTypes, ChainInv
  <2>5. \A j \in Ids \ {i} : audit'[j] = audit[j]
    BY <1>1, <1>2 DEF Created, AccountTypes
  <2> QED
    BY <2>1, <2>3, <2>4, <2>5 DEF ChainInv, Unborn
<1>3. ASSUME NEW r \in Reqs, NEW q \in Served, q.op # "idle" => ReadRow(q), Kept(r, q) PROVE ChainInv'
  BY <1>1, <1>3 DEF Kept, AccountTypes, ChainInv, ReadRow, Unborn
<1>4. ASSUME NEW r \in Reqs, NEW i \in Ids, NEW x \in Guard!Row,
             Written(r, Guard!Idle, i, x), rows[i] \in Guard!Row, x.version = rows[i].version + 1,
             NEW e \in Entry, audit' = [audit EXCEPT ![i] = Append(@, e)],
             e.before = Guard!Snapshot(rows[i]), e.after = Guard!Snapshot(x)
      PROVE  ChainInv'
  <2>1. rows'[i] = x /\ \A j \in Ids \ {i} : rows'[j] = rows[j]
    BY <1>1, <1>4 DEF Written, AccountTypes
  <2>2. \A p \in Reqs : served'[p].op # "idle" => served'[p] = served[p]
    BY <1>1, <1>4 DEF Written, AccountTypes, Guard!Idle
  <2>3. ASSUME NEW p \in Reqs, served'[p].op # "idle" PROVE ReadRow(served[p])'
    <3>1. served'[p] = served[p] /\ ReadRow(served[p])
      BY <2>2, <2>3 DEF ChainInv
    <3>2. CASE served[p].id = i
      <4>1. served[p].before.version \in Nat /\ rows[i].version \in Nat
        BY <1>4, <3>1 DEF ReadRow, Guard!Row
      <4> QED
        BY <1>4, <2>1, <3>1, <3>2, <4>1 DEF ReadRow
    <3>3. CASE served[p].id # i
      BY <2>1, <3>1, <3>3 DEF ReadRow
    <3> QED
      BY <3>2, <3>3
  <2>4. Continues(audit'[i], x)
    <3>1. audit[i] \in Seq(Entry) /\ audit'[i] = Append(audit[i], e) /\ Continues(audit[i], rows[i])
      BY <1>1, <1>4 DEF AccountTypes, ChainInv
    <3> QED
      BY <1>4, <3>1, ContinuesAppend
  <2>5. \A j \in Ids \ {i} : audit'[j] = audit[j]
    BY <1>1, <1>4 DEF AccountTypes
  <2> QED
    BY <2>1, <2>3, <2>4, <2>5 DEF ChainInv, Unborn
<1>5. CASE UNCHANGED vAccounts
  BY <1>5 DEF vAccounts, ChainInv, ReadRow, Unborn
<1> QED
  BY <1>2, <1>3, <1>4, <1>5, ChainActions

-----------------------------------------------------------------------------
IdentityInv == AccountsInv /\ (part = "chain" => ChainInv)

LEMMA IdentityInvInit == IdentityInit => IdentityInv
<1>1. SUFFICES ASSUME Guard!Init PROVE AccountsInv /\ ChainInv
  BY DEF IdentityInit, IdentityInv
<1>2. rows = [i \in Ids |-> Unborn] /\ audit = [i \in Ids |-> <<>>] /\ events = {}
      /\ served = [r \in Reqs |-> Guard!Idle]
  BY <1>1 DEF Guard!Init, Unborn
<1>3. Guard!Idle \in Served /\ Guard!Idle.op = "idle" /\ <<>> \in Seq(Entry)
  BY DEF Served, Guard!Idle
<1>4. AccountTypes
  BY <1>2, <1>3 DEF AccountTypes
<1>5. UnbornUntouched /\ PhonesUnique /\ SeededOnly /\ FirstRecord
  BY <1>2, <1>3, RowShapes
  DEF UnbornUntouched, PhonesUnique, SeededOnly, FirstRecord, Editing, Refusing, Privileged
<1>6. ChainInv
  BY <1>2, <1>3 DEF ChainInv, Continues
<1> QED
  BY <1>4, <1>5, <1>6 DEF AccountsInv

LEMMA IdentityStep ==
    ASSUME IdentityInv, [IdentityNext]_vAll
    PROVE  /\ IdentityInv'
           /\ Effect
<1>1. CASE UNCHANGED vAccounts /\ part' = part
  BY <1>1
  DEF vAccounts, IdentityInv, AccountsInv, AccountTypes, UnbornUntouched, PhonesUnique, SeededOnly,
      FirstRecord, ChainInv, ReadRow, Unborn, Effect
<1>2. CASE part = "chain" /\ Chain!Next /\ part' = part
  BY <1>2, ChainEffect, ChainStep, EffectInv DEF IdentityInv
<1>3. CASE part = "guard" /\ Guard!Next /\ part' = part
  BY <1>3, GuardEffect, EffectInv DEF IdentityInv
<1> QED
  BY <1>1, <1>2, <1>3 DEF IdentityNext, vAll

THEOREM IdentityInvariant == IdentitySpec => []IdentityInv
<1>1. IdentityInv /\ [IdentityNext]_vAll => IdentityInv'
  BY IdentityStep
<1> QED
  BY <1>1, IdentityInvInit, PTL DEF IdentitySpec

LEMMA InvRecords == IdentityInv => WritesRecorded
<1>1. ASSUME IdentityInv PROVE Guard!CreatedEvents
  <2>1. \A i \in Ids : audit[i] # <<>> <=> Len(audit[i]) > 0
    BY <1>1 DEF IdentityInv, AccountsInv, AccountTypes
  <2>2. events \subseteq Ids /\ FirstRecord
    BY <1>1 DEF IdentityInv, AccountsInv, AccountTypes
  <2> QED
    BY <2>1, <2>2 DEF Guard!CreatedEvents, FirstRecord
<1>2. ASSUME IdentityInv, part = "chain" PROVE Chain!TypeOK
  <2>1. rows \in [Ids -> Chain!Row \cup {Chain!Unborn, Chain!Gone}]
    BY <1>2, SameRows DEF IdentityInv, AccountsInv, AccountTypes, Stored
  <2>2. events \subseteq Ids /\ DOMAIN audit = Ids
    BY <1>2 DEF IdentityInv, AccountsInv, AccountTypes
  <2>3. ASSUME NEW r \in Reqs
        PROVE  served[r].op = "idle" \/ (served[r].op \in Chain!Op /\ served[r].stage \in Chain!Stage)
    <3>1. served[r] \in Served
      BY <1>2 DEF IdentityInv, AccountsInv, AccountTypes
    <3> QED
      BY <3>1 DEF Served, Guard!Idle, Editing, Chain!Op, Chain!Stage
  <2> QED
    BY <2>1, <2>2, <2>3 DEF Chain!TypeOK
<1>3. ASSUME IdentityInv, part = "chain" PROVE Chain!AuditChain
  BY <1>3, SameRows DEF IdentityInv, ChainInv, Continues, Chain!AuditChain
<1> QED
  BY <1>1, <1>2, <1>3 DEF WritesRecorded

\* The audit records of an account chain from its creation to its row, under
\* concurrent creations and updates (the version condition of the UPDATE makes
\* the unlocked read safe); and account.created is published for exactly the
\* accounts whose creation committed, whatever else happens to them.
THEOREM WritesAreRecorded == IdentitySpec => []WritesRecorded
BY IdentityInvariant, InvRecords, PTL

\* However many servers start and seed at the same time, and whatever the
\* endpoints do meanwhile, there is at most one privileged account, and nothing
\* renames, strips or deletes it.
THEOREM OneAdministratorHolds == IdentitySpec => OneAdministrator
<1>1. IdentityInv /\ [IdentityNext]_vAll => [Guard!OnePrivileged' /\ Guard!KeepsPrivileged]_vAll
  <2>1. SUFFICES ASSUME IdentityInv, [IdentityNext]_vAll
                 PROVE  Guard!OnePrivileged' /\ Guard!KeepsPrivileged
    OBVIOUS
  <2>2. AccountsInv' /\ Effect /\ AccountsInv
    BY <2>1, IdentityStep DEF IdentityInv
  <2>3. Guard!OnePrivileged'
    BY <2>2, OneAtMost, PTL
  <2> QED
    BY <2>2, <2>3, EffectKeeps
<1> QED
  BY <1>1, IdentityInvariant, PTL DEF IdentitySpec, OneAdministrator

-----------------------------------------------------------------------------
(* TokenSessions. *)

LEMMA StageNames ==
    /\ None \notin Issuing \cup Revoking \cup {"take", "announce"}
    /\ Idle \in Request
    /\ Idle.op = "idle" /\ Idle.stage = None /\ Idle.mine = {}
BY DEF None, Issuing, Revoking, Idle, Request

-----------------------------------------------------------------------------
(* Types. *)

LEMMA InitType == Init => TypeOK
BY StageNames DEF Init, TypeOK

\* A request moves on to another stage of the same operation.
LEMMA GotoType ==
    ASSUME TypeOK, NEW r \in Reqs,
           NEW s \in Issuing \cup Revoking \cup {"take", "announce", None}, Goto(r, s)
    PROVE  /\ req' \in [Reqs -> Request]
           /\ \A q \in Reqs \ {r} : req'[q] = req[q]
           /\ req'[r].stage = s /\ req'[r].op = req[r].op
           /\ req'[r].acct = req[r].acct /\ req'[r].new = req[r].new
           /\ req'[r].old = req[r].old /\ req'[r].mine = req[r].mine
BY DEF TypeOK, Goto, Request

\* A request ends.
LEMMA FinishType ==
    ASSUME TypeOK, NEW r \in Reqs, Finish(r)
    PROVE  /\ req' \in [Reqs -> Request]
           /\ \A q \in Reqs \ {r} : req'[q] = req[q]
           /\ req'[r] = Idle
BY StageNames DEF TypeOK, Finish

\* A request begins.
LEMMA BeginType ==
    ASSUME TypeOK, NEW r \in Reqs, NEW x \in Request, req' = [req EXCEPT ![r] = x]
    PROVE  /\ req' \in [Reqs -> Request]
           /\ \A q \in Reqs \ {r} : req'[q] = req[q]
           /\ req'[r] = x
BY DEF TypeOK

-----------------------------------------------------------------------------
(* Frames. *)

\* The other requests are as they were if what they hold is left alone.
LEMMA OthersKept ==
    ASSUME IInv, NEW r \in Reqs,
           \A q \in Reqs \ {r} : req'[q] = req[q],
           \A t \in Tokens : owner[t] # None => owner'[t] = owner[t],
           issued \subseteq issued',
           \A q \in Reqs \ {r} : Issues(q) => req[q].new \notin issued',
           \A q \in Reqs \ {r} : req[q].stage \in {"drop", "put"} =>
               req[q].new \notin spent' /\ refresh'[req[q].new] = None
    PROVE  \A q \in Reqs \ {r} : InFlight(q)' /\ Issues(q)' = Issues(q)
<1> SUFFICES ASSUME NEW q \in Reqs \ {r}
             PROVE  InFlight(q)' /\ Issues(q)' = Issues(q)
  OBVIOUS
<1>1. req'[q] = req[q] /\ InFlight(q)
  BY DEF IInv, PairsInFlight
<1>2. Issues(q)' = Issues(q)
  BY <1>1 DEF Issues
<1>3. \A t \in req[q].mine : t \in issued' /\ owner'[t] = req[q].acct
  <2>1. \A t \in req[q].mine : t \in issued /\ owner[t] = req[q].acct
    BY <1>1 DEF InFlight
  <2>2. \A t \in issued : t \in Tokens /\ owner[t] # None
    BY DEF IInv, Booked, TypeOK
  <2> QED
    BY <2>1, <2>2
<1>4. Issues(q) => /\ req[q].new \in Tokens \ issued'
                   /\ owner'[req[q].new] = req[q].acct
  <2>1. SUFFICES ASSUME Issues(q)
                 PROVE  /\ req[q].new \in Tokens \ issued'
                        /\ owner'[req[q].new] = req[q].acct
    OBVIOUS
  <2>2. req[q].new \in Tokens /\ owner[req[q].new] = req[q].acct
    BY <1>1, <2>1 DEF InFlight
  <2>3. req[q].stage # None
    BY <2>1, StageNames DEF Issues
  <2>4. req[q].acct \in Accounts /\ req[q].acct # None
    BY <1>1, <2>3, TokensAssumption DEF InFlight
  <2> QED
    BY <2>1, <2>2, <2>4
<1>5. InFlight(q)'
  BY <1>1, <1>2, <1>3, <1>4 DEF InFlight
<1> QED
  BY <1>2, <1>5

\* No two requests issue the same pair, if r issues none or the one it had.
LEMMA DistinctKept ==
    ASSUME IInv, NEW r \in Reqs,
           \A q \in Reqs \ {r} : req'[q] = req[q],
           \A q \in Reqs \ {r} : Issues(q)' = Issues(q),
           \/ ~Issues(r)'
           \/ Issues(r) /\ req'[r].new = req[r].new
           \/ \A q \in Reqs \ {r} : Issues(q) => req'[r].new # req[q].new
    PROVE  (\A q, s \in Reqs : Issues(q) /\ Issues(s) /\ req[q].new = req[s].new => q = s)'
<1> SUFFICES ASSUME NEW q \in Reqs, NEW s \in Reqs, Issues(q)', Issues(s)',
                    req'[q].new = req'[s].new, q # s
             PROVE  FALSE
  OBVIOUS
<1>1. \A u, v \in Reqs : Issues(u) /\ Issues(v) /\ req[u].new = req[v].new => u = v
  BY DEF IInv, PairsInFlight
<1>2. CASE q # r /\ s # r
  BY <1>1, <1>2
<1>3. CASE q = r
  BY <1>1, <1>3
<1>4. CASE s = r
  BY <1>1, <1>4
<1> QED
  BY <1>2, <1>3, <1>4

\* Steps that leave the history of the pairs alone and only delete from the
\* store, or write nothing, cannot disturb what the store claims.
LEMMA StoreShrinks ==
    ASSUME IInv, UNCHANGED <<owner, issued, spent, ended>>,
           \A t \in Tokens : refresh'[t] \in {None, refresh[t]},
           \A a \in Accounts : jti'[a] \in {None, jti[a]}
    PROVE  OwnTokens' /\ Booked' /\ SingleUse' /\ LogoutRevokesAccess'
<1>1. OwnTokens'
  BY DEF IInv, OwnTokens
<1>2. Booked'
  BY DEF IInv, Booked
<1>3. SingleUse'
  BY DEF IInv, SingleUse, TypeOK
<1>4. LogoutRevokesAccess'
  <2>1. \A t \in ended : t \in Tokens /\ t # None
    BY TokensAssumption DEF IInv, TypeOK
  <2> QED
    BY <2>1 DEF IInv, LogoutRevokesAccess, Accepted
<1> QED
  BY <1>1, <1>2, <1>3, <1>4

\* Steps that begin, continue or end the request r without issuing.
LEMMA QuietStep ==
    ASSUME IInv, TypeOK', NEW r \in Reqs, UNCHANGED <<owner, issued, spent, ended>>,
           \A t \in Tokens : refresh'[t] \in {None, refresh[t]},
           \A a \in Accounts : jti'[a] \in {None, jti[a]},
           \A q \in Reqs \ {r} : req'[q] = req[q],
           InFlight(r)',
           ~Issues(r)' \/ (Issues(r) /\ req'[r].new = req[r].new)
    PROVE  IInv'
<1>1. \A q \in Reqs : Issues(q) => req[q].new \in Tokens \ issued
  BY DEF IInv, PairsInFlight, InFlight
<1>2. \A q \in Reqs \ {r} : req[q].stage \in {"drop", "put"} =>
        req[q].new \in Tokens /\ req[q].new \notin spent /\ refresh[req[q].new] = None
  BY <1>1 DEF IInv, PairsInFlight, InFlight, Issues, Issuing
<1>3. \A q \in Reqs \ {r} : InFlight(q)' /\ Issues(q)' = Issues(q)
  BY <1>1, <1>2, OthersKept
<1>4. PairsInFlight'
  BY <1>3, DistinctKept DEF PairsInFlight
<1> QED
  BY <1>4, StoreShrinks DEF IInv

-----------------------------------------------------------------------------
(* The steps of a login, a refresh and a logout. *)

\* What the invariant says about the request that moves.
LEMMA Own ==
    ASSUME IInv, NEW r \in Reqs, req[r].stage # None
    PROVE  /\ TypeOK /\ InFlight(r) /\ req[r].op # "idle"
           /\ req[r].acct \in Accounts /\ req[r].acct # None
BY TokensAssumption DEF IInv, PairsInFlight, InFlight

LEMMA LoginInv ==
    ASSUME IInv, NEW r \in Reqs, Login(r)
    PROVE  IInv'
<1>1. PICK a \in Accounts : req' = [req EXCEPT ![r] =
          [Idle EXCEPT !.op = "login", !.stage = "lookup", !.acct = a]]
  BY DEF Login
<1>2. PICK x : x = [Idle EXCEPT !.op = "login", !.stage = "lookup", !.acct = a]
  OBVIOUS
<1>3. x \in Request /\ x.op = "login" /\ x.stage = "lookup" /\ x.acct = a /\ x.mine = {}
  BY <1>2 DEF Idle, Request, Issuing
<1>4. /\ req' \in [Reqs -> Request]
      /\ \A q \in Reqs \ {r} : req'[q] = req[q]
      /\ req'[r] = x
  BY <1>1, <1>2, <1>3, BeginType DEF IInv
<1>5. UNCHANGED <<password, refresh, subject, jti, owner, issued, spent, ended, refused>>
  BY DEF Login, store, history
<1>6. TypeOK'
  BY <1>4, <1>5 DEF IInv, TypeOK
<1>7. InFlight(r)' /\ ~Issues(r)'
  BY <1>3, <1>4 DEF InFlight, Issues, Issuing, None
<1> QED
  BY <1>4, <1>5, <1>6, <1>7, QuietStep

LEMMA TakeInv ==
    ASSUME IInv, NEW r \in Reqs, Take(r)
    PROVE  IInv'
<1>1. PICK t \in Tokens :
        /\ refresh[t] # None
        /\ refresh' = [refresh EXCEPT ![t] = None]
        /\ spent' = spent \cup {t}
        /\ req' = [req EXCEPT ![r] = [Idle EXCEPT !.op = "refresh", !.stage = "lookup",
                                                   !.acct = refresh[t]]]
  BY DEF Take
<1>2. PICK x : x = [Idle EXCEPT !.op = "refresh", !.stage = "lookup", !.acct = refresh[t]]
  OBVIOUS
<1>3. refresh[t] \in Accounts /\ owner[t] = refresh[t]
  BY <1>1 DEF IInv, TypeOK, OwnTokens
<1>4. x \in Request /\ x.op = "refresh" /\ x.stage = "lookup" /\ x.acct = refresh[t] /\ x.mine = {}
  BY <1>2, <1>3 DEF Idle, Request, Issuing
<1>5. /\ req' \in [Reqs -> Request]
      /\ \A q \in Reqs \ {r} : req'[q] = req[q]
      /\ req'[r] = x
  BY <1>1, <1>2, <1>4, BeginType DEF IInv
<1>6. UNCHANGED <<password, subject, jti, owner, issued, ended, refused>>
  BY DEF Take
<1>7. TypeOK'
  BY <1>1, <1>5, <1>6 DEF IInv, TypeOK
<1>8. InFlight(r)' /\ ~Issues(r)'
  BY <1>3, <1>4, <1>5 DEF InFlight, Issues, Issuing, None
<1>9. \A q \in Reqs : Issues(q) => req[q].new \in Tokens \ issued
  BY DEF IInv, PairsInFlight, InFlight
<1>10. \A q \in Reqs \ {r} : req[q].stage \in {"drop", "put"} =>
         req[q].new \notin spent' /\ refresh'[req[q].new] = None
  <2>1. \A q \in Reqs : req[q].stage \in {"drop", "put"} =>
          req[q].new \in Tokens /\ req[q].new \notin spent /\ refresh[req[q].new] = None
    BY <1>9 DEF IInv, PairsInFlight, InFlight, Issues, Issuing
  <2> QED
    BY <2>1, <1>1 DEF IInv, TypeOK
<1>11. PairsInFlight'
  <2>1. \A q \in Reqs \ {r} : InFlight(q)' /\ Issues(q)' = Issues(q)
    BY <1>5, <1>6, <1>9, <1>10, OthersKept
  <2> QED
    BY <2>1, <1>5, <1>8, DistinctKept DEF PairsInFlight
<1>12. OwnTokens' /\ SingleUse'
  BY <1>1, <1>6 DEF IInv, TypeOK, OwnTokens, SingleUse
<1>13. Booked'
  BY <1>1, <1>3, <1>6 DEF IInv, Booked
<1>14. LogoutRevokesAccess'
  BY <1>6 DEF IInv, LogoutRevokesAccess, Accepted
<1> QED
  BY <1>7, <1>11, <1>12, <1>13, <1>14 DEF IInv

\* A fresh pair is nobody else's: all that are in flight have an owner.
LEMMA LookupInv ==
    ASSUME IInv, NEW r \in Reqs, Lookup(r)
    PROVE  IInv'
<1>1. req[r].stage = "lookup" /\ req[r].stage # None
  BY DEF Lookup, None
<1>2. /\ TypeOK /\ InFlight(r) /\ req[r].op # "idle"
      /\ req[r].acct \in Accounts /\ req[r].acct # None
  BY <1>1, Own
<1>3. PICK a : a = req[r].acct
  OBVIOUS
<1>4. PICK t \in Tokens :
        /\ owner[t] = None
        /\ owner' = [owner EXCEPT ![t] = a]
        /\ req' = [req EXCEPT ![r].new = t, ![r].old = subject[a],
                              ![r].stage = IF subject[a] = None THEN "put" ELSE "drop"]
  BY <1>3 DEF Lookup
<1>5. a \in Accounts /\ subject[a] \in Tokens \cup {None}
  BY <1>2, <1>3 DEF TypeOK
<1>6. /\ req' \in [Reqs -> Request]
      /\ \A q \in Reqs \ {r} : req'[q] = req[q]
      /\ req'[r].op = req[r].op /\ req'[r].acct = a /\ req'[r].mine = req[r].mine
      /\ req'[r].new = t /\ req'[r].old = subject[a]
      /\ req'[r].stage = IF subject[a] = None THEN "put" ELSE "drop"
  <2>1. req[r] \in Request /\ req \in [Reqs -> Request]
    BY <1>2 DEF TypeOK
  <2>2. PICK g : g = IF subject[a] = None THEN "put" ELSE "drop"
    OBVIOUS
  <2>3. g \in Issuing \cup Revoking \cup {"take", "announce", None}
    BY <2>2 DEF Issuing
  <2>4. req' = [req EXCEPT ![r] = [req[r] EXCEPT !.new = t, !.old = subject[a], !.stage = g]]
    BY <1>4, <2>1, <2>2 DEF Request
  <2> QED
    BY <1>3, <1>5, <2>1, <2>2, <2>3, <2>4 DEF Request
<1>7. UNCHANGED <<password, refresh, subject, jti, issued, spent, ended, refused>>
  BY DEF Lookup, store
<1>8. TypeOK'
  BY <1>2, <1>4, <1>5, <1>6, <1>7 DEF TypeOK
<1>9. \A u \in Tokens : owner[u] # None => owner'[u] = owner[u] /\ u # t
  BY <1>2, <1>4 DEF TypeOK
<1>10. owner'[t] = a
  BY <1>2, <1>4 DEF TypeOK
<1>11. t \notin issued /\ t \notin spent /\ refresh[t] = None
  BY <1>4 DEF IInv, Booked, OwnTokens
<1>12. \A q \in Reqs : Issues(q) =>
         req[q].new \in Tokens \ issued /\ owner[req[q].new] # None
  <2>1. SUFFICES ASSUME NEW q \in Reqs, Issues(q)
                 PROVE  req[q].new \in Tokens \ issued /\ owner[req[q].new] # None
    OBVIOUS
  <2>2. req[q].stage # None
    BY <2>1, StageNames DEF Issues
  <2>3. InFlight(q) /\ req[q].acct # None
    BY <2>2, Own
  <2> QED
    BY <2>1, <2>3 DEF InFlight
<1>13. \A q \in Reqs \ {r} : req[q].stage \in {"drop", "put"} =>
         req[q].new \notin spent' /\ refresh'[req[q].new] = None
  BY <1>7 DEF IInv, PairsInFlight, InFlight
<1>14. InFlight(r)'
  <2>1. \A u \in req[r].mine : u \in issued /\ owner'[u] = a
    BY <1>2, <1>3, <1>9 DEF InFlight, IInv, Booked, TypeOK
  <2>2. subject[a] # None => subject[a] \in Tokens
    BY <1>5
  <2> QED
    BY <2>1, <2>2, <1>2, <1>5, <1>6, <1>7, <1>10, <1>11 DEF InFlight
<1>15. PairsInFlight'
  <2>1. \A q \in Reqs \ {r} : InFlight(q)' /\ Issues(q)' = Issues(q)
    BY <1>6, <1>7, <1>9, <1>12, <1>13, OthersKept
  <2>2. \A q \in Reqs \ {r} : Issues(q) => req'[r].new # req[q].new
    BY <1>6, <1>9, <1>12
  <2> QED
    BY <2>1, <2>2, <1>6, <1>14, DistinctKept DEF PairsInFlight
<1>16. OwnTokens'
  <2>1. \A u \in Tokens : refresh[u] \in {None, owner'[u]}
    BY <1>9, <1>11 DEF IInv, OwnTokens
  <2>2. \A b \in Accounts : jti[b] # None => jti[b] \in Tokens /\ owner[jti[b]] = b /\ b # None
    BY <1>2, TokensAssumption DEF IInv, OwnTokens, TypeOK
  <2>3. \A b \in Accounts : jti[b] # None => owner'[jti[b]] = b
    BY <2>2, <1>9
  <2> QED
    BY <2>1, <2>3, <1>7 DEF OwnTokens
<1>17. Booked' /\ SingleUse'
  BY <1>2, <1>7, <1>9 DEF IInv, Booked, SingleUse, TypeOK
<1>18. LogoutRevokesAccess'
  <2>1. \A u \in ended : owner'[u] = owner[u]
    BY <1>2, <1>9 DEF IInv, Booked, TypeOK
  <2> QED
    BY <2>1, <1>7 DEF IInv, LogoutRevokesAccess, Accepted
<1> QED
  BY <1>8, <1>15, <1>16, <1>17, <1>18 DEF IInv

LEMMA EncodeErrorInv ==
    ASSUME IInv, NEW r \in Reqs, EncodeError(r) \/ Announce(r)
    PROVE  IInv'
<1>1. /\ req' \in [Reqs -> Request]
      /\ \A q \in Reqs \ {r} : req'[q] = req[q]
      /\ req'[r] = Idle
  BY FinishType DEF EncodeError, Announce, IInv
<1>2. UNCHANGED <<password, refresh, subject, jti, owner, issued, spent, ended, refused>>
  BY DEF EncodeError, Announce, store, history
<1>3. TypeOK'
  BY <1>1, <1>2 DEF IInv, TypeOK
<1>4. InFlight(r)' /\ ~Issues(r)'
  BY <1>1, StageNames DEF InFlight, Issues, Issuing, None
<1> QED
  BY <1>1, <1>2, <1>3, <1>4, QuietStep

LEMMA DropInv ==
    ASSUME IInv, NEW r \in Reqs, Drop(r)
    PROVE  IInv'
<1>1. req[r].stage = "drop" /\ req[r].stage # None
  BY DEF Drop, None
<1>2. TypeOK /\ InFlight(r) /\ req[r].acct \in Accounts /\ req[r].op # "idle"
  BY <1>1, Own
<1>3. /\ req' \in [Reqs -> Request]
      /\ \A q \in Reqs \ {r} : req'[q] = req[q]
      /\ req'[r].stage = "put" /\ req'[r].op = req[r].op
      /\ req'[r].acct = req[r].acct /\ req'[r].new = req[r].new
      /\ req'[r].mine = req[r].mine
  BY <1>2, GotoType DEF Drop, Issuing
<1>4. /\ UNCHANGED <<password, subject, jti, owner, issued, spent, ended, refused>>
      /\ refresh' = [refresh EXCEPT ![req[r].old] = None]
  BY DEF Drop, history
<1>5. TypeOK' /\ \A t \in Tokens : refresh'[t] \in {None, refresh[t]}
  BY <1>2, <1>3, <1>4 DEF TypeOK
<1>6. Issues(r) /\ Issues(r)'
  BY <1>1, <1>3 DEF Issues, Issuing
<1>7. InFlight(r)'
  BY <1>1, <1>2, <1>3, <1>4, <1>5, <1>6 DEF InFlight
<1> QED
  BY <1>3, <1>4, <1>5, <1>6, <1>7, QuietStep

\* The refresh key is written for a pair that nobody can have consumed.
LEMMA PutInv ==
    ASSUME IInv, NEW r \in Reqs, Put(r)
    PROVE  IInv'
<1>1. req[r].stage = "put" /\ req[r].stage # None
  BY DEF Put, None
<1>2. TypeOK /\ InFlight(r) /\ req[r].acct \in Accounts /\ req[r].op # "idle"
  BY <1>1, Own
<1>3. /\ req' \in [Reqs -> Request]
      /\ \A q \in Reqs \ {r} : req'[q] = req[q]
      /\ req'[r].stage = "point" /\ req'[r].op = req[r].op
      /\ req'[r].acct = req[r].acct /\ req'[r].new = req[r].new
      /\ req'[r].mine = req[r].mine
  BY <1>2, GotoType DEF Put, Issuing
<1>4. PICK t : t = req[r].new
  OBVIOUS
<1>5. Issues(r) /\ Issues(r)'
  BY <1>1, <1>3 DEF Issues, Issuing
<1>6. t \in Tokens \ issued /\ owner[t] = req[r].acct /\ t \notin spent
  BY <1>1, <1>2, <1>4, <1>5 DEF InFlight
<1>7. /\ UNCHANGED <<password, subject, jti, owner, issued, spent, ended, refused>>
      /\ refresh' = [refresh EXCEPT ![t] = req[r].acct]
  BY <1>4 DEF Put, history
<1>8. TypeOK'
  BY <1>2, <1>3, <1>6, <1>7 DEF TypeOK
<1>9. InFlight(r)'
  BY <1>2, <1>3, <1>4, <1>5, <1>6, <1>7 DEF InFlight
<1>10. \A q \in Reqs \ {r} : Issues(q) => req[q].new \in Tokens \ issued /\ req[q].new # t
  BY <1>4, <1>5 DEF IInv, PairsInFlight, InFlight
<1>11. \A q \in Reqs \ {r} : req[q].stage \in {"drop", "put"} =>
         req[q].new \notin spent' /\ refresh'[req[q].new] = None
  BY <1>2, <1>7, <1>10 DEF IInv, PairsInFlight, InFlight, Issues, Issuing, TypeOK
<1>12. PairsInFlight'
  <2>1. \A q \in Reqs \ {r} : InFlight(q)' /\ Issues(q)' = Issues(q)
    BY <1>3, <1>7, <1>10, <1>11, OthersKept
  <2> QED
    BY <2>1, <1>3, <1>5, <1>9, DistinctKept DEF PairsInFlight
<1>13. OwnTokens' /\ SingleUse'
  BY <1>2, <1>6, <1>7 DEF IInv, TypeOK, OwnTokens, SingleUse
<1>14. Booked' /\ LogoutRevokesAccess'
  BY <1>7 DEF IInv, Booked, LogoutRevokesAccess, Accepted
<1> QED
  BY <1>8, <1>12, <1>13, <1>14 DEF IInv

LEMMA PointInv ==
    ASSUME IInv, NEW r \in Reqs, Point(r)
    PROVE  IInv'
<1>1. req[r].stage = "point" /\ req[r].stage # None
  BY DEF Point, None
<1>2. TypeOK /\ InFlight(r) /\ req[r].acct \in Accounts /\ req[r].op # "idle"
  BY <1>1, Own
<1>3. /\ req' \in [Reqs -> Request]
      /\ \A q \in Reqs \ {r} : req'[q] = req[q]
      /\ req'[r].stage = "bind" /\ req'[r].op = req[r].op
      /\ req'[r].acct = req[r].acct /\ req'[r].new = req[r].new
      /\ req'[r].mine = req[r].mine
  BY <1>2, GotoType DEF Point, Issuing
<1>4. /\ UNCHANGED <<password, refresh, jti, owner, issued, spent, ended, refused>>
      /\ subject' = [subject EXCEPT ![req[r].acct] = req[r].new]
  BY DEF Point, history
<1>5. Issues(r) /\ Issues(r)' /\ req[r].new \in Tokens
  BY <1>1, <1>2, <1>3 DEF Issues, Issuing, InFlight
<1>6. TypeOK'
  BY <1>2, <1>3, <1>4, <1>5 DEF TypeOK
<1>7. InFlight(r)'
  BY <1>2, <1>3, <1>4, <1>5 DEF InFlight
<1> QED
  BY <1>3, <1>4, <1>5, <1>6, <1>7, QuietStep

\* The pair is answered: no logout that has begun can have counted it.
LEMMA BindInv ==
    ASSUME IInv, NEW r \in Reqs, Bind(r)
    PROVE  IInv'
<1>1. req[r].stage = "bind" /\ req[r].stage # None
  BY DEF Bind, None
<1>2. TypeOK /\ InFlight(r) /\ req[r].acct \in Accounts /\ req[r].op # "idle"
  BY <1>1, Own
<1>3. PICK t : t = req[r].new
  OBVIOUS
<1>4. PICK a : a = req[r].acct
  OBVIOUS
<1>5. /\ UNCHANGED <<password, refresh, subject, owner, spent, ended, refused>>
      /\ jti' = [jti EXCEPT ![a] = t]
      /\ issued' = issued \cup {t}
  BY <1>3, <1>4 DEF Bind
<1>6. Issues(r) /\ t \in Tokens \ issued /\ owner[t] = a /\ a \in Accounts
  BY <1>1, <1>2, <1>3, <1>4 DEF Issues, Issuing, InFlight
<1>7. a # None /\ t # None
  BY <1>6, TokensAssumption
<1>8. /\ req' \in [Reqs -> Request]
      /\ \A q \in Reqs \ {r} : req'[q] = req[q]
      /\ ~Issues(r)' /\ InFlight(r)'
  <2>1. CASE req[r].op = "login"
    <3>1. /\ req' \in [Reqs -> Request]
          /\ \A q \in Reqs \ {r} : req'[q] = req[q]
          /\ req'[r].stage = "announce" /\ req'[r].op = req[r].op
          /\ req'[r].acct = req[r].acct /\ req'[r].mine = req[r].mine
      BY <1>2, <2>1, GotoType DEF Bind
    <3>2. ~Issues(r)'
      BY <3>1 DEF Issues, Issuing
    <3> QED
      BY <3>1, <3>2, <1>2, <1>5 DEF InFlight
  <2>2. CASE req[r].op # "login"
    <3>1. /\ req' \in [Reqs -> Request]
          /\ \A q \in Reqs \ {r} : req'[q] = req[q]
          /\ req'[r] = Idle
      BY <1>2, <2>2, FinishType DEF Bind
    <3> QED
      BY <3>1, StageNames DEF InFlight, Issues, Issuing, None
  <2> QED
    BY <2>1, <2>2
<1>9. TypeOK'
  BY <1>2, <1>5, <1>6, <1>8 DEF TypeOK
<1>10. \A q \in Reqs \ {r} : Issues(q) => req[q].new \notin issued'
  BY <1>3, <1>5, <1>6 DEF IInv, PairsInFlight, InFlight
<1>11. PairsInFlight'
  <2>1. \A q \in Reqs \ {r} : req[q].stage \in {"drop", "put"} =>
          req[q].new \notin spent' /\ refresh'[req[q].new] = None
    BY <1>5 DEF IInv, PairsInFlight, InFlight
  <2>2. \A q \in Reqs \ {r} : InFlight(q)' /\ Issues(q)' = Issues(q)
    BY <1>5, <1>8, <1>10, <2>1, OthersKept
  <2> QED
    BY <2>2, <1>8, DistinctKept DEF PairsInFlight
<1>12. OwnTokens'
  BY <1>2, <1>5, <1>6 DEF IInv, OwnTokens, TypeOK
<1>13. Booked' /\ SingleUse'
  BY <1>5, <1>6, <1>7 DEF IInv, Booked, SingleUse
<1>14. LogoutRevokesAccess'
  <2>1. t \notin ended
    BY <1>6 DEF IInv, Booked
  <2> QED
    BY <2>1, <1>2, <1>5 DEF IInv, LogoutRevokesAccess, Accepted, TypeOK
<1> QED
  BY <1>9, <1>11, <1>12, <1>13, <1>14 DEF IInv

LEMMA LogoutInv ==
    ASSUME IInv, NEW r \in Reqs, Logout(r)
    PROVE  IInv'
<1>1. PICK a \in Accounts : req' = [req EXCEPT ![r] =
          [Idle EXCEPT !.op = "logout", !.stage = "find", !.acct = a,
                       !.mine = {u \in issued : owner[u] = a}]]
  BY DEF Logout
<1>2. PICK M : M = {u \in issued : owner[u] = a}
  OBVIOUS
<1>3. PICK x : x = [Idle EXCEPT !.op = "logout", !.stage = "find", !.acct = a, !.mine = M]
  OBVIOUS
<1>4. M \in SUBSET Tokens
  BY <1>2 DEF IInv, TypeOK
<1>5. x \in Request /\ x.op = "logout" /\ x.stage = "find" /\ x.acct = a /\ x.mine = M
  BY <1>3, <1>4 DEF Idle, Request, Revoking
<1>6. /\ req' \in [Reqs -> Request]
      /\ \A q \in Reqs \ {r} : req'[q] = req[q]
      /\ req'[r] = x
  BY <1>1, <1>2, <1>3, <1>5, BeginType DEF IInv
<1>7. UNCHANGED <<password, refresh, subject, jti, owner, issued, spent, ended, refused>>
  BY DEF Logout, store, history
<1>8. TypeOK'
  BY <1>6, <1>7 DEF IInv, TypeOK
<1>9. InFlight(r)' /\ ~Issues(r)'
  BY <1>2, <1>5, <1>6, <1>7 DEF InFlight, Issues, Issuing, None
<1> QED
  BY <1>6, <1>7, <1>8, <1>9, QuietStep

LEMMA FindInv ==
    ASSUME IInv, NEW r \in Reqs, Find(r)
    PROVE  IInv'
<1>1. req[r].stage = "find" /\ req[r].stage # None
  BY DEF Find, None
<1>2. TypeOK /\ InFlight(r) /\ req[r].acct \in Accounts /\ req[r].op # "idle"
  BY <1>1, Own
<1>3. PICK o : o = subject[req[r].acct]
  OBVIOUS
<1>4. o \in Tokens \cup {None}
  BY <1>2, <1>3 DEF TypeOK
<1>5. PICK g : g = IF o = None THEN "unpoint" ELSE "forget"
  OBVIOUS
<1>6. g \in Revoking /\ g # "drop" /\ g # "put" /\ (g = "forget" => o \in Tokens)
  BY <1>4, <1>5 DEF Revoking
<1>7. req[r] \in Request /\ req \in [Reqs -> Request]
  BY <1>2 DEF TypeOK
<1>8. req' = [req EXCEPT ![r] = [req[r] EXCEPT !.old = o, !.stage = g]]
  BY <1>3, <1>5, <1>7 DEF Find, Request
<1>9. /\ req' \in [Reqs -> Request]
      /\ \A q \in Reqs \ {r} : req'[q] = req[q]
      /\ req'[r].op = req[r].op /\ req'[r].acct = req[r].acct
      /\ req'[r].mine = req[r].mine /\ req'[r].old = o /\ req'[r].stage = g
  BY <1>4, <1>6, <1>7, <1>8 DEF Request
<1>10. UNCHANGED <<password, refresh, subject, jti, owner, issued, spent, ended, refused>>
  BY DEF Find, store, history
<1>11. TypeOK'
  BY <1>2, <1>9, <1>10 DEF TypeOK
<1>12. ~Issues(r)'
  BY <1>6, <1>9 DEF Issues, Issuing, Revoking
<1>13. InFlight(r)'
  BY <1>2, <1>6, <1>9, <1>10, <1>12 DEF InFlight
<1> QED
  BY <1>9, <1>10, <1>11, <1>12, <1>13, QuietStep

LEMMA ForgetInv ==
    ASSUME IInv, NEW r \in Reqs, Forget(r)
    PROVE  IInv'
<1>1. req[r].stage = "forget" /\ req[r].stage # None
  BY DEF Forget, None
<1>2. TypeOK /\ InFlight(r) /\ req[r].acct \in Accounts /\ req[r].op # "idle"
  BY <1>1, Own
<1>3. /\ req' \in [Reqs -> Request]
      /\ \A q \in Reqs \ {r} : req'[q] = req[q]
      /\ req'[r].stage = "unpoint" /\ req'[r].op = req[r].op
      /\ req'[r].acct = req[r].acct /\ req'[r].mine = req[r].mine
  BY <1>2, GotoType DEF Forget, Revoking
<1>4. /\ UNCHANGED <<password, subject, jti, owner, issued, spent, ended, refused>>
      /\ refresh' = [refresh EXCEPT ![req[r].old] = None]
  BY DEF Forget, history
<1>5. TypeOK' /\ \A t \in Tokens : refresh'[t] \in {None, refresh[t]}
  BY <1>2, <1>3, <1>4 DEF TypeOK
<1>6. ~Issues(r)'
  BY <1>3 DEF Issues, Issuing
<1>7. InFlight(r)'
  BY <1>2, <1>3, <1>4, <1>6 DEF InFlight
<1> QED
  BY <1>3, <1>4, <1>5, <1>6, <1>7, QuietStep

LEMMA UnpointInv ==
    ASSUME IInv, NEW r \in Reqs, Unpoint(r)
    PROVE  IInv'
<1>1. req[r].stage = "unpoint" /\ req[r].stage # None
  BY DEF Unpoint, None
<1>2. TypeOK /\ InFlight(r) /\ req[r].acct \in Accounts /\ req[r].op # "idle"
  BY <1>1, Own
<1>3. /\ req' \in [Reqs -> Request]
      /\ \A q \in Reqs \ {r} : req'[q] = req[q]
      /\ req'[r].stage = "unbind" /\ req'[r].op = req[r].op
      /\ req'[r].acct = req[r].acct /\ req'[r].mine = req[r].mine
  BY <1>2, GotoType DEF Unpoint, Revoking
<1>4. /\ UNCHANGED <<password, refresh, jti, owner, issued, spent, ended, refused>>
      /\ subject' = [subject EXCEPT ![req[r].acct] = None]
  BY DEF Unpoint, history
<1>5. TypeOK'
  BY <1>2, <1>3, <1>4 DEF TypeOK
<1>6. ~Issues(r)'
  BY <1>3 DEF Issues, Issuing
<1>7. InFlight(r)'
  BY <1>2, <1>3, <1>4, <1>6 DEF InFlight
<1> QED
  BY <1>3, <1>4, <1>5, <1>6, <1>7, QuietStep

\* The logout is complete: what it counted belongs to the account whose jti
\* is gone.
LEMMA UnbindInv ==
    ASSUME IInv, NEW r \in Reqs, Unbind(r)
    PROVE  IInv'
<1>1. req[r].stage = "unbind" /\ req[r].stage # None
  BY DEF Unbind, None
<1>2. TypeOK /\ InFlight(r) /\ req[r].acct \in Accounts
  BY <1>1, Own
<1>3. PICK a : a = req[r].acct
  OBVIOUS
<1>4. PICK M : M = req[r].mine
  OBVIOUS
<1>5. a \in Accounts /\ \A t \in M : t \in issued /\ owner[t] = a
  BY <1>2, <1>3, <1>4 DEF InFlight
<1>6. /\ req' \in [Reqs -> Request]
      /\ \A q \in Reqs \ {r} : req'[q] = req[q]
      /\ req'[r] = Idle
  BY <1>2, FinishType DEF Unbind
<1>7. /\ UNCHANGED <<password, refresh, subject, owner, issued, spent, refused>>
      /\ jti' = [jti EXCEPT ![a] = None]
      /\ ended' = ended \cup M
  BY <1>3, <1>4 DEF Unbind
<1>8. TypeOK'
  BY <1>2, <1>5, <1>6, <1>7 DEF TypeOK
<1>9. InFlight(r)' /\ ~Issues(r)'
  BY <1>6, StageNames DEF InFlight, Issues, Issuing, None
<1>10. PairsInFlight'
  <2>1. \A q \in Reqs \ {r} : Issues(q) => req[q].new \notin issued'
    BY <1>7 DEF IInv, PairsInFlight, InFlight
  <2>2. \A q \in Reqs \ {r} : req[q].stage \in {"drop", "put"} =>
          req[q].new \notin spent' /\ refresh'[req[q].new] = None
    BY <1>7 DEF IInv, PairsInFlight, InFlight
  <2>3. \A q \in Reqs \ {r} : InFlight(q)' /\ Issues(q)' = Issues(q)
    BY <1>6, <1>7, <2>1, <2>2, OthersKept
  <2> QED
    BY <2>3, <1>6, <1>9, DistinctKept DEF PairsInFlight
<1>11. OwnTokens' /\ SingleUse'
  BY <1>2, <1>5, <1>7 DEF IInv, OwnTokens, SingleUse, TypeOK
<1>12. Booked'
  BY <1>5, <1>7 DEF IInv, Booked
<1>13. LogoutRevokesAccess'
  <2>1. SUFFICES ASSUME NEW b \in Accounts, NEW t \in ended', owner'[t] = b
                 PROVE  jti'[b] # t
    BY DEF LogoutRevokesAccess, Accepted
  <2>2. t \in Tokens /\ t # None
    BY <1>8, TokensAssumption DEF TypeOK
  <2>3. CASE b = a
    BY <2>2, <2>3, <1>2, <1>7 DEF TypeOK
  <2>4. CASE b # a
    <3>1. t \in ended
      BY <2>1, <2>4, <1>5, <1>7
    <3>2. jti'[b] = jti[b]
      BY <2>4, <1>2, <1>7 DEF TypeOK
    <3> QED
      BY <3>1, <3>2, <2>1, <1>7 DEF IInv, LogoutRevokesAccess, Accepted
  <2> QED
    BY <2>3, <2>4
<1> QED
  BY <1>8, <1>10, <1>11, <1>12, <1>13 DEF IInv

LEMMA FaultInv ==
    ASSUME IInv, NEW r \in Reqs, Fault(r)
    PROVE  IInv'
<1>1. /\ req' \in [Reqs -> Request]
      /\ \A q \in Reqs \ {r} : req'[q] = req[q]
      /\ req'[r] = Idle
  BY FinishType DEF Fault, IInv
<1>2. /\ UNCHANGED <<password, refresh, subject, jti, owner, issued, spent, ended>>
      /\ refused' = IF req[r].op = "login" THEN refused \cup {req[r].acct} ELSE refused
  BY DEF Fault, store
<1>3. req[r].acct \in Accounts
  BY DEF Fault, IInv, PairsInFlight, InFlight
<1>4. TypeOK'
  BY <1>1, <1>2, <1>3 DEF IInv, TypeOK
<1>5. InFlight(r)' /\ ~Issues(r)'
  BY <1>1, StageNames DEF InFlight, Issues, Issuing, None
<1> QED
  BY <1>1, <1>2, <1>4, <1>5, QuietStep

-----------------------------------------------------------------------------
(* Expiry and the account endpoints: no request moves. *)

LEMMA BackgroundInv ==
    ASSUME IInv, TypeOK', UNCHANGED <<owner, issued, spent, ended, req>>,
           \A t \in Tokens : refresh'[t] \in {None, refresh[t]},
           \A a \in Accounts : jti'[a] \in {None, jti[a]}
    PROVE  IInv'
<1>1. \A q \in Reqs : Issues(q)' = Issues(q)
  BY DEF Issues
<1>2. \A q \in Reqs : InFlight(q)'
  <2>1. SUFFICES ASSUME NEW q \in Reqs PROVE InFlight(q)'
    OBVIOUS
  <2>2. InFlight(q)
    BY DEF IInv, PairsInFlight
  <2>3. req[q].stage \in {"drop", "put"} => req[q].new \in Tokens
    BY <2>2 DEF InFlight, Issues, Issuing
  <2> QED
    BY <1>1, <2>2, <2>3 DEF InFlight
<1>3. PairsInFlight'
  BY <1>1, <1>2 DEF IInv, PairsInFlight
<1> QED
  BY <1>3, StoreShrinks DEF IInv

LEMMA ExpiryInv ==
    ASSUME IInv,
           \/ \E t \in Tokens : ExpireRefresh(t)
           \/ \E a \in Accounts : ExpireSubject(a) \/ ExpireJti(a) \/ ChangeAccount(a)
    PROVE  IInv'
<1>1. ASSUME NEW t \in Tokens, ExpireRefresh(t) PROVE IInv'
  <2>1. TypeOK' /\ \A u \in Tokens : refresh'[u] \in {None, refresh[u]}
    BY <1>1 DEF ExpireRefresh, history, IInv, TypeOK
  <2> QED
    BY <1>1, <2>1, BackgroundInv DEF ExpireRefresh, history
<1>2. ASSUME NEW a \in Accounts, ExpireSubject(a) PROVE IInv'
  <2>1. TypeOK'
    BY <1>2 DEF ExpireSubject, history, IInv, TypeOK
  <2> QED
    BY <1>2, <2>1, BackgroundInv DEF ExpireSubject, history
<1>3. ASSUME NEW a \in Accounts, ExpireJti(a) PROVE IInv'
  <2>1. TypeOK' /\ \A b \in Accounts : jti'[b] \in {None, jti[b]}
    BY <1>3 DEF ExpireJti, history, IInv, TypeOK
  <2> QED
    BY <1>3, <2>1, BackgroundInv DEF ExpireJti, history
<1>4. ASSUME NEW a \in Accounts, ChangeAccount(a) PROVE IInv'
  <2>1. TypeOK'
    BY <1>4 DEF ChangeAccount, store, history, IInv, TypeOK
  <2> QED
    BY <1>4, <2>1, BackgroundInv DEF ChangeAccount, store, history
<1> QED
  BY <1>1, <1>2, <1>3, <1>4

LEMMA StutterInv ==
    ASSUME IInv, UNCHANGED vars
    PROVE  IInv'
<1>1. TypeOK'
  BY DEF vars, store, history, IInv, TypeOK
<1> QED
  BY <1>1, BackgroundInv DEF vars, store, history

LEMMA InitInv == Init => IInv
<1> SUFFICES ASSUME Init PROVE IInv
  OBVIOUS
<1>1. TypeOK
  BY InitType
<1>2. OwnTokens /\ Booked /\ SingleUse /\ LogoutRevokesAccess
  BY DEF Init, OwnTokens, Booked, SingleUse, LogoutRevokesAccess
<1>3. \A r \in Reqs : req[r] = Idle /\ ~Issues(r)
  BY StageNames DEF Init, Issues, Issuing
<1>4. PairsInFlight
  BY <1>3, StageNames DEF PairsInFlight, InFlight, None
<1> QED
  BY <1>1, <1>2, <1>4 DEF IInv

LEMMA StepInv == IInv /\ [Next]_vars => IInv'
<1>1. SUFFICES ASSUME IInv, [Next]_vars PROVE IInv'
  OBVIOUS
<1>2. ASSUME NEW r \in Reqs, Step(r) PROVE IInv'
  <2>1. CASE Login(r) \/ Take(r) \/ Lookup(r)
    BY <1>1, <2>1, LoginInv, TakeInv, LookupInv
  <2>2. CASE Refuse(r)
    BY <1>1, <2>2, StutterInv DEF Refuse
  <2>3. CASE EncodeError(r) \/ Announce(r)
    BY <1>1, <2>3, EncodeErrorInv
  <2>4. CASE Drop(r) \/ Put(r) \/ Point(r) \/ Bind(r)
    BY <1>1, <2>4, DropInv, PutInv, PointInv, BindInv
  <2>5. CASE Logout(r) \/ Find(r) \/ Forget(r) \/ Unpoint(r) \/ Unbind(r)
    BY <1>1, <2>5, LogoutInv, FindInv, ForgetInv, UnpointInv, UnbindInv
  <2>6. CASE Fault(r)
    BY <1>1, <2>6, FaultInv
  <2> QED
    BY <1>2, <2>1, <2>2, <2>3, <2>4, <2>5, <2>6 DEF Step
<1>3. CASE UNCHANGED vars
  BY <1>1, <1>3, StutterInv
<1>4. CASE \/ \E t \in Tokens : ExpireRefresh(t)
           \/ \E a \in Accounts : ExpireSubject(a) \/ ExpireJti(a) \/ ChangeAccount(a)
  BY <1>1, <1>4, ExpiryInv
<1> QED
  BY <1>1, <1>2, <1>3, <1>4 DEF Next

-----------------------------------------------------------------------------
\* The inductive invariant of the sessions: whom a pair belongs to, who is
\* issuing it and what has become of it.
THEOREM SessionInvariant == Spec => []IInv
BY InitInv, StepInv, PTL DEF Spec

\* A refresh token that was consumed is never in the store again, though other
\* requests of the account write and delete their keys without a lock.
THEOREM SingleUseHolds == Spec => []SingleUse
<1>1. IInv => SingleUse
  BY DEF IInv
<1> QED
  BY <1>1, SessionInvariant, PTL

\* After a logout, no access token that was issued before it is accepted, even
\* if logins and refreshes that were under way finish later.
THEOREM LogoutRevokesAccessHolds == Spec => []LogoutRevokesAccess
<1>1. IInv => LogoutRevokesAccess
  BY DEF IInv
<1> QED
  BY <1>1, SessionInvariant, PTL
=============================================================================
