------------------------------ MODULE Quality -------------------------------
(***************************************************************************)
(* features/quality: inspection templates, inspection orders and           *)
(* non-conformances, with the connection pool that their requests share.   *)
(*                                                                         *)
(* Every request holds one pooled connection until it ends, except that    *)
(* inspection_template_create shadows its first connection and acquires a  *)
(* second one while the first is still held: enough of them at once take   *)
(* all connections and wait for another, until acquire_timeout.            *)
(*                                                                         *)
(* The id of a new row is known from the answer or from its change record, *)
(* so nothing happens to a row before that record is committed.            *)
(***************************************************************************)
EXTENDS AuditTrail, Integers, FiniteSets, Functions

CONSTANTS
    Workers,
    Pool,           \* max_connections
    Templates, Inspections, NonConformances,    \* ids
    MaxItems,       \* bound on the items of a template and on the results of a request
    Categories,     \* categories of a template
    MaxSeq,         \* bound on the numbers taken from the sequence
    Verdicts        \* results that a request may send: the field is an unchecked i16

QualityAssumption ==
    /\ Pool \in Nat \ {0} /\ MaxItems \in Nat /\ MaxSeq \in Nat
    /\ Verdicts \subseteq Int /\ Categories \subseteq Int
    /\ IsFiniteSet(Workers)
    /\ Templates \cap Inspections = {} \* ids are unique
    /\ (Templates \cup Inspections) \cap NonConformances = {}

VARIABLES
    templates,      \* inspection_templates with their items, or Absent
    inspections,    \* inspection_orders, or Absent
    results,        \* inspection_results of each order, one batch per completion
    ncs,            \* non_conformances, or Absent
    trail,          \* audit_logs of each row
    seq,            \* seq_inspection_order, which templates and orders share
    free,           \* idle connections of the pool
    txn             \* the request of each worker, or Idle

vars == <<templates, inspections, results, ncs, trail, seq, free, txn>>
tables == <<templates, inspections, results, ncs, trail>>

Absent == [row |-> "absent"]
Idle == [op |-> "idle"]
NoVerdict == 0 \* result IS NULL
Rows(table) == {d \in DOMAIN table : table[d] # Absent}
Known(table) == {d \in Rows(table) : trail[d] # <<>>}
Ids == Templates \cup Inspections \cup NonConformances

\* InspectionOrderStatus and Verdict.
Pending == 0
Inspected == 10
Pass == 1
Fail == 2

Init ==
    /\ templates = [t \in Templates |-> Absent]
    /\ inspections = [i \in Inspections |-> Absent]
    /\ results = [i \in Inspections |-> <<>>]
    /\ ncs = [n \in NonConformances |-> Absent]
    /\ trail = [d \in Ids |-> <<>>]
    /\ seq = 0
    /\ free = Pool
    /\ txn = [w \in Workers |-> Idle]

-----------------------------------------------------------------------------
(* The pool. *)

\* The first statement of a request: PgPool::acquire.
Acquire(w, request) ==
    /\ txn[w] = Idle /\ free > 0
    /\ free' = free - 1
    /\ txn' = [txn EXCEPT ![w] = request]

\* The end of a request gives back what it holds.
End(w, n) ==
    /\ free' = free + n
    /\ txn' = [txn EXCEPT ![w] = Idle]

Doing(w, op) == txn[w] # Idle /\ txn[w].op = op
Unused(table, d) == table[d] = Absent /\ \A v \in Workers : txn[v] # Idle => txn[v].ref # d

-----------------------------------------------------------------------------
(* Templates. *)

Prefix(category) == IF category = 2 THEN "IPQC" ELSE IF category = 3 THEN "OQC" ELSE "IQC"

StartTemplate(w, t) ==
    /\ Unused(templates, t) /\ seq < MaxSeq
    /\ \E n \in 0..MaxItems, c \in Categories :
         Acquire(w, [op |-> "second", ref |-> t, code |-> <<Prefix(c), seq + 1>>, items |-> n])
    /\ seq' = seq + 1
    /\ UNCHANGED tables

AcquireSecond(w) ==
    /\ Doing(w, "second") /\ free > 0
    /\ free' = free - 1
    /\ txn' = [txn EXCEPT ![w].op = "template"]
    /\ UNCHANGED <<tables, seq>>

\* Faulty form of AcquireTimeout: the request waits as long as it takes.
WaitForever(w) == FALSE /\ UNCHANGED vars

\* Faulty form of AcquireTimeout: the first connection is not given back.
TimeoutKeepsConnection(w) ==
    /\ Doing(w, "second") /\ free = 0
    /\ End(w, 0)
    /\ UNCHANGED <<tables, seq>>

\* acquire_timeout: the request fails and its first connection is free again.
AcquireTimeout(w) ==
    /\ Doing(w, "second") /\ free = 0
    /\ End(w, 1)
    /\ UNCHANGED <<tables, seq>>

\* Template, its items (of which only the number is kept) and the change
\* record in one transaction.
CommitTemplate(w) ==
    /\ Doing(w, "template")
    /\ LET t == txn[w] IN
         /\ templates' = [templates EXCEPT ![t.ref] = [code |-> t.code, items |-> t.items]]
         /\ trail' = [trail EXCEPT ![t.ref] = RecordCreate(@, [code |-> t.code])]
    /\ End(w, 2)
    /\ UNCHANGED <<inspections, results, ncs, seq>>

-----------------------------------------------------------------------------
(* Inspection orders. *)

InspectionSnapshot(row) == [status |-> row.status, result |-> row.result]

\* nextval and the INSERT, which commits alone.
CreateInspection(w, i) ==
    /\ Unused(inspections, i) /\ seq < MaxSeq
    /\ \E t \in Known(templates) :
         inspections' = [inspections EXCEPT ![i] =
           [code |-> seq + 1, template |-> t, status |-> Pending, result |-> NoVerdict]]
    /\ seq' = seq + 1
    /\ Acquire(w, [op |-> "record_inspection", ref |-> i])
    /\ UNCHANGED <<templates, results, ncs, trail>>

\* The row is read back and recorded in a second statement.
RecordInspection(w) ==
    /\ Doing(w, "record_inspection")
    /\ LET i == txn[w].ref IN
         trail' = [trail EXCEPT ![i] = RecordCreate(@, InspectionSnapshot(inspections[i]))]
    /\ End(w, 1)
    /\ UNCHANGED <<templates, inspections, results, ncs, seq>>

\* Faulty form of FreeRow: the order is read without FOR UPDATE.
FreeWithoutLock(i) == TRUE

FreeRow(i) == \A v \in Workers : Doing(v, "complete") => txn[v].ref # i

\* The results name any template item: neither the order's template nor
\* is_required plays a part, and the list may be empty.
CompleteLock(w, i) ==
    /\ i \in Known(inspections) /\ FreeRow(i)
    /\ inspections[i].status # Inspected
    /\ \E n \in 0..MaxItems : \E rs \in [1..n -> Verdicts] :
         Acquire(w, [op |-> "complete", ref |-> i, before |-> InspectionSnapshot(inspections[i]),
                     results |-> rs])
    /\ UNCHANGED <<tables, seq>>

\* Faulty form of Overall: it takes every item to fail the order.
OverallIfAllFail(rs) ==
    IF rs # <<>> /\ \A k \in DOMAIN rs : rs[k] = Fail THEN Fail ELSE Pass

Overall(rs) == IF \E k \in DOMAIN rs : rs[k] = Fail THEN Fail ELSE Pass

CommitComplete(w) ==
    /\ Doing(w, "complete")
    /\ LET t == txn[w]
           after == [status |-> Inspected, result |-> Overall(t.results)]
       IN  /\ inspections' = [inspections EXCEPT ![t.ref].status = after.status,
                                                 ![t.ref].result = after.result]
           /\ results' = [results EXCEPT ![t.ref] = Append(@, t.results)]
           /\ trail' = [trail EXCEPT ![t.ref] = RecordUpdated(@, t.before, after)]
    /\ End(w, 1)
    /\ UNCHANGED <<templates, ncs, seq>>

-----------------------------------------------------------------------------
(* Non-conformances. *)

\* The inspection is optional (Absent) and of any status and verdict.
CreateNonConformance(w, n) ==
    /\ Unused(ncs, n)
    /\ \E i \in Known(inspections) \cup {Absent} :
         ncs' = [ncs EXCEPT ![n] = [inspection |-> i]]
    /\ Acquire(w, [op |-> "record_nc", ref |-> n])
    /\ UNCHANGED <<templates, inspections, results, trail, seq>>

RecordNonConformance(w) ==
    /\ Doing(w, "record_nc")
    /\ trail' = [trail EXCEPT ![txn[w].ref] = RecordCreate(@, ncs[txn[w].ref])]
    /\ End(w, 1)
    /\ UNCHANGED <<templates, inspections, results, ncs, seq>>

\* An error or a lost client: an open transaction is rolled back, what was
\* committed stays, the connections return to the pool.
Abandon(w) ==
    /\ txn[w] # Idle
    /\ End(w, IF txn[w].op = "template" THEN 2 ELSE 1)
    /\ UNCHANGED <<tables, seq>>

-----------------------------------------------------------------------------
(* The reads; QualityPort::inspection_by_id returns the same row. *)

GetTemplate(t) == templates[t]
GetInspection(i) == [order |-> InspectionSnapshot(inspections[i]), results |-> results[i]]
GetNonConformance(n) == ncs[n]
InspectionById(i) == GetInspection(i).order

Read ==
    /\ \A t \in Known(templates) : GetTemplate(t) # Absent
    /\ \A n \in Known(ncs) : GetNonConformance(n) # Absent
    /\ UNCHANGED vars

Step(w) ==
    \/ AcquireSecond(w) \/ AcquireTimeout(w) \/ CommitTemplate(w)
    \/ RecordInspection(w) \/ CommitComplete(w) \/ RecordNonConformance(w)

Next ==
    \/ \E w \in Workers :
         \/ \E t \in Templates : StartTemplate(w, t)
         \/ \E i \in Inspections : CreateInspection(w, i) \/ CompleteLock(w, i)
         \/ \E n \in NonConformances : CreateNonConformance(w, n)
         \/ Step(w)
         \/ Abandon(w)
    \/ Read

Spec == Init /\ [][Next]_vars

\* A started request runs on: the runtime polls it, PostgreSQL answers, and
\* the timer of acquire_timeout fires.  Nothing is asked of new requests.
Fairness == \A w \in Workers : WF_vars(Step(w))
FairSpec == Spec /\ Fairness

-----------------------------------------------------------------------------
(* Properties. *)

Held(w) == CASE txn[w] = Idle -> 0
             [] Doing(w, "template") -> 2
             [] OTHER -> 1

\* Type correctness; every connection is idle or held by one request.
TypeOK ==
    /\ \A i \in Rows(inspections) :
         InspectionSnapshot(inspections[i]) \in
           [status: {Pending, Inspected}, result: {NoVerdict, Pass, Fail}]
    /\ \A t \in Rows(templates) : templates[t].code \in {"IPQC", "OQC", "IQC"} \X (1..seq)
    /\ free + SumFunctionOnSet([w \in Workers |-> Held(w)], Workers) = Pool
    /\ \A w \in Workers : txn[w] # Idle => txn[w].ref \in Ids

\* An inspected order has the results of exactly one completion, and its
\* verdict is Fail just when one of them is; a pending order has neither.
VerdictFollowsResults ==
    \A i \in Known(inspections) :
      LET d == GetInspection(i) IN
      /\ d.order.status = Pending => d.order.result = NoVerdict /\ d.results = <<>>
      /\ d.order.status = Inspected =>
           /\ Len(d.results) = 1
           /\ d.order.result = Fail <=> \E k \in DOMAIN d.results[1] : d.results[1][k] = Fail

\* The change records of an order reconstruct every state it had.
InspectionHistory ==
    \A i \in Known(inspections) : Chained(trail[i]) /\ UpToDate(trail[i], InspectionById(i))

\* Every request ends, even when requests that need two connections have
\* taken the whole pool.
RequestsEnd == \A w \in Workers : txn[w] # Idle ~> txn[w] = Idle

\* A result of an inspection item is Pass or Fail.
ResultsPassOrFail ==
    \A i \in Inspections : \A b \in DOMAIN results[i] : \A k \in DOMAIN results[i][b] :
      results[i][b][k] \in {Pass, Fail}
=============================================================================
