------------------------------ MODULE Finance -------------------------------
(***************************************************************************)
(* features/finance: payments against sales and purchase invoices, and the *)
(* reports that read both tables.                                          *)
(*                                                                         *)
(* A payment locks its invoice, reads what is paid, and in a later step    *)
(* writes the new sum as an absolute value and commits.  The income        *)
(* statement reads the two tables in four statements on one connection,    *)
(* outside a transaction: each sees what is committed at its own time.     *)
(***************************************************************************)
EXTENDS Integers, Sequences, FiniteSetsExt, Functions

CONSTANTS
    Workers,
    Invoices, Payments,     \* ids
    Totals,     \* totals of invoices, tax included
    Amounts,    \* amounts of payment requests
    Dates,      \* invoice dates <<year, month, day>>
    Today,      \* the date on which the reports run
    Periods     \* <<year, month_start, month_end>>, 0 for a missing month

\* The calendar of chrono and PostgreSQL.
Leap(y) == y % 4 = 0 /\ (y % 100 # 0 \/ y % 400 = 0)
DaysIn(y, mo) ==
    CASE mo = 2 -> IF Leap(y) THEN 29 ELSE 28
      [] mo \in {4, 6, 9, 11} -> 30
      [] OTHER -> 31
Days == {d \in Nat \X (1..12) \X (1..31) : d[3] <= DaysIn(d[1], d[2])}

FinanceAssumption ==
    /\ Totals \subseteq Int /\ Amounts \subseteq Int
    /\ Dates \subseteq Days
    /\ Periods \subseteq (Int \X Int \X Int)

Kinds == {"sales", "purchase"} \* the tables, and payments.invoice_type
Types == {"receivable", "payable"}  \* payments.payment_type, 1 and 2

VARIABLES
    invoices,   \* both invoice tables, by id, or Absent
    payments,   \* or Absent
    txn,        \* the payment each worker is about to write, or Idle
    report      \* the income statement in progress: its period, what it
                \* has read, and the invoices there were when it began

vars == <<invoices, payments, txn, report>>

Absent == [row |-> "absent"]
Idle == [step |-> 0]
Rows(table) == {d \in DOMAIN table : table[d] # Absent}
OfKind(kind) == {i \in Rows(invoices) : invoices[i].kind = kind}

Init ==
    /\ invoices = [i \in Invoices |-> Absent]
    /\ payments = [p \in Payments |-> Absent]
    /\ txn = [w \in Workers |-> Idle]
    /\ report = Idle

\* The invoice_create endpoints of sales and purchase: nothing paid, and
\* always a date (today when the request has none).
CreateInvoice(i) ==
    /\ invoices[i] = Absent
    /\ \E k \in Kinds, n \in Totals, d \in Dates :
         invoices' = [invoices EXCEPT ![i] = [kind |-> k, total |-> n, paid |-> 0, date |-> d]]
    /\ UNCHANGED <<payments, txn, report>>

-----------------------------------------------------------------------------
(* Payments. *)

\* Faulty form of Free: a plain SELECT, which waits for nobody.
FreeWithoutLock(i) == TRUE

\* FOR UPDATE on the invoice row.
Free(i) == \A v \in Workers : txn[v] # Idle => txn[v].invoice # i

\* Faulty form of StartPayment: any amount is taken.
StartAnyPayment(w, i) ==
    /\ txn[w] = Idle
    /\ Free(i)
    /\ \E a \in Amounts, t \in Types, k \in Kinds :
         /\ i \in OfKind(k)
         /\ txn' = [txn EXCEPT ![w] =
              [step |-> 1, invoice |-> i, kind |-> k, type |-> t, amount |-> a,
               paid |-> invoices[i].paid]]
    /\ UNCHANGED <<invoices, payments, report>>

\* The amount is checked first; the kind names the table, so an id of the
\* other table is not found.
StartPayment(w, i) ==
    /\ txn[w] = Idle
    /\ Free(i)
    /\ \E a \in Amounts, t \in Types, k \in Kinds :
         /\ a > 0
         /\ i \in OfKind(k)
         /\ txn' = [txn EXCEPT ![w] =
              [step |-> 1, invoice |-> i, kind |-> k, type |-> t, amount |-> a,
               paid |-> invoices[i].paid]]
    /\ UNCHANGED <<invoices, payments, report>>

\* Faulty form of Payable: the amount is compared without what was paid.
PayableAlone(w) == txn[w].amount <= invoices[txn[w].invoice].total

Payable(w) == txn[w].paid + txn[w].amount <= invoices[txn[w].invoice].total

CommitPayment(w, p) ==
    /\ txn[w] # Idle /\ payments[p] = Absent
    /\ Payable(w)
    /\ LET t == txn[w] IN
         /\ payments' = [payments EXCEPT ![p] =
              [type |-> t.type, kind |-> t.kind, invoice |-> t.invoice, amount |-> t.amount]]
         /\ invoices' = [invoices EXCEPT ![t.invoice].paid = t.paid + t.amount]
    /\ txn' = [txn EXCEPT ![w] = Idle]
    /\ UNCHANGED report

\* The invoice is fully paid, or the process fails before the commit.
Rollback(w) ==
    /\ txn[w] # Idle
    /\ txn' = [txn EXCEPT ![w] = Idle]
    /\ UNCHANGED <<invoices, payments, report>>

-----------------------------------------------------------------------------
(* Dates: what chrono and PostgreSQL compute. *)

Pred(d) ==
    IF d[3] > 1 THEN <<d[1], d[2], d[3] - 1>>
    ELSE IF d[2] > 1 THEN <<d[1], d[2] - 1, DaysIn(d[1], d[2] - 1)>>
    ELSE <<d[1] - 1, 12, 31>>
Ordinal(d) ==
    LET y == d[1] - 1 IN
    365 * y + y \div 4 - y \div 100 + y \div 400
      + SumFunctionOnSet([mo \in 1..(d[2] - 1) |-> DaysIn(d[1], mo)], 1..(d[2] - 1)) + d[3]

\* FiscalPeriod::try_new: the whole year, one month, or a range of months.
MonthStart(p) == IF p[2] = 0 THEN 1 ELSE p[2]
MonthEnd(p) == IF p[3] # 0 THEN p[3] ELSE IF p[2] = 0 THEN 12 ELSE p[2]
ValidPeriod(p) ==
    /\ p[1] >= 1
    /\ MonthStart(p) \in 1..12 /\ MonthEnd(p) \in 1..12
    /\ MonthStart(p) <= MonthEnd(p)
StartDate(p) == <<p[1], MonthStart(p), 1>>

\* Faulty form of EndDate: the first day of the next month.
EndDateNext(p) ==
    IF MonthEnd(p) = 12 THEN <<p[1], 12, 31>> ELSE <<p[1], MonthEnd(p) + 1, 1>>

EndDate(p) ==
    IF MonthEnd(p) = 12 THEN <<p[1], 12, 31>>
    ELSE Pred(<<p[1], MonthEnd(p) + 1, 1>>)

Within(d, p) ==
    Ordinal(StartDate(p)) <= Ordinal(d) /\ Ordinal(d) <= Ordinal(EndDate(p))

-----------------------------------------------------------------------------
(* The income statement. *)

Sum(S) == SumFunctionOnSet([i \in S |-> invoices[i].total], S)
InPeriod(kind) == {i \in OfKind(kind) : Within(invoices[i].date, report.period)}

StartReport ==
    /\ report = Idle
    /\ \E p \in Periods :
         /\ ValidPeriod(p)
         /\ report' = [step |-> 1, period |-> p, began |-> Rows(invoices),
                       income |-> 0, expense |-> 0, sales |-> 0, purchases |-> 0]
    /\ UNCHANGED <<invoices, payments, txn>>

ReadNext(field, value) ==
    /\ report' = [report EXCEPT !.step = @ + 1, ![field] = value]
    /\ UNCHANGED <<invoices, payments, txn>>

ReadIncome == report.step = 1 /\ ReadNext("income", Sum(InPeriod("sales")))
ReadExpense == report.step = 2 /\ ReadNext("expense", Sum(InPeriod("purchase")))
CountSales == report.step = 3 /\ ReadNext("sales", Cardinality(InPeriod("sales")))
CountPurchases == report.step = 4 /\ ReadNext("purchases", Cardinality(InPeriod("purchase")))

\* The response is sent.
EndReport ==
    /\ report.step = 5
    /\ report' = Idle
    /\ UNCHANGED <<invoices, payments, txn>>

-----------------------------------------------------------------------------
(* The balances and the aging of open invoices: one statement each. *)

Due(i) == invoices[i].total - invoices[i].paid
DueSum(S) == SumFunctionOnSet([i \in S |-> Due(i)], S)
Unpaid(kind) == {i \in OfKind(kind) : invoices[i].total > invoices[i].paid}

\* Faulty form of Bucket: a boundary day falls between two buckets.
BucketOpen(age) ==
    CASE age < 30 -> "0-30"
      [] age > 30 /\ age <= 60 -> "31-60"
      [] age > 60 /\ age <= 90 -> "61-90"
      [] age > 90 -> "90+"
      [] OTHER -> ""

Bucket(age) ==
    CASE age <= 30 -> "0-30"
      [] age <= 60 /\ ~ (age <= 30) -> "31-60"
      [] age <= 90 /\ ~ (age <= 60) -> "61-90"
      [] OTHER -> "90+"

Age(i) == Ordinal(Today) - Ordinal(invoices[i].date)

\* Count and amount per bucket.
Aging(kind) ==
    [b \in {"0-30", "31-60", "61-90", "90+"} |->
       LET S == {i \in Unpaid(kind) : Bucket(Age(i)) = b} IN
       [count |-> Cardinality(S), amount |-> DueSum(S)]]

\* Every invoice of the kind, paid up or not.
UnpaidTotal(kind) == DueSum(OfKind(kind))

GetPayment(p) == payments[p]
SearchPayments(types, kinds) ==
    {p \in Rows(payments) : payments[p].type \in types /\ payments[p].kind \in kinds}

Read == (Rows(invoices) # {} \/ \E p \in Payments : GetPayment(p) # Absent) /\ UNCHANGED vars

Next ==
    \/ \E i \in Invoices : CreateInvoice(i)
    \/ \E w \in Workers :
         \/ \E i \in Invoices : StartPayment(w, i)
         \/ \E p \in Payments : CommitPayment(w, p)
         \/ Rollback(w)
    \/ StartReport \/ ReadIncome \/ ReadExpense \/ CountSales \/ CountPurchases \/ EndReport
    \/ Read

Spec == Init /\ [][Next]_vars

-----------------------------------------------------------------------------
(* Properties. *)

\* Type correctness of invoices, payments and open requests.
TypeOK ==
    /\ \A i \in Rows(invoices) :
         invoices[i] \in [kind: Kinds, total: Int, paid: Nat, date: Dates]
    /\ \A p \in Rows(payments) :
         payments[p] \in [type: Types, kind: Kinds, invoice: Invoices, amount: Nat \ {0}]
    /\ \A w \in Workers : txn[w] = Idle \/
         txn[w] \in [step: {1}, invoice: Invoices, kind: Kinds, type: Types,
                     amount: Nat \ {0}, paid: Nat]
    /\ report.step \in 0..5

\* paid_amount is the sum of the payments posted against the invoice, and
\* they never exceed its total: concurrent payments of one invoice neither
\* lose each other nor both pass the check (payment_create).
PaidAsPosted ==
    \A i \in Rows(invoices) :
      LET mine == {p \in SearchPayments(Types, Kinds) : GetPayment(p).invoice = i} IN
      /\ invoices[i].paid = SumFunctionOnSet([p \in mine |-> GetPayment(p).amount], mine)
      /\ mine # {} => invoices[i].paid <= invoices[i].total
      /\ \A p \in mine : GetPayment(p).kind = invoices[i].kind

\* Each figure of a report is that of a set of invoices of its period: all
\* that were there when the report began, and none that is not there now,
\* whatever is created while it reads; a period is the days of its months,
\* with both ends.
ReportCovers ==
    report.step = 5 =>
      LET In(S, kind) == {i \in S : invoices[i].kind = kind /\
                            invoices[i].date[1] = report.period[1] /\
                            invoices[i].date[2] \in MonthStart(report.period)..MonthEnd(report.period)}
          Seen(kind) == {S \in SUBSET In(Rows(invoices), kind) : In(report.began, kind) \subseteq S}
      IN  /\ \E S \in Seen("sales") : report.income = Sum(S)
          /\ \E S \in Seen("purchase") : report.expense = Sum(S)
          /\ \E S \in Seen("sales") : report.sales = Cardinality(S)
          /\ \E S \in Seen("purchase") : report.purchases = Cardinality(S)

\* The balance of a kind is the sum of its aging buckets and of what its
\* invoices of a negative total are to return, which no bucket shows; all
\* invoices have a date, so the two reports differ in nothing else
\* (InvoicePort).
BalanceIsAged ==
    \A k \in Kinds :
      LET ages == Aging(k)
          credit == {i \in OfKind(k) : invoices[i].total < invoices[i].paid}
      IN  UnpaidTotal(k) =
            SumFunctionOnSet([b \in DOMAIN ages |-> ages[b].amount], DOMAIN ages) + DueSum(credit)

\* A receipt of money is for a sales invoice and a payment out for a
\* purchase invoice.
PaymentDirection ==
    \A p \in Rows(payments) : payments[p].type = "receivable" <=> payments[p].kind = "sales"
=============================================================================
