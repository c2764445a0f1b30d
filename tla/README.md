# Slab: a verification project in TLA+

Slab is an ERP back end in Rust (Tokio, Axum, sqlx, PostgreSQL at READ
COMMITTED). This directory models its control: the jobs, events, sessions and
cache that every domain uses, and the documents of purchase, sales, stock,
production, quality, finance and planning with their row locks, audit trails
and postings. TLC checks the models on small instances; TLAPS proves the
central invariants for every instance.

Contents: 1 Inventory · 2 Modules · 3 Runs · 4 Divergences · 5 Proofs ·
6 Not modelled · 7 Plan.

## 1. Inventory of the system

| Component | State it keeps | Operations | How it meets the others |
|---|---|---|---|
| `infrastructure/job_queue` | table `worker_jobs`; a semaphore and a JoinSet per job type and process | enqueue, fetch_due, run, mark_done, schedule_retry, mark_failed, orphan sweep, GC | enqueued by the scheduler and business code on a connection of its own; several server processes consume |
| `infrastructure/event_bus`, PostgreSQL | `_pg_events`, `_pg_event_deliveries` (one row per event and handler) | publish, publish_in_tx, dispatch cycle, GC | handlers run while the dispatcher's transaction is open, on connections of their own |
| `infrastructure/event_bus`, NATS | a JetStream stream, one durable pull consumer per handler, a prefetch buffer per process | publish, consume, ack, redelivery, backlog | the other back end of the same interface, outside the caller's transaction |
| `infrastructure/kv` | rows, an embedded file or redis keys with expiry | get, set_ex, take, del, sweep | sessions of `features/identity`; the sweep is a job |
| `cross_domain/inventory_ledger` | `inventories`, `inventory_transactions` | receive, issue, force_issue, adjust, transfer | called in the transaction of sales, purchase, production and warehouse documents |
| `cross_domain/costing` | `item_costs` with `is_current` | recalc_weighted_average | called when a purchase receipt is posted |
| `cross_domain/doc_numbering` | a PostgreSQL sequence per prefix; `nextval` is not rolled back | next code | every creation |
| `cross_domain/approval`, `flow` | status of a document | submit, approve, reject by transition tables | purchase, sales and warehouse documents |
| `features/purchase`, `features/sales` | orders, receipts, returns, deliveries, invoices | create, submit, approve, reject, receive, return, deliver, invoice | ledger, costing, audit |
| `features/warehouse` | inventory checks, stock transfers, initial stock | create, submit, approve, post | ledger, audit |
| `features/production` | work orders, materials, operations, receipts | create, release, pick, report, complete, receive | ledger, costs, audit |
| `features/quality` | templates, inspection orders, results, non-conformances | create, complete | connection pool, audit |
| `features/finance` | payments, paid amount of invoices | pay, income statement, aging, balances | invoices of purchase and sales |
| `features/planning`, `features/product` | BOMs, molds | create, release; MRP, suggestions, reorder alerts | reads sales, purchase and stock |
| `features/identity`, `http_auth` | accounts, three cache keys per session | login, refresh, logout, authorise; account writes; seeding | kv, events, audit |
| `features/item`, `customer`, `supplier`, `warehouse` | master data, category tree, units | create, patch, delete, list | numbering, audit |
| `features/audit`, `audit_contract` | `audit_logs` | record_create/updated/deleted, search with differences | called by every write |
| `shared_contract/query` | none: a cursor that the client sends back | keyset pages | every list |
| `libs/authz_kit` | permissions per role, compiled policies | set, remove, evaluate | every protected request |
| `libs/sched_kit`, `bin/server` | cron entries; life of the process | fire on the master, ordered shutdown | enqueues jobs |
| file, blob, image, web, locale, tracing, filters, migrator, health, frontend | none that matters here | I/O, formatting, presentation | |

The hard behaviours: several server processes share the tables and may crash
between any two statements; outcomes are written by id after work that took
arbitrarily long; a value read without a lock, or a row that does not exist yet,
protects nothing at READ COMMITTED; retries, leases, lifetimes and retention are
decided by clocks; messages are redelivered; releases with different registries
share one outbox; some endpoints have no transaction at all. PROJECT.json lists
each at its line under "hazards", with the properties that would catch it.

What makes the components correct, in a line each:

- jobs: none runs twice at once, every call is accounted for, all finish;
- events: at least once, one dispatcher per event, bounded calls, the event row
  agrees with its deliveries, every event settles, none acts on a change that
  was rolled back;
- cache and sessions: a consumed value stays consumed; a refresh token works
  once, a logout ends access;
- ledger, documents and costs: quantity equals booked movements, each document
  is posted once and whole, no overdraft except by a negative issue, the
  average stays within the prices paid;
- orders, deliveries, payments: never over-received, over-delivered, over-picked
  or overpaid, goods move on approved orders only;
- records: audit trails chain from creation to the row, codes are unique, lists
  neither skip nor repeat, permissions are exactly what was granted;
- requests: all end, whatever they wait for.

## 2. Modules

Each component has a module whose VARIABLES are the tables (and the state of the
requests in progress), with one action per statement group that other
transactions can come between: statements under a lock that lasts to the commit
are one step, statements that commit alone or read without a lock are steps of
their own. Definitions named "Faulty form of ..." belong to no specification:
they are plausible bugs against which the properties are tried. PROJECT.json
"map" gives the lines of every definition.

| Module | Models | State |
|---|---|---|
| `JobQueue`, `JobContract` | job queue; what it promises the enqueuer | rows, executions between fetch and final write, mode of each process |
| `EventBus` | PostgreSQL dispatcher | committed tables, the dispatcher's view and lock, where its cycle stands |
| `NatsBus` | JetStream back end (the server is external) | stream, deliveries and acks per consumer, prefetch buffers, calls |
| `Outbox` | publish and publish_in_tx from the caller's side | the transaction, the event row, the subscriber's effect |
| `KvStore`, `KvContract` | the cache on its three back ends; its contract | entries, what redb has on disk, clock, calls in progress |
| `TokenSessions` | login, refresh, logout, authorisation | the three keys, requests, what was issued, spent and refused |
| `Accounts` | account endpoints and the seeding hook | rows with version, audit, published events, requests |
| `InventoryLedger` | the ledger statement by statement | quantities, booked flow, row locks, pending writes |
| `StockDocuments` | checks, transfers, initial stock | documents, stock, log, trails, transactions |
| `Costing` | weighted average | cost rows, stock by warehouse, transactions |
| `Approval`, `AuditTrail` | transition tables; change records | operators used by the document modules |
| `Purchase`, `Sales` | orders to invoices | document tables, stock, trails, transactions |
| `Finance` | payments, fiscal periods, reports | invoices, payments, the report being read |
| `Production` | work orders | orders, receipts, reports, stock, log, trails |
| `Quality` | inspections and the connection pool | tables, free connections, requests |
| `Planning` | BOMs, molds, MRP | the tables that the queries read |
| `MasterData`, `Categories` | customers, suppliers, items, warehouses; the tree | rows, sequences, trails |
| `JsonDiff` | the differences audit_search shows | a resource and its log |
| `CursorPage` | keyset pages beside writers | rows, the cursor, what was listed |
| `Authz` | compilation, cache and evaluation of roles | permissions, compiled set, calls |
| `SumLemmas` | | lemmas on sums over finite sets, lists and partitions |
| `Platform_proofs`, `Messaging_proofs`, `Stock_proofs`, `Identity_proofs`, `Manufacturing_proofs`, `Trade_proofs`, `Records_proofs` | | theorems |
| `MC*` | | instances for TLC |

The modules of proofs extend the harness of their run, because what they prove is stated
there. For that the harnesses (`MCPlatform` to `MCTrade`) do not fix the bounds of their
instances: these are constants (records where a component has several, one for each
situation, as `TwoPicks` and `TwoLines` for `Make(c) == INSTANCE Production WITH ...`),
restricted by a named ASSUME to what the component's own ASSUME asks, and the cfg
chooses the values for TLC. `MCStock` asks for more in two places, which are regimes of
`Costing`: receipts into one warehouse and no costs by hand for `Receiving`, no negative
receipts for `Pricing`.

Quantities of requests are `i64` that neither a handler nor a CHECK restricts, so the
document modules take them from any set of integers: order, delivery, receipt, return,
pick and BOM lines, planned quantities, counted quantities. A document that may be posted
without a line may be so in the model (receipts, deliveries, picks); an order needs one.

Stock is a function on the places that have an `inventories` row; `Opening` gives those
that are there from the start. `read_qty` finds nothing to lock where there is no row: in
`StockDocuments`, `Purchase`, `Sales` and `Production` that is a step of its own (`MissRow`, `Miss...`),
after which the transaction counts from 0, whatever another one commits in between, and
its upsert, which waits for an open one to the same place, replaces what it finds. First
movements of a place can therefore lose each other in every one of these modules, as in
`ledger_first`. What is claimed of stock is claimed of the rows in `Opening`.

**JobQueue.** `rows` is `worker_jobs`, `execs` the executions between the UPDATE
of `fetch_due` and their final write. `EnqueueAfter` is one INSERT; `FetchDue` a
wake-up of `run_job_loop`; `CallHandler`, `HandlerOk`, `HandlerErr` (also the
elapsed timeout), `MarkDone`, `FinishFailure` are `run_one_job`; `WriteFails` and
`HandlerPanics` its silent ends; `ReenqueueOrphaned` and
`DeleteFinishedOlderThan` the sweeps; `Shutdown`, `Drained`, `Crash`, `Start` the
process; `Tick` the clock. The final writes go by id whatever the status of the
row, with the `attempts` read at fetch time: safe only while the lease outlives
the execution. `Slack` says so (`Timeout + MaxLag <= OrphanTimeout`). The code
has no such assertion; the defaults satisfy it, but a suspended process or a
hanging write is bounded by nothing, and `MaxLag` names that assumption.

**EventBus.** A dispatch cycle is one transaction that locks its batch with FOR
UPDATE SKIP LOCKED: `lock`, the view `tev`/`tdl`, and `stage`, `todo`, `cur`,
`plan`, `sub` for where it stands. `NOW()` is the start of the transaction, so
the view does not age; what was written is shifted by its `age` at commit.
Subscribers get the context and not the transaction: what they did survives a
rollback. `Subs` gives each process its registry; `Served` (every process has
some subscriber) and `Uniform` (one release) name the regimes.

**NatsBus.** One topic. A consumer hands out an event up to `MaxDeliver` times;
handing it to the prefetch buffer counts. A message that is not acked in time
returns to the consumer while its call goes on; the late ack still counts. A
payload that is no JSON is skipped without a call and without an ack, so it comes back
until `MaxDeliver` is used up. A panic ends the task of its handler in that process until
the process is started again (`HandlerPanics`, `Deserted`).

**Outbox.** `publish` writes the event on its own connection, `publish_in_tx` in
the caller's transaction. The subscriber writes on a connection of its own, which
an error, a panic or a crash of the dispatcher does not undo. An error counts and the one
that reaches `MaxAttempts` ends the delivery as failed (`HandlerFails`), a panic does so at
once (`Panics`), a crash counts nothing (`Crashes`).

**KvStore.** pg stores an expiry by the application's clock and compares it with
the server's (`Skew`); redb has one writer at a time and never syncs, so an
orderly close is the only durable point; redis keeps whole seconds. `get` on redb
reads in a snapshot. `KvContract` is the cache as its callers may see it.

**TokenSessions.** A token pair is one element of `Tokens`. Every get, set, take
and del is a step and may fail (`Fault`), which ends the request with what it has
written. `issued`, `spent` and `ended` record the pairs whose keys are written, the
refresh tokens that were consumed and what a completed logout must have ended.

**Accounts.** Reads and writes are separate steps; UPDATE carries the version it
read. `account_reset_password` has no transaction and three steps. Seeding counts
privileged accounts and inserts in another statement.

**InventoryLedger.** A cell is an item in a warehouse. `ReadQty` is SELECT FOR
UPDATE and locks nothing if there is no row; `UpsertAndLog` writes an absolute
quantity; `Refuse` is the shortage; `Return` continues a transfer with its
receive; `DeadlockVictim` is PostgreSQL's deadlock detection. `Prepared` (every
cell has its row) and `Positive` (quantities as the comment on `LedgerCommand`
asks; nothing enforces it) are the regimes.

**StockDocuments, Purchase, Sales, Finance, Production.** A request that locks its
document takes the lock in one step (`Lock...`, `Start...`) with the row as it
then is, and writes and commits in another; what lies in between is where others
run. Receipts, deliveries, picks and transfers go line by line over inventory rows that
they keep locked, and wait for each other; `Rollback` is an error, a crash or the
deadlock victim. The return of a purchase is posted in one step, which needs all its
rows free. `release` and `report` of production have no transaction, so each
of their statements is a step. `Returned`, `Within`, `Fits`, `AfterReceipt` and the like are
the arithmetic of one line; the trails use `AuditTrail`.

**Quality.** `free` counts pooled connections. `inspection_template_create` holds
one connection while it acquires a second (`AcquireSecond`), which
`AcquireTimeout` ends.

**Planning.** The queries are operators (`GrossDemand`, `InTransit`, `Suggested`,
alerts) over tables that other requests change between two calls. Deliveries and
receipts may be partial or correct others, and a delivery may bring goods of another item
than its line's, as in the code. The inventories rows of one warehouse exist; how
movements of them interleave is the subject of the ledger and the documents, and each is
one step here.

**MasterData, Categories.** An update reads for the record, reads again for the
merge and writes every column; a category is written column by column. `build_tree` is
a recursive function of the nodes (`BuildTree`): the children of a node in the order
`Ordered` gives, each followed by its own tree. Its domain is what the recursion can
reach, the smallest set closed under children that holds the roots (`Rooted`): the
code starts at the roots too, and what lies on or below a cycle is never called for.

**JsonDiff.** Snapshots are nested to `Depth`; `DiffValue` and `Collect` are recursive
functions of the values, as `json_diff` recurses into objects.

**Authz.** Setting or removing a role clears the compiled set; a thread evaluates with
the set it found or compiles one. A policy id joins the names of role and action.

**CursorPage.** Rows are inserted, changed and deleted between the pages.
`steady` is the set of rows that matched since the walk began.

## 3. Runs

Eight runs check what holds, four show a line of the repository that does not.
A passing run is a harness that puts related components side by side: the
variable `part` is chosen initially, picks the component (and the instance of its
constants) that moves, and the others stay in their initial state, or in one in
which nothing is due. So every part is explored completely, and no product of
independent state spaces is built. A property of a part is stated as
`part = "..." => ...`, or holds of the resting parts as well.

| Run | Parts | What it shows |
|---|---|---|
| `platform` | `JobQueue`: 2 jobs, 2 processes, 3 attempts, concurrency 2, 2 faults. `KvStore`: 1 key, 2 values, each back end, skewed clocks, a restart, a crash (pg) | `TypeOK`, `SingleExecution`, `RunsAccounted`; `KeepsContract` (JobContract is implemented); `CacheContract` (KvContract is implemented, lifetimes are bounded, no get answers with what was consumed before it began) |
| `messaging` | `EventBus`: 2 events in one batch, 2 subscribers, 2 processes, 2 attempts, 1 fault. `NatsBus`: 2 events, 2 processes, 2 deliveries, prefetch 2. `Outbox`: one change with each way of publishing | `Aggregated`, `OneDispatcher`, `DeliveredMeansHandled`, `CallsBounded`, `SettledStays`; `NatsDelivery`; `OutboxEffects` |
| `stock` | `InventoryLedger`: 3 documents of up to 2 lines on 2 stocked cells. `StockDocuments`: racing transfers beside initial stock, into a warehouse without a row; a check overtaken by movements; three initial stocks and a check of a cell without a row. `Costing`: one warehouse; two warehouses and costs by hand | `StockIsBooked`, `OnlyForceOverdraws`, `TransferConserves`; `TransfersPosted`; `CountsReplace`; `CostIsAverage` |
| `manufacturing` | `Production`: two orders picking from one cell, with a receipt into it or into a new cell; picks of two lines, plans and picks of either sign; reports on two operations. `Quality`: two inspections. `Planning`: MRP with a BOM and orders of either sign; releases of BOMs | `PicksAccounted`; `TotalIsPrefix`; `VerdictFollowsResults`; `PlanCovers` |
| `identity` | `TokenSessions`: 3 pairs, 2 requests, faults. `Accounts`: creations and updates; all operations and seeding | `SingleUse`, `LogoutRevokesAccess`; `WritesRecorded`; `OneAdministrator` |
| `records` | `CursorPage`: 5 rows, limits below, at and above the allowed. `JsonDiff`: all snapshots of 2 keys and depth 2. `MasterData`: codes; one record changed by two. `Categories`: every forest and cycle of 3. `Authz`: one role with types; names with the separator in them | `IInv`; `DiffExact`; `RecordsTraced`; `TreeShowsRooted`; `PermitsExactly` |
| `trade` | `Purchase`: two receipts on the lines of one order; two receipts and a return, one item without a row. `Sales`: deliveries from two places in either order; deliveries and goods brought back, one place without a row; two lines of one order. Order and receipt lines of either sign. `Finance`: payments; income statement over month ends; aging | `LinesAsPosted`, `StockAsPosted`, `OrderHistory`; `PaidAsPosted`; `ReportsCover` |
| `progress` | `JobQueue`, `EventBus`, `NatsBus`, `Outbox`, `InventoryLedger`, `CursorPage`, `Quality` under their fairness | `EventuallyFinished`, `EventsSettle`, `EveryDocumentEnds`, `RequestsEnd` |
| `job_runs` | 2 attempts, 2 faults | *violation* of `TotalRunsLimit` |
| `events_stranded` | an old release without subscribers beside the new one | *violation* of `OpenIsFetched` |
| `ledger_first` | 2 documents, no rows | *violation* of `StockIsBooked` |
| `sessions_orphan` | 2 logins at a time | *violation* of `LogoutRevokesRefresh` |

Bounds. Two actors and two rows give every pair of steps a chance to collide; a
third document, request or row is there where one can come between two others.
Three attempts make the first, a middle and the last failure different. Timers are
the smallest values that keep their order (backoff below its cap and at it,
`OrphanTimeout = Timeout + MaxLag`, the tightest `Slack` configuration; retention
reached and not). `MaxFaults`, `MaxCrashes` and `MaxRestarts` bound faults in the
guards of the actions; two of them reach a second failure during the recovery from
the first. `MaxTrail`, `MaxRecords`, `MaxLog`, `MaxSeq`, `MaxVersion`, `MaxCosts`,
`MaxReports` and `MaxNow` bound what grows; they stop new requests, not requests in
progress. Quantities of requests are unrestricted in the modules; of the instances,
the two receipts, the new place and the two lines of one order in `trade`, the picks of two
lines and MRP in `manufacturing`, and the transfers, initial stocks and the ledger in `stock`
have negative ones or zero, the others
positive ones only. Dates of `Finance` lie on the ends of months, of a leap February
and of the year. The theorems of section 5 have none of these bounds.

Symmetry is over sets whose members are only compared. Some sets share their
members across parts: only one part moves, and within a part a permutation moves
all of them together. `progress`, the only run with liveness, has none.

Deadlock is checked in `platform`, `stock`, `manufacturing`, `identity` and
`trade`. `messaging`, `records` and `progress` may stop: when all events are
published and settled, the walk is done, or the bounded history is written.

Fairness (all weak). `JobQueue`: time passes; a live process polls, sweeps, drains
and finishes what it runs (loops on timers, a handler is cut off by
`tokio::time::timeout`); a process that went down is started again (supervision,
outside the code). Nothing makes callers enqueue, the GC run or a fault happen.
`EventBus`: each dispatcher goes on (`run_dispatcher` polls on a timer), processes
are restarted, time passes; that subscribers return is part of it and the code does
not guarantee it, as `handle` has no timeout. `NatsBus`: the server fires
schedules, hands out what is due and expires `ack_wait`, tasks poll, handlers return
and processes that are down are restarted. `Outbox`: the dispatcher goes on and
handlers return; callers need not commit. What `EventsSettle` promises is an end and not
a success: a delivery may be final because its attempts are used up or its handler
panicked; on JetStream an event may wait for ever once panics have ended the handler's
task in every process, since only a restart brings a task back; a committed change may
end without its effect in the same two ways.
`InventoryLedger`: a handler that was called runs on, and PostgreSQL breaks
deadlocks. `CursorPage`: the client asks for the next page; writers need do
nothing. `Quality`: a request that can take a step takes it, and
`acquire_timeout` elapses.

Each property has a mutant in PROJECT.json: a definition of the model replaced by
its faulty form, under which TLC finds that property violated.

### What the four violations say

- `job_runs`: the docs bound the executions of a job by `RETRIES + 1`. Only
  `finish_failure` counts; a crash, a panic or a failed final write does not.
  What holds instead, and is proved, is `RunsAccounted`.
- `events_stranded`: a process that knows no subscriber of the topic marks the
  event failed with `next_attempt_at = infinity` without looking at its
  deliveries, which then stay pending and are never fetched.
- `ledger_first`: the first two postings to an item in a warehouse may run at the
  same time; there is no row to lock, both read 0, and the later absolute write
  wins while both flow rows remain.
- `sessions_orphan`: two concurrent logins both find no earlier token and both
  store one; the subject key names the later, and the other outlives every logout.

## 4. Divergences

What the models show beside the four violations: places where the code does
something else than a comment, test or document of the repository says. Each is
stated as a definition of its module, which the code as modelled does not satisfy;
no run is kept for them. A configuration that names the definition as an invariant
or property, on the instance of the harness, reproduces it.

| Definition | What the code does | What is said |
|---|---|---|
| `JobQueue!ParallelismLimit` | one semaphore per process, so `CONCURRENCY` times the number of processes (`job_queue/lib.rs:478`) | "the maximum parallel executions of the job_type" (`:74`) |
| `NatsBus!DroppedAfterFailures` | `max_deliver` also counts messages that waited in the prefetch buffer (`nats.rs:210`) | dropped after the handler failed (`:208`) |
| `NatsBus!BacklogIsUnconsumed` | the stream keeps acked messages (`nats.rs:138`) | backlog is what is not consumed (`:164`) |
| `Outbox!ActsOnCommitted` | `publish` is committed whatever becomes of the caller's transaction (`pg.rs:61`) | "in the business transaction" (`event_bus/lib.rs:89`) |
| `Outbox!PanicUndone` | a panicking subscriber's writes stay (`dispatcher.rs:251`) | the SAVEPOINT undoes them (`:250`) |
| `KvStore!ConsumedStaysConsumed` | a crash of redb undoes `take` (`redb.rs:79`) | consumed at once on every back end (`docs/KV.md:91`) |
| `TokenSessions!CacheNeverRefusesLogin` | a failing store fails the login (`token_ops.rs:31`) | it does not affect the login (`:19`) |
| `Accounts!AuditChain` with deletions | two concurrent deletions write two records (`account_delete.rs:59`) | before comes from a locking read (`audit_contract/lib.rs:74`) |
| `Accounts!AuditedChange` | the reset of a password and its record are two transactions (`account_reset_password.rs:67`) | one transaction (`audit_contract/lib.rs:4`) |
| `Costing!OneCurrent` with two warehouses | both receipts flip the same row and insert one (`costing/lib.rs:24`) | only one row is current (`:261`) |
| `StockDocuments!CreatedOnce` | two first initial stocks both record a creation (`inventory_initial.rs:56`) | before is None the first time (`:55`) |
| `Purchase!ReturnHistory` | submitting a return writes no record (`purchase_return_approve.rs:67`) | every write is recorded (`audit_contract/lib.rs:4`) |
| `Purchase!RejectedCanResubmit` | no endpoint leaves Rejected (`purchase/shared/flow.rs:8`) | can be changed and submitted again (`purchase_contract/value_object.rs:22`) |
| `Sales!InvoiceRecorded` | an invoice and its record are two transactions (`sales_invoice_create.rs:80`) | one transaction (`audit_contract/lib.rs:4`) |
| `Finance!BalanceIsAged` with negative totals | balances sum over all invoices (`finance_contract/port.rs:105`) | over those not paid up (`:94`) |
| `Finance!PaymentDirection` | the payment type is not compared with the invoice (`payment_create.rs:69`) | received for sales, paid for purchases (`CONTEXT.md:76`) |
| `Production!CompletedOnce` | a late release reopens a completed order (`work_order_release.rs:51`) | cannot be completed again (`work_order_complete.rs:55`) |
| `Production!ChangesRecorded` | release and report commit before their record (`work_order_release.rs:74`) | one transaction (`audit_contract/lib.rs:4`) |
| `Production!DraftUnreported` | report ignores the status (`work_order_operation_report.rs:81`) | reporting from Released on (`production_contract/value_object.rs:17`) |
| `Quality!ResultsPassOrFail` | a result of 3 is stored and taken for passed (`inspection_order_complete.rs:108`) | Pass or Fail only (`quality_contract/value_object.rs:21`) |
| `Planning!MrpPlansActive` | MRP plans inactive items (`planning_contract/port.rs:136`) | active items (`:7`) |
| `MasterData!PatchTouchesOnly`, `UpdatesChain` | a patch reads without a lock and writes every column (`customer_repository.rs:35`) | PATCH changes some fields (`docs/ai/conventions.md:14`) |
| `Categories!TreeShowsAll` | a category may become its own ancestor and vanishes from the tree (`item_category_repository.rs:43`) | a tree (migration `0003`, line 1) |
| `Categories!NullClearsParent` | null is read like a missing field (`item_category_update.rs:25`) | null clears (`item_category_repository.rs:41`) |
| `Categories!DeletedOnce` | a second concurrent deletion writes a second record (`item_category_delete.rs:58`) | none when the row is gone (`:55`) |
| `Authz!GrantedAllowed` with two resource types | policy ids lack the type, the later permission replaces the earlier (`authz.rs:172`) | a permission is for a resource type (`:26`) |

## 5. Proofs

All theorems hold for every value of the constants that satisfies the ASSUME of the
module: any number of jobs, events, subscribers, processes, documents, lines, cells,
accounts, tokens, rows and faults. Where the theorem is about a harness it holds for
the specification that the run checks, with any instance of its components.

**JobQueue.** `TypeCorrect` needs `AttemptsLeft`: a row still to be run, and every
execution, has a failure left. The rest is under `Slack`, by one inductive invariant
`IInv`: besides `SingleExecution` it says that an execution's row is Running with
the attempts it read and a lock as old as the execution (`LeaseHeld`), that this age
is at most `Timeout + MaxLag` (`ExecsBounded`), and how calls are booked
(`RunsBooked`). The sweep takes only rows whose lock is older than `OrphanTimeout`,
so none with an execution; the late writes therefore always hit the row they
fetched. `SingleExecutionHolds`, `RunsAccountedHolds`, `FinishedStaysHolds` and the
refinement `ImplementsContract` follow.

**EventBus.** `IInv` holds without any regime, so also for processes of different
releases, which no run instantiates except the counterexample. Its halves are
`Owned(p)` (what the dispatcher of p works on is locked by it, the deliveries it has
planned are pending and were not tried in this transaction) and `Tracked(e)` (the
committed rows, the transaction's rows and the history of calls belong together:
`Kept`, `Counted`, `Sound`). They need each other: that a locked event is not
delivered, which `Owned` claims, comes from `Sound`; that a call is recorded in the
row it was made for, which `Counted` claims, comes from `Owned`.
`OneDispatcherHolds`, `DeliveredMeansHandledHolds`, `CallsBoundedHolds` and
`SettledStaysHolds` follow. With `Served`, `InStep` is inductive relative to `IInv`
(`InStepHolds`, `AggregatedHolds`). `events_stranded` is why `Served` is needed.

**NatsBus.** `NatsDelivers`: a consumer has an ack only for an event whose handler
returned Ok, and no handler is called for an event more often than `MaxDeliver`, in all
processes together. Copies of a message wait in the prefetch buffers of several
processes and in their calls, and the late ack of one counts for all. So `NatsInv` counts
them together: the calls made and the copies in all buffers are no more than what the
consumer has handed out (`DeliveriesCounted`), and a task that is not up holds neither a
copy nor a call (`TasksIdle`).

**Outbox.** `OutboxDelivers`: with `publish_in_tx` a subscriber acts only on a change that
is committed, and no event counts as delivered whose subscriber has not done its work.
`OutboxInv` follows the transaction, the event row and the effect through the caller's
steps and the dispatcher's. That a failed delivery may have left its writes is section 4.

**InventoryLedger.** With `Prepared`, `IInv` adds to `StockIsBooked` that a pending
write is made under the row lock from the value that is still current, and that
uncommitted flow rows account for the difference (`Exclusive`): `LedgerInvariant`,
`StockIsBookedHolds`. `OnlyForceOverdrawsHolds` needs no rows, only `Positive`: what
a document other than a negative issue has read or written is not negative, or at
least what the locked row holds. `LedgerTypeCorrect` needs neither. `ledger_first` is
why `Prepared` is needed. `TransferConservesHolds`: the commit of a transfer leaves the
total stock as it was, whatever else is open. What a transfer has written so far and the
receipt it still owes add up to zero (`Balanced`, `Pending`), and under `Prepared` each
write is relative to the row as it still is at the commit; the sum over the cells needs
`IsFiniteSet(Cells)`.

**StockDocuments.** `PaperInv` is one inductive invariant for transfers, checks and initial
stocks. The committed entries of each row in `Opening` lead from there to what it holds, each
from where the ones before it led, and the version counts them (`Ledger`, `Leads`, `Tally`).
Cells without a row at the start may be created meanwhile, and overwritten by a request that
found none; the claims leave them out, the transactions that use them do not. The uncommitted
entries of a transaction lead in the same way from the row to what it has written, in cells
that it holds and no other transaction does (`Chains`, `Locked`), so its commit appends one
chain to the other (`LeadsJoin`). `Serves` ties what a transaction has posted and still has
to post to the lines of its document, whose status nobody else changes meanwhile. From this
follow `TransfersPostedHolds` (an approved transfer is one block of entries, each line once
out and once in, and the trail tells every status) and `CountsReplaceHolds`: between the
moment a check noted a quantity (`Noted`) and its own entry, the differences of the
cell's entries telescope, so the check posts the difference it noted minus what came in
between; and a recorded update of initial stock is one posting, because the row it found
stays locked (`Founds`), also when another request created it. Two lines for one item are
why the property asks for an item that the check lists once.

**Costing.** `CostIsAverageHolds` has two regimes. With one warehouse the row lock admits
one receipt at a time, whose id is the newest cost row, and that row alone is current
(`OneInv`): exactly one current average. With several warehouses, costs by hand
and stale stock that fails (section 4); what remains is `MeanInv`: every cost, and every
figure a receipt still works with, lies between two prices that were paid, since a weighted
mean rounded down stays between the values it weighs (`MeanBetween`) whatever stock it was
weighted with.

**TokenSessions.** `SingleUse` and `LogoutRevokesAccess` are not inductive: a request
that is issuing a pair writes its keys in several steps, between which others run.
`IInv` says of every pair that is being issued that it belongs to the account of its
request, to no other request, has not been answered and, until its refresh key is
written, is neither stored nor spent (`InFlight`, `PairsInFlight`), and that stored
keys and jtis name their owners (`OwnTokens`, `Booked`). Then only an unspent pair is
ever stored, and the jti written by a request is that of a pair no completed logout
has ended: `SessionInvariant`, `SingleUseHolds`, `LogoutRevokesAccessHolds`. The
refresh token has no such theorem: `sessions_orphan`.

**Accounts.** `WritesAreRecorded`: the records of an account chain from its creation to
the row whatever requests race, and `account.created` is published for exactly the
accounts whose creation committed. An UPDATE hits only if the row still has the version
it read, and its record then has that row as its before (`ChainInv`). What makes this
inductive is that nobody touches a row not yet created, that the first record is the
creation and that phones are unique (`UnbornUntouched`, `FirstRecord`, `PhonesUnique`).
`OneAdministratorHolds`: at most one account is privileged, because the hook alone
creates such accounts and all its inserts carry the same unique phone (`SeededOnly`), and
that account keeps its name, phone and privilege. The chain is proved in the regime of
its run; section 4 shows what deletions and password resets do to it.

**Purchase, Sales, Finance.** The properties are sums over the documents posted so far:
what a line has received is the sum of its receipts less its returns, stock the sum
over all documents, the paid amount the sum of the payments. The invariants (`BuyInv`,
`SellInv`, `PayInv`, together `TradeInvariant`) tell, for every transaction in progress,
that the rows it read under its locks are the current ones and that it has applied
exactly a prefix of its lines; a commit then moves one document from the open to the
posted ones, and every sum by what that document posts. Quantities are any integers. An
order line that no posted document names is open, whatever its quantity; one that is named
is never over its quantity and closed exactly when nothing is missing (so a line of 0 closes
with its first delivery of 0). The sums over stock are those of the rows in `Opening`; a
row that a transaction did not find may be replaced by it, whoever wrote it. `LinesAsPostedHolds`,
`StockAsPostedHolds`, `OrderHistoryHolds` (each record starts from the state the one
before it left, and the last shows the order as it is) and `PaidAsPostedHolds` (the
payments add up to the paid amount and never exceed the total) follow.

**Production, Quality.** `MakeInv` has four parts: types, who holds which lock
(`MakeLocks`), the order rows (`MakeOrders`) and the ledger (`MakeLedger`). What makes it
inductive is that the lines a pick has taken so far, on top of what the order shows, stay
within what the BOM asked for while the pick holds the order's row (`PicksFit`), and that
totals read by one statement and written by a later one are those of some first reports
(`Summed`).
`PicksAccountedHolds`: what the ledger issued for a work order is what its materials
show as picked (a row in `Opening` is what the ledger says), and no material is picked
beyond what its BOM asked for, or beyond 0 where plan and BOM multiply to a negative
quantity; its material cost then stays within that plan if no unit cost is negative.
`TotalIsPrefixHolds`: the totals of an order are those after some first of its reports and
before the others, never a mixture. For `Quality`, `VerdictFollowsResultsHolds`: an
inspected order has the results of exactly one completion and the verdict they give, and
its records reconstruct every state it had; completions race for the row lock of the
order. `ManufacturingInvariant` is the whole.

**KvStore.** `CacheContractHolds`: every step of the store, on any of its three back ends,
is a step of `KvContract` or changes nothing that a caller sees. A call is several steps of
the store and one of the contract, so `KvInv` tells what a call in progress may still do:
a value is in the store, or on its way into it, at most once (`KvOnce`); no entry and no
call promises more time than `set_ex` was given, whatever the clocks say (`KvTimes`); and
what was consumed before a get began is not what that get has read (`KvConsumed`). The
theorem asks for `ClosedInOrder`: redb does not crash. After a crash of redb a consumed
value is back (section 4), so without that hypothesis the statement is false.

**Planning.** `PlanCoversHolds` speaks of sums that queries compute from tables while others
write. The sums are over the rows that exist, of which there are finitely many because they
appear one at a time, not because the constants are finite. Quantities and stock are any
integers: what there is, what is coming and what MRP suggests meet the demand and the safety
stock whatever their signs; that no other list asks for more is claimed unless demand and
supply are both negative. A receipt takes from one sum what it adds to another (`PlanKept`), if its line
counts as in transit before it, which one of a negative quantity does not before its first
receipt. That a release raises the demand of a material by
the product of two sums, over the lines of the BOM and over the open sales lines of its
product (`DemandReleased`), is `SumPaired` together with the fact that the ids of BOM
lines belong to one BOM, so that no other pair of lines changes. `BomHistory` is inductive
with what a release has read: it holds the lock of its BOM, which is still a draft.

**Finance, the reports.** `ReportsCoverHolds`. An income statement reads four figures in
four statements, between which invoices are written. `FiguresSeen` says of each figure read
so far that it is that of some set of invoices of the period: all that were there when the
report began, and none that is not there now. Rows that are added or paid keep every such
set what it was (`FiguresStay`). That balances agree with the aging buckets is
`SumPartition` over the classes into which the dates divide the invoices.

**MasterData, Categories.** `RecordsTracedHolds`. A code is unique because its sequence never
goes back: each code in the table, and each taken by a request in progress, is a number the
sequence has passed, and belongs to one of them only (`MasterRow`, `MasterCodes`), also when
requests fail in between. The last
record of a trail is the row, whoever wrote last (`MasterTrail`), although with racing
updates the records before it do not chain (section 4). For categories: the parent of a
row, and the category of an item, exist (`CategoryInv`), the former across a deletion
because it is refused while there are children.

**The tree.** `TreeShowsRootedHolds` needs no invariant beyond `CategoryInv`, but facts that are
usually proved by induction on a tree. They are proved by extremal sets instead
(`MinimalSubset`, `SmallestSubset`): a depth function on `Rooted` exists because the largest
set that has one is closed (`DepthExists`, `Deepest`); the recursive function exists because
the largest set of nodes with one is everything (`BuildExists`); the order by `sort` and
id is strict and total, so an ordering of the children exists, and one as long as the set lists
all of it (`OrderingExists`, `OrderingAll`). `Forest` says what a list of nodes must satisfy
to show the trees of some siblings, and the trees of a category's children are joined to
its own one after another (`ForestPlanted`, `ForestsApart`, `ForestsJoined`,
`BuildForest`). Nothing is assumed about the table: it may hold cycles.

**JsonDiff.** `DiffExactHolds`, for snapshots of any depth. The values are those of the levels
up to `Depth` (`JsonLeveled`), so any set of values has one none of whose fields is in the
set (`JsonMinimal`). With it the recursive functions exist (`LeavesExist`, `DiffsExist`), and
a value of least level at which the differences failed to rebuild, overlapped or showed
something unchanged would contradict what holds of its fields.

**Authz.** `PermitsExactlyHolds`: nobody decides by policies compiled before the roles
changed, because the change waits for the threads that hold them and clears the cached
set (`AuthCurrent`). What is allowed is therefore always granted, whatever the
names. The converse, that all that is granted is allowed, has the hypothesis
`PoliciesApart`: one type of resource, no action named `all`, and no two pairs of role and
action that join to one id. Without it a later policy replaces an earlier one, which is the
last divergence of section 4.

**CursorPage.** `NothingMissed` speaks of the end of a walk only. `IInv` says of every
moment that the walk is done with exactly the ids from the cursor on: all it listed
lie there, and of the rows that matched throughout, all that lie there are listed.
Inserts below the cursor are still to come, inserts above it are not steady.
The lemmas on pages (`TopUpward`, `NothingMore`, `PageFacts`) say that a page is closed
upwards among the rows fetched, and that a fetch without an excess row is the whole
rest of the list. `WalkInvariant`, `PageTypes`, `NoRowTwice` and `NoRowMissed` follow
for any limits.

**SumLemmas.** Sums are the fold `SumFunctionOnSet` of the community modules. That a fold
over a finite set does not depend on the order of elements is proved there from the
definition of the fold, by smallest counterexample on cardinalities instead of an
induction theorem (whose operator parameter no installed prover can
instantiate). From it follow the sum with one element added, changed or removed, the sum
over a list extended by one line, and `SumPartition`: classes of a set have sums that
add up to its own. `SumScaled`, `SumJoined` and `SumPaired` are about a factor taken out of
a sum, sums over two disjoint sets and the sum over pairs, which is a product.
`MinimalSubset` (a finite family of sets has a member without a smaller one) serves where
one would use an induction over finite sets.

Only model-checked are the liveness properties `EventuallyFinished`, `EventsSettle`,
`EveryDocumentEnds` and `RequestsEnd`: the prover has neither fairness nor ENABLED. Every
invariant and action property that a passing run checks is stated by a theorem.

## 6. Not modelled

- Payloads, typed registration, tracing and messages: no control depends on them.
  NOTIFY is a poll that comes earlier. In `EventBus` no step creates a payload that
  does not parse; `NatsBus` has one.
- The SQLite back end of the job queue differs from PostgreSQL in the order in which
  due rows are taken, which `FetchDue` leaves open.
- i64 overflow of quantities and amounts.
- `libs/sched_kit`: cron triggers on the master are a timer that enqueues; start, stop
  and crash of processes are in `JobQueue` and `EventBus`.
- file, blob and image: I/O on object stores and encoding of images. web, locale,
  tracing and the signature of tokens: extraction, formatting and cryptography without
  state. `filter_kit`: translation of query parameters into SQL conditions; what they
  select is `Hits` of `CursorPage`. health, migrator, db pool and appctx: start-up
  wiring. frontend: presentation.
- The customer realm of the authorization middleware, which has no login.
- Amounts of tax, currency and unit conversion; wording and redaction in audit views.

## 7. Plan

1. The scheduler on the master with its lease, composed with `JobQueue`.
2. `Outbox` as an abstraction that `EventBus` refines, with one effect per subscriber.
3. `Sales` and `Purchase` over `InventoryLedger` itself instead of over their own
   stock rows.
