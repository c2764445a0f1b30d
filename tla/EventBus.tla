------------------------------ MODULE EventBus ------------------------------
(***************************************************************************)
(* The PostgreSQL back end of infrastructure/event_bus: the outbox table   *)
(* _pg_events, the table _pg_event_deliveries with one row per event and   *)
(* subscriber, the dispatcher every server process runs, and the garbage   *)
(* collection of delivered events.                                         *)
(*                                                                         *)
(* One topic is modelled: the statements of the dispatcher treat every     *)
(* event on its own and look up its subscribers by topic.  Subs gives each *)
(* process its registry, so that processes of different releases can share *)
(* the tables.                                                             *)
(*                                                                         *)
(* A cycle is one transaction: it locks a batch of events (FOR UPDATE SKIP *)
(* LOCKED), calls the due subscribers of each and commits.  A subscriber   *)
(* gets the context, not the transaction, so what it did stays when the    *)
(* transaction is rolled back.                                             *)
(*                                                                         *)
(* Time is a Tick action; a timestamp in the future is the number of ticks *)
(* until it is reached.  NOW() is the start of the transaction: the        *)
(* transaction's view of the rows (tev, tdl) does not age, and what it     *)
(* wrote is shifted by the transaction's age when it commits.              *)
(***************************************************************************)
EXTENDS Integers, FiniteSets

CONSTANTS
    Events,       \* events of the topic that are ever published
    Handlers,     \* names of subscribers
    Procs,        \* server processes
    Subs,         \* the registry of each process: names subscribed to the topic
    MaxAttempts,  \* _pg_events.max_attempts
    BackoffCap,   \* DispatcherConfig::backoff_max_secs, in ticks
    MaxDelay,     \* longest delay passed to publish_with_delay
    Retention,    \* retention of delivered events, in ticks
    BatchSize,    \* DispatcherConfig::batch_size
    MaxFaults     \* crashes, shutdowns and failed transactions explored

None == "none"

ASSUME EventBusAssumption ==
    /\ Subs \in [Procs -> SUBSET Handlers]
    /\ MaxAttempts \in Nat \ {0}
    /\ BackoffCap \in Nat
    /\ MaxDelay \in Nat
    /\ Retention \in Nat \ {0}
    /\ BatchSize \in Nat \ {0}
    /\ MaxFaults \in Nat
    /\ None \notin Events
    /\ None \notin Procs
    /\ None \notin Handlers

VARIABLES
    ev,      \* _pg_events, committed
    dl,      \* _pg_event_deliveries, committed
    lock,    \* the process whose transaction holds the event's row lock
    tev,     \* the event row as the lock holder's transaction sees it
    tdl,     \* its delivery rows as that transaction sees them
    stage,   \* where each dispatcher stands
    todo,    \* events of its batch it has not started
    cur,     \* the event it processes
    plan,    \* deliveries of cur it fetched and has not dealt with
    sub,     \* the subscriber it is calling
    age,     \* age of its transaction, counted up to Horizon
    faults,  \* disturbances so far (bounds the exploration)
    calls,   \* history: calls of each subscriber for each event
    tried,   \* history: subscribers called in the open transaction
    lost,    \* history: calls whose transaction was rolled back
    oks      \* history: subscribers of each event that have returned Ok

tables == <<ev, dl>>
view == <<lock, tev, tdl>>
dispatcher == <<stage, todo, cur, plan, sub, age>>
history == <<calls, tried, lost, oks>>
vars == <<tables, view, dispatcher, faults, history>>

-----------------------------------------------------------------------------
(* Rows.                                                                   *)

Never == -1                         \* the timestamp 'infinity'
When == Nat \cup {Never}
Min2(a, b) == IF a <= b THEN a ELSE b
Max2(a, b) == IF a <= b THEN b ELSE a
Horizon == Max2(BackoffCap, Retention + 1)

Stage == {"idle", "batch", "event", "call", "down"}
EventStatus == {"absent", "pending", "delivered", "failed", "deleted"}
DeliveryStatus == {"none", "pending", "delivered", "failed"}

\* old counts the time since delivered_at, up to the first value past the
\* retention.
Event == [status: EventStatus, next: When, old: Nat]

\* A delivery that is open has an attempt left and a time at which it is due:
\* the queries do not fetch any other.
Delivery ==
    {d \in [status: DeliveryStatus, attempts: 0..MaxAttempts, next: When] :
        d.status = "pending" => d.attempts < MaxAttempts /\ d.next # Never}

NoEvent == [status |-> "absent", next |-> Never, old |-> 0]
NoDelivery == [status |-> "none", attempts |-> 0, next |-> Never]
NoDeliveries == [h \in Handlers |-> NoDelivery]

\* The row of a delivery that has just been inserted: due at once.
NewDelivery == [status |-> "pending", attempts |-> 0, next |-> 0]

HasRows(rows) == \E h \in Handlers : rows[h].status # "none"
Pending(rows) == {h \in Handlers : rows[h].status = "pending"}
Failed(rows) == {h \in Handlers : rows[h].status = "failed"}

\* The deliveries a transaction that starts now may run.
DueDeliveries(rows) ==
    {h \in Pending(rows) : rows[h].attempts < MaxAttempts /\ rows[h].next = 0}

\* n ticks later; infinity stays.
Later(next, n) == IF next = Never THEN Never ELSE Max2(next - n, 0)

-----------------------------------------------------------------------------
Init ==
    /\ ev = [e \in Events |-> NoEvent]
    /\ dl = [e \in Events |-> NoDeliveries]
    /\ lock = [e \in Events |-> None]
    /\ tev = [e \in Events |-> NoEvent]
    /\ tdl = [e \in Events |-> NoDeliveries]
    /\ stage = [p \in Procs |-> "idle"]
    /\ todo = [p \in Procs |-> {}]
    /\ cur = [p \in Procs |-> None]
    /\ plan = [p \in Procs |-> {}]
    /\ sub = [p \in Procs |-> None]
    /\ age = [p \in Procs |-> 0]
    /\ faults = 0
    /\ calls = [e \in Events |-> [h \in Handlers |-> 0]]
    /\ tried = [e \in Events |-> {}]
    /\ lost = [e \in Events |-> [h \in Handlers |-> 0]]
    /\ oks = [e \in Events |-> {}]

\* publish, publish_with_delay, and publish_in_tx at the caller's commit.
Publish(e) ==
    /\ ev[e].status = "absent"
    /\ \E delay \in 0..MaxDelay :
         ev' = [ev EXCEPT ![e] = [status |-> "pending", next |-> delay, old |-> 0]]
    /\ UNCHANGED <<dl, view, dispatcher, faults, history>>

-----------------------------------------------------------------------------
(* run_one_cycle.                                                          *)

\* Faulty form of Fetchable: no SKIP LOCKED, no row lock.
FetchableLocked(e) ==
    /\ ev[e].status \notin {"absent", "deleted"}
    /\ ev[e].next = 0
    /\ ~HasRows(dl[e]) \/ DueDeliveries(dl[e]) # {}

\* The status of the event row does not matter, its deliveries do.
Fetchable(e) ==
    /\ lock[e] = None
    /\ ev[e].status \notin {"absent", "deleted"}
    /\ ev[e].next = 0
    /\ ~HasRows(dl[e]) \/ DueDeliveries(dl[e]) # {}

\* The transaction starts and locks a batch.  Which of the due events comes
\* first is left open; a cycle that finds none changes nothing.
FetchBatch(p) ==
    LET due == {e \in Events : Fetchable(e)} IN
    /\ stage[p] = "idle"
    /\ \E S \in SUBSET due :
         /\ S # {}
         /\ Cardinality(S) = Min2(Cardinality(due), BatchSize)
         /\ lock' = [e \in Events |-> IF e \in S THEN p ELSE lock[e]]
         /\ tev' = [e \in Events |-> IF e \in S THEN ev[e] ELSE tev[e]]
         /\ tdl' = [e \in Events |-> IF e \in S THEN dl[e] ELSE tdl[e]]
         /\ todo' = [todo EXCEPT ![p] = S]
    /\ stage' = [stage EXCEPT ![p] = "batch"]
    /\ age' = [age EXCEPT ![p] = 0]
    /\ UNCHANGED <<tables, cur, plan, sub, faults, history>>

-----------------------------------------------------------------------------
(* process_message.                                                        *)

\* No subscriber of the topic: mark_events_terminal_failure.
NoSubscriber(p, e) ==
    /\ stage[p] = "batch"
    /\ e \in todo[p]
    /\ Subs[p] = {}
    /\ tev' = [tev EXCEPT ![e].status = "failed", ![e].next = Never]
    /\ todo' = [todo EXCEPT ![p] = @ \ {e}]
    /\ UNCHANGED <<tables, lock, tdl, stage, cur, plan, sub, age, faults, history>>

\* Faulty form of EnsureDeliveries: existing rows are overwritten.
EnsureDeliveriesAnew(p, rows) ==
    [h \in Handlers |-> IF h \in Subs[p] THEN NewDelivery ELSE rows[h]]

\* ensure_deliveries: ON CONFLICT DO NOTHING.
EnsureDeliveries(p, rows) ==
    [h \in Handlers |-> IF h \in Subs[p] /\ rows[h].status = "none"
                        THEN NewDelivery ELSE rows[h]]

\* The delivery rows are completed and the due ones fetched.
StartEvent(p, e) ==
    LET rows == EnsureDeliveries(p, tdl[e]) IN
    /\ stage[p] = "batch"
    /\ e \in todo[p]
    /\ Subs[p] # {}
    /\ tdl' = [tdl EXCEPT ![e] = rows]
    /\ plan' = [plan EXCEPT ![p] = DueDeliveries(rows)]
    /\ todo' = [todo EXCEPT ![p] = @ \ {e}]
    /\ cur' = [cur EXCEPT ![p] = e]
    /\ stage' = [stage EXCEPT ![p] = "event"]
    /\ UNCHANGED <<tables, lock, tev, sub, age, faults, history>>

\* A terminal failure of a delivery: mark_delivery_terminal_failure.
Terminal == [status |-> "failed", attempts |-> MaxAttempts, next |-> Never]

\* A delivery of a subscriber this process does not know.
Unregistered(p, h) ==
    /\ stage[p] = "event"
    /\ h \in plan[p] \ Subs[p]
    /\ tdl' = [tdl EXCEPT ![cur[p]][h] = Terminal]
    /\ plan' = [plan EXCEPT ![p] = @ \ {h}]
    /\ UNCHANGED <<tables, lock, tev, stage, todo, cur, sub, age, faults, history>>

\* deliver_one up to the call of the subscriber.
CallHandler(p, h) ==
    /\ stage[p] = "event"
    /\ h \in plan[p] \cap Subs[p]
    /\ plan' = [plan EXCEPT ![p] = @ \ {h}]
    /\ sub' = [sub EXCEPT ![p] = h]
    /\ stage' = [stage EXCEPT ![p] = "call"]
    /\ calls' = [calls EXCEPT ![cur[p]][h] = @ + 1]
    /\ tried' = [tried EXCEPT ![cur[p]] = @ \cup {h}]
    /\ UNCHANGED <<tables, view, todo, cur, age, faults, lost, oks>>

\* The called subscriber has returned and its delivery row becomes row.
Record(p, row) ==
    /\ stage[p] = "call"
    /\ tdl' = [tdl EXCEPT ![cur[p]][sub[p]] = row]
    /\ sub' = [sub EXCEPT ![p] = None]
    /\ stage' = [stage EXCEPT ![p] = "event"]
    /\ UNCHANGED <<tables, lock, tev, todo, cur, plan, age, faults, calls, tried, lost>>

\* Ok: mark_delivery_delivered leaves attempts and next_attempt_at alone.
HandlerOk(p) ==
    /\ Record(p, [tdl[cur[p]][sub[p]] EXCEPT !.status = "delivered"])
    /\ oks' = [oks EXCEPT ![cur[p]] = @ \cup {sub[p]}]

\* min(2^n, backoff_max_secs), the exponent stopped at 10.
Backoff(n) ==
    LET delay == 2 ^ Min2(n, 10)
    IN  IF delay \in 0..BackoffCap THEN delay ELSE BackoffCap

\* Faulty form of RetryPlan: one more attempt than allowed is planned.
RetryPlanOffByOne(d) ==
    IF d.attempts + 1 > MaxAttempts
    THEN Terminal
    ELSE [status |-> "pending", attempts |-> d.attempts + 1, next |-> Backoff(d.attempts + 1)]

\* Faulty form of RetryPlan: the attempt is not counted.
RetryPlanUncounted(d) ==
    IF d.attempts + 1 >= MaxAttempts
    THEN Terminal
    ELSE [status |-> "pending", attempts |-> d.attempts, next |-> Backoff(d.attempts + 1)]

\* RetryPlan::from_failure.
RetryPlan(d) ==
    IF d.attempts + 1 >= MaxAttempts
    THEN Terminal
    ELSE [status |-> "pending", attempts |-> d.attempts + 1, next |-> Backoff(d.attempts + 1)]

\* Faulty form of HandlerErr: the error is taken for an answer.
HandlerErrSwallowed(p) ==
    /\ Record(p, [tdl[cur[p]][sub[p]] EXCEPT !.status = "delivered"])
    /\ UNCHANGED oks

\* Err: record_delivery_retry.
HandlerErr(p) ==
    /\ Record(p, RetryPlan(tdl[cur[p]][sub[p]]))
    /\ UNCHANGED oks

\* A panic is caught and final.
HandlerPanics(p) ==
    /\ Record(p, Terminal)
    /\ UNCHANGED oks

\* Faulty form of Aggregate: open deliveries before failed ones, failures
\* forgotten.
AggregateIgnoresFailed(rows) ==
    IF Pending(rows) # {} THEN "pending" ELSE "delivered"

\* The status of the event row: failed first, then pending.
Aggregate(rows) ==
    CASE Failed(rows) # {} -> "failed"
      [] Failed(rows) = {} /\ Pending(rows) # {} -> "pending"
      [] OTHER -> "delivered"

\* Faulty form of Earliest: an event with a failed delivery is not due again.
EarliestUnlessFailed(rows, n) ==
    IF Pending(rows) = {} \/ Failed(rows) # {}
    THEN n = Never
    ELSE \E h \in Pending(rows) :
           n = rows[h].next /\ \A k \in Pending(rows) : n <= rows[k].next

\* n is when the first open delivery is due, infinity if there is none.
Earliest(rows, n) ==
    IF Pending(rows) = {}
    THEN n = Never
    ELSE \E h \in Pending(rows) :
           n = rows[h].next /\ \A k \in Pending(rows) : n <= rows[k].next

\* refresh_message_state, when all fetched deliveries are dealt with.
FinishEvent(p) ==
    LET e == cur[p] IN
    /\ stage[p] = "event"
    /\ plan[p] = {}
    /\ \E n \in {tdl[e][h].next : h \in Handlers} \cup {Never} :
         /\ Earliest(tdl[e], n)
         /\ tev' = [tev EXCEPT ![e] = [status |-> Aggregate(tdl[e]), next |-> n, old |-> 0]]
    /\ cur' = [cur EXCEPT ![p] = None]
    /\ stage' = [stage EXCEPT ![p] = "batch"]
    /\ UNCHANGED <<tables, lock, tdl, todo, plan, sub, age, faults, history>>

-----------------------------------------------------------------------------
(* The end of the transaction.                                             *)

\* The locks of p are released and its view of the rows is given up.
Release(p, next) ==
    /\ lock' = [e \in Events |-> IF lock[e] = p THEN None ELSE lock[e]]
    /\ tev' = [e \in Events |-> IF lock[e] = p THEN NoEvent ELSE tev[e]]
    /\ tdl' = [e \in Events |-> IF lock[e] = p THEN NoDeliveries ELSE tdl[e]]
    /\ tried' = [e \in Events |-> IF lock[e] = p THEN {} ELSE tried[e]]
    /\ stage' = [stage EXCEPT ![p] = next]
    /\ todo' = [todo EXCEPT ![p] = {}]
    /\ cur' = [cur EXCEPT ![p] = None]
    /\ plan' = [plan EXCEPT ![p] = {}]
    /\ sub' = [sub EXCEPT ![p] = None]
    /\ age' = [age EXCEPT ![p] = 0]

\* What the transaction wrote, seen from now.
AgedEvent(r, n) ==
    [r EXCEPT !.next = Later(r.next, n),
              !.old = IF r.status = "delivered" THEN Min2(r.old + n, Retention + 1) ELSE 0]
AgedDeliveries(rows, n) ==
    [h \in Handlers |-> [rows[h] EXCEPT !.next = Later(rows[h].next, n)]]

Commit(p) ==
    /\ stage[p] = "batch"
    /\ todo[p] = {}
    /\ ev' = [e \in Events |-> IF lock[e] = p THEN AgedEvent(tev[e], age[p]) ELSE ev[e]]
    /\ dl' = [e \in Events |-> IF lock[e] = p THEN AgedDeliveries(tdl[e], age[p]) ELSE dl[e]]
    /\ Release(p, "idle")
    /\ UNCHANGED <<faults, calls, lost, oks>>

\* One disturbance.  The guard only bounds the exploration.
Disturb ==
    /\ faults < MaxFaults
    /\ faults' = faults + 1

\* The transaction is rolled back: the calls it made leave no trace.
Rollback(p, next) ==
    /\ Release(p, next)
    /\ lost' = [e \in Events |-> [h \in Handlers |->
                  IF lock[e] = p /\ h \in tried[e] THEN lost[e][h] + 1 ELSE lost[e][h]]]
    /\ UNCHANGED <<tables, calls, oks>>

\* A statement fails: ? leaves run_one_cycle and the whole batch with it;
\* run_dispatcher logs the error and goes on.
CycleFails(p) ==
    /\ stage[p] \in {"batch", "event", "call"}
    /\ Disturb
    /\ Rollback(p, "idle")

\* A crash anywhere; between cycles also the graceful shutdown.
Stop(p) ==
    /\ stage[p] # "down"
    /\ Disturb
    /\ Rollback(p, "down")

Start(p) ==
    /\ stage[p] = "down"
    /\ stage' = [stage EXCEPT ![p] = "idle"]
    /\ UNCHANGED <<tables, view, todo, cur, plan, sub, age, faults, history>>

-----------------------------------------------------------------------------
\* delete_delivered_older_than; the delivery rows go with their event.
Expired == {e \in Events : ev[e].status = "delivered" /\ ev[e].old > Retention}

DeleteDelivered ==
    /\ Expired # {}
    /\ ev' = [e \in Events |-> IF e \in Expired
                               THEN [NoEvent EXCEPT !.status = "deleted"] ELSE ev[e]]
    /\ dl' = [e \in Events |-> IF e \in Expired THEN NoDeliveries ELSE dl[e]]
    /\ UNCHANGED <<view, dispatcher, faults, history>>

Tick ==
    /\ ev' = [e \in Events |-> AgedEvent(ev[e], 1)]
    /\ dl' = [e \in Events |-> AgedDeliveries(dl[e], 1)]
    /\ age' = [p \in Procs |-> IF stage[p] \in {"batch", "event", "call"}
                               THEN Min2(age[p] + 1, Horizon) ELSE 0]
    /\ UNCHANGED <<view, stage, todo, cur, plan, sub, faults, history>>

-----------------------------------------------------------------------------
\* What the dispatcher of p does by itself.
Dispatch(p) ==
    \/ FetchBatch(p)
    \/ \E e \in Events : NoSubscriber(p, e) \/ StartEvent(p, e)
    \/ \E h \in Handlers : Unregistered(p, h) \/ CallHandler(p, h)
    \/ HandlerOk(p)
    \/ HandlerErr(p)
    \/ HandlerPanics(p)
    \/ FinishEvent(p)
    \/ Commit(p)

Next ==
    \/ \E e \in Events : Publish(e)
    \/ \E p \in Procs : Dispatch(p)
    \/ \E p \in Procs : CycleFails(p) \/ Stop(p) \/ Start(p)
    \/ DeleteDelivered
    \/ Tick

Spec == Init /\ [][Next]_vars

\* The dispatchers poll for ever, subscribers return (the code sets them no
\* time limit), a stopped process is started again and time passes.
Fairness ==
    /\ \A p \in Procs : WF_vars(Dispatch(p)) /\ WF_vars(Start(p))
    /\ WF_vars(Tick)

FairSpec == Spec /\ Fairness

-----------------------------------------------------------------------------
(* Properties.                                                             *)

\* The type invariant.  An open delivery is never stuck by its own row: it has
\* an attempt left and is due some time (RetryPlan, ensure_deliveries).
TypeOK ==
    /\ ev \in [Events -> Event]
    /\ dl \in [Events -> [Handlers -> Delivery]]
    /\ tev \in [Events -> Event]
    /\ tdl \in [Events -> [Handlers -> Delivery]]
    /\ lock \in [Events -> Procs \cup {None}]
    /\ stage \in [Procs -> Stage]
    /\ todo \in [Procs -> SUBSET Events]
    /\ cur \in [Procs -> Events \cup {None}]
    /\ plan \in [Procs -> SUBSET Handlers]
    /\ sub \in [Procs -> Handlers \cup {None}]
    /\ age \in [Procs -> Nat]
    /\ faults \in Nat
    /\ calls \in [Events -> [Handlers -> Nat]]
    /\ tried \in [Events -> SUBSET Handlers]
    /\ lost \in [Events -> [Handlers -> Nat]]
    /\ oks \in [Events -> SUBSET Handlers]
    /\ \A p \in Procs : stage[p] \in {"event", "call"} => cur[p] \in Events
    /\ \A p \in Procs : stage[p] = "call" => sub[p] \in Handlers

\* Every process has a subscriber for the topic.
Served == \A p \in Procs : Subs[p] # {}

\* All processes run the same release.
Uniform == \A p \in Procs : Subs[p] = Handlers

\* The event row agrees with its delivery rows: it is failed as soon as one
\* of them is, delivered when all are, and due no later than any open one.
Agrees(r, rows) ==
    IF HasRows(rows)
    THEN /\ r.status \in {"pending", "delivered", "failed"}
         /\ r.status = "failed" <=> Failed(rows) # {}
         /\ r.status = "delivered" <=> Failed(rows) = {} /\ Pending(rows) = {}
         /\ Pending(rows) = {} => r.next = Never
         /\ \A h \in Pending(rows) : r.next # Never /\ r.next <= rows[h].next
    ELSE r.status \in {"absent", "pending", "deleted"} /\ (r.status = "pending" => r.next # Never)

\* As long as every process knows the topic, the event row and its deliveries
\* never drift apart, so no open delivery is left behind by a row that is not
\* fetched any more (refresh_message_state and its comment).
Aggregated == \A e \in Events : Agrees(ev[e], dl[e])

\* Two dispatchers never call subscribers for the same event at the same time.
OneDispatcher ==
    \A p, q \in Procs :
       cur[p] = cur[q] /\ stage[p] \in {"event", "call"} /\ stage[q] \in {"event", "call"}
          => p = q

\* A row says delivered only if the subscriber returned Ok, and an event that
\* is delivered, or was and has been collected, was handled by every
\* subscriber of the release: a crash, a failed cycle or a panic never makes
\* the bus skip one (at-least-once delivery).
DeliveredMeansHandled ==
    /\ \A e \in Events : \A h \in Handlers : dl[e][h].status = "delivered" => h \in oks[e]
    /\ Uniform => \A e \in Events :
          ev[e].status \in {"delivered", "deleted"} => oks[e] = Handlers

\* A subscriber is called at most max_attempts times for an event, plus once
\* for each transaction that was rolled back after calling it.
CallsBounded ==
    \A e \in Events : \A h \in Handlers : calls[e][h] <= MaxAttempts + lost[e][h]

\* A delivery that has succeeded or finally failed is never touched again,
\* except by the collection of its delivered event.
SettledStays ==
    [][\A e \in Events : \A h \in Handlers :
          dl[e][h].status \in {"delivered", "failed"} =>
             \/ dl'[e][h].status = dl[e][h].status /\ dl'[e][h].attempts = dl[e][h].attempts
             \/ ev[e].status = "delivered" /\ ev'[e].status = "deleted"]_vars

\* The dispatcher of p works only on events its transaction has locked, and
\* calls each subscriber of an event at most once in it.
Owned(p) ==
    /\ \A e \in todo[p] :
         lock[e] = p /\ tried[e] = {} /\ tev[e].status \in {"pending", "failed"}
    /\ stage[p] \in {"idle", "down"} => \A e \in Events : lock[e] # p
    /\ stage[p] \notin {"event", "call"} => cur[p] = None
    /\ stage[p] \in {"event", "call"} =>
         /\ lock[cur[p]] = p
         /\ cur[p] \notin todo[p]
         /\ tev[cur[p]].status \in {"pending", "failed"}
         /\ HasRows(tdl[cur[p]])
         /\ \A h \in plan[p] : tdl[cur[p]][h].status = "pending" /\ h \notin tried[cur[p]]
    /\ stage[p] = "call" => tdl[cur[p]][sub[p]].status = "pending" /\ sub[p] \notin plan[p]

\* The calls a delivery row accounts for.
Booked(d) ==
    IF d.status = "none" THEN 0 ELSE d.attempts + (IF d.status = "delivered" THEN 1 ELSE 0)

InCall(e, h) ==
    lock[e] # None /\ stage[lock[e]] = "call" /\ cur[lock[e]] = e /\ sub[lock[e]] = h

\* The transaction leaves settled deliveries as it found them, and calls only
\* subscribers whose delivery was open.
Kept(e) ==
    \A h \in Handlers : dl[e][h].status \in {"delivered", "failed"} =>
       /\ tdl[e][h].status = dl[e][h].status
       /\ tdl[e][h].attempts = dl[e][h].attempts
       /\ h \notin tried[e]

\* The calls of a subscriber are those its row accounts for, those that were
\* rolled back, and the one of the open transaction.
Counted(e) ==
    \A h \in Handlers :
       /\ calls[e][h] <= lost[e][h] +
             (IF ev[e].status = "deleted" THEN MaxAttempts
              ELSE Booked(dl[e][h]) + (IF h \in tried[e] THEN 1 ELSE 0))
       /\ lock[e] # None =>
             calls[e][h] <= lost[e][h] + Booked(tdl[e][h]) + (IF InCall(e, h) THEN 1 ELSE 0)

\* An event row and its delivery rows, committed or not: nothing is open once
\* the event is delivered, delivered rows were handled, and one release gives
\* an event all its rows at once.
Sound(handled, r, rows) ==
    /\ r.status = "delivered" => HasRows(rows) /\ Pending(rows) = {} /\ Failed(rows) = {}
    /\ r.status = "deleted" /\ Uniform => handled = Handlers
    /\ Uniform /\ HasRows(rows) => \A h \in Handlers : rows[h].status # "none"
    /\ \A h \in Handlers : rows[h].status = "delivered" =>
          h \in handled /\ rows[h].attempts < MaxAttempts

Tracked(e) ==
    /\ lock[e] = None => tried[e] = {}
    /\ lock[e] # None => /\ ev[e].status \in {"pending", "failed"}
                         /\ tev[e].status \in {"pending", "failed", "delivered"}
                         /\ Kept(e)
    /\ Counted(e)
    /\ Sound(oks[e], ev[e], dl[e])
    /\ Sound(oks[e], tev[e], tdl[e])

\* The inductive invariant, whatever the registries of the processes.
IInv ==
    /\ TypeOK
    /\ \A p \in Procs : Owned(p)
    /\ \A e \in Events : Tracked(e)

InStepAt(e) ==
    /\ Agrees(ev[e], dl[e])
    /\ lock[e] # None /\ cur[lock[e]] # e => Agrees(tev[e], tdl[e])

\* With Served, what a transaction has finished or not begun agrees too.
InStep == \A e \in Events : InStepAt(e)

\* No open delivery is left, and the row will not be fetched again.
Settled(e) ==
    /\ ev[e].status \in {"delivered", "failed", "deleted"}
    /\ Pending(dl[e]) = {}
    /\ ev[e].next = Never

\* Every published event is settled in the end, whatever its subscribers
\* answer and although processes stop and cycles fail.
EventuallySettled == \A e \in Events : (ev[e].status # "absent") ~> Settled(e)

\* EVENT_BUS.md: an event is fetched until all its deliveries are final.
OpenIsFetched ==
    \A e \in Events : \A h \in Pending(dl[e]) : ev[e].next # Never
=============================================================================
