----------------------------- MODULE MCProgress -----------------------------
(***************************************************************************)
(* What must happen in the end, model-checked side by side under the       *)
(* fairness each component states: jobs, the two event back ends, the      *)
(* subscribers' effects, the stock documents, the pages of a list, and the *)
(* requests that share a pool.  part picks the component that moves; the   *)
(* others stay in a state in which nothing is due, so that their fairness  *)
(* asks for nothing.                                                       *)
(***************************************************************************)
EXTENDS Integers, TLC

VARIABLES
    part,
    jobs, execs, mode, job_faults, runs, job_lost, job_oks,
    ev, dl, ev_lock, tev, tdl, stage, todo, cur, plan, sub, age, ev_faults, calls, tried, ev_lost, ev_oks,
    stream, acked, count, pending, proc, task, fetched, running, called, failed, done, nats_faults,
    change, event, handler, effect, attempts, tx_faults,
    qty, present, flow, lock, pc, doc, cmd, lines, before, wrote, seen, moved,
    page_rows, phase, cursor, listed, twice, steady,
    templates, inspections, results, ncs, trail, seq, free, txn

jobVars == <<jobs, execs, mode, job_faults, runs, job_lost, job_oks>>
eventVars == <<ev, dl, ev_lock, tev, tdl, stage, todo, cur, plan, sub, age, ev_faults, calls, tried, ev_lost, ev_oks>>
natsVars == <<stream, acked, count, pending, proc, task, fetched, running, called, failed, done, nats_faults>>
txVars == <<change, event, handler, effect, attempts, tx_faults>>
stockVars == <<qty, present, flow, lock, pc, doc, cmd, lines, before, wrote, seen, moved>>
pageVars == <<page_rows, phase, cursor, listed, twice, steady>>
poolVars == <<templates, inspections, results, ncs, trail, seq, free, txn>>

-----------------------------------------------------------------------------
(* Instances. *)

\* Two jobs that compete for the permit of a process that may go down.
Job == INSTANCE JobQueue WITH
    Jobs <- {"j1", "j2"}, Procs <- {"p1"}, MaxAttempts <- 2, Concurrency <- 1,
    Timeout <- 1, MaxLag <- 1, OrphanTimeout <- 2, BackoffBase <- 1, BackoffCap <- 1,
    MaxDelay <- 0, Retention <- 0, GcBatch <- 1, MaxFaults <- 1,
    rows <- jobs, faults <- job_faults, lost <- job_lost, oks <- job_oks

Bus == INSTANCE EventBus WITH
    Events <- {"e1"}, Handlers <- {"h1", "h2"}, Procs <- {"p1", "p2"},
    Subs <- [p \in {"p1", "p2"} |-> {"h1", "h2"}], MaxAttempts <- 2, BackoffCap <- 2,
    MaxDelay <- 0, Retention <- 1, BatchSize <- 1, MaxFaults <- 1,
    lock <- ev_lock, faults <- ev_faults, lost <- ev_lost, oks <- ev_oks

\* e2 is no JSON, which every consumer skips without a call or an ack.
Nats == INSTANCE NatsBus WITH
    Events <- {"e1", "e2"}, Handlers <- {"h1"}, Procs <- {"p1", "p2"}, Invalid <- {"e2"},
    MaxDeliver <- 2, Prefetch <- 1, Outcomes <- {"ok", "err", "panic"}, MaxFaults <- 1,
    faults <- nats_faults, None <- "none"

Tx == INSTANCE Outbox WITH
    Changes <- {"c1", "c2"}, InTx <- {"c1"}, MaxAttempts <- 2, MaxFaults <- 1, faults <- tx_faults

Stock == INSTANCE InventoryLedger WITH
    Txns <- {"t1", "t2"}, Cells <- {"x", "y"}, Amounts <- {1}, Targets <- {2}, MaxLines <- 2,
    Stocked <- {"x", "y"}, Opening <- 1

\* No limit, limits that are too small or negative, one that is too large.
Page == INSTANCE CursorPage WITH
    Ids <- 1..4, Asked <- {-1, 0, 1, 2, 9}, DefaultLimit <- 2, MaxLimit <- 3, rows <- page_rows

\* Two requests, each of which may need both connections.
Requests == INSTANCE Quality WITH
    Workers <- {"w1", "w2"}, Pool <- 2, Templates <- {"t1", "t2"}, Inspections <- {"i1"},
    NonConformances <- {}, MaxItems <- 1, Categories <- {1, 3}, MaxSeq <- 3, Verdicts <- {2}

ASSUME /\ Job!JobQueueAssumption /\ Bus!EventBusAssumption /\ Nats!NatsAssumption
       /\ Tx!OutboxAssumption /\ Stock!LedgerAssumption /\ Page!PageAssumption
       /\ Requests!QualityAssumption

-----------------------------------------------------------------------------
ProgressInit ==
    /\ part \in {"jobs", "events", "nats", "tx", "stock", "page", "pool"}
    /\ Job!Init /\ Bus!Init /\ Tx!Init /\ Stock!Init /\ Page!Init /\ Requests!Init
    /\ IF part = "nats"
       THEN Nats!Init
       ELSE /\ Nats!NothingPublished
            /\ proc = [p \in {"p1", "p2"} |-> "up"]
            /\ task = [p \in {"p1", "p2"} |-> [h \in {"h1"} |-> "up"]]
    /\ part # "page" => \A i \in 1..4 : page_rows[i] = "hit"

ProgressNext ==
    \/ part = "jobs" /\ Job!Next
         /\ UNCHANGED <<part, eventVars, natsVars, txVars, stockVars, pageVars, poolVars>>
    \/ part = "events" /\ Bus!Next
         /\ UNCHANGED <<part, jobVars, natsVars, txVars, stockVars, pageVars, poolVars>>
    \/ part = "nats" /\ Nats!Next
         /\ UNCHANGED <<part, jobVars, eventVars, txVars, stockVars, pageVars, poolVars>>
    \/ part = "tx" /\ Tx!Next
         /\ UNCHANGED <<part, jobVars, eventVars, natsVars, stockVars, pageVars, poolVars>>
    \/ part = "stock" /\ Stock!Next
         /\ UNCHANGED <<part, jobVars, eventVars, natsVars, txVars, pageVars, poolVars>>
    \/ part = "page" /\ Page!Next
         /\ UNCHANGED <<part, jobVars, eventVars, natsVars, txVars, stockVars, poolVars>>
    \/ part = "pool" /\ Requests!Next
         /\ UNCHANGED <<part, jobVars, eventVars, natsVars, txVars, stockVars, pageVars>>

ProgressSpec ==
    /\ ProgressInit
    /\ [][ProgressNext]_<<part, jobVars, eventVars, natsVars, txVars, stockVars, pageVars, poolVars>>
    /\ Job!Fairness /\ Bus!Fairness /\ Nats!Fairness /\ Tx!Fairness /\ Stock!Fairness
    /\ Page!Fairness /\ Requests!Fairness

-----------------------------------------------------------------------------
(* Properties. *)

\* Every enqueued job is eventually finished, through any finite number of
\* crashes, shutdowns, panics and failed writes: the poll loop, the backoff
\* and the orphan sweep leave no row behind.
EventuallyFinished == Job!EventuallyFinished

\* Every published event is settled in the end, whatever its subscribers
\* answer and although processes stop, cycles fail and messages are
\* redelivered: on PostgreSQL each delivery is final; on JetStream each
\* handler has acked or used up its deliveries, unless panics have ended its
\* task in every process; and a committed change has had its effect, unless
\* its handler panicked or used up the attempts of the delivery.
EventsSettle == Bus!EventuallySettled /\ Nats!EventsSettle /\ Tx!CommittedHasEffect

\* Every document that starts ends, committed or rolled back: waiting for
\* row locks never lasts for ever, also when two transfers go opposite ways.
EveryDocumentEnds == Stock!EveryDocumentEnds

\* Every request ends, even when requests that need two connections have
\* taken the whole pool; and a client that follows the cursors of a list gets
\* to its end, though rows may be inserted all the time.
RequestsEnd == Requests!RequestsEnd /\ Page!WalkEnds
=============================================================================
