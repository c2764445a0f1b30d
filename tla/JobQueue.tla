------------------------------ MODULE JobQueue ------------------------------
(***************************************************************************)
(* The background job queue of infrastructure/job_queue: the worker_jobs   *)
(* table, the consumer side of every server process (poll loop, bounded    *)
(* concurrency, timeout, retry with backoff, orphan sweep, graceful        *)
(* shutdown) and the garbage collection of finished rows.                  *)
(*                                                                         *)
(* One job_type is modelled: every statement of the loop filters on        *)
(* job_type and each type has its own loop and semaphore, so types meet    *)
(* only in the orphan sweep and the GC, which treat each row on its own.   *)
(*                                                                         *)
(* Time is a Tick action.  A row keeps how far run_at lies ahead (due_in)  *)
(* and how long ago lock_at and done_at were (lock_age, done_age, counted  *)
(* up to the first value at which they are past their threshold).  An      *)
(* execution keeps the time its handler has run (age, at most Timeout:     *)
(* tokio::time::timeout) and the time it spent waiting to be spawned or to *)
(* have its outcome written (lag).  MaxLag bounds the latter; the code     *)
(* does not state such a bound, the theorems name it as a hypothesis.      *)
(***************************************************************************)
EXTENDS Integers, FiniteSets

CONSTANTS
    Jobs,           \* the rows of one job_type that are ever enqueued
    Procs,          \* server processes that share the table
    MaxAttempts,    \* max_attempts = Job::RETRIES + 1
    Concurrency,    \* Job::CONCURRENCY, the permits of one process
    Timeout,        \* Job::TIMEOUT, in ticks
    MaxLag,         \* longest wait outside the handler, in ticks
    OrphanTimeout,  \* WorkerOptions::orphan_timeout, in ticks
    BackoffBase,    \* WorkerOptions::backoff_base, in ticks
    BackoffCap,     \* WorkerOptions::backoff_cap, in ticks
    MaxDelay,       \* longest delay passed to enqueue_after
    Retention,      \* retention of finished rows, in ticks
    GcBatch,        \* GC_BATCH
    MaxFaults       \* crashes, shutdowns, panics and failed writes explored

ASSUME JobQueueAssumption ==
    /\ MaxAttempts \in Nat \ {0}
    /\ Concurrency \in Nat \ {0}
    /\ Timeout \in Nat
    /\ MaxLag \in Nat
    /\ OrphanTimeout \in Nat
    /\ BackoffBase \in Nat
    /\ BackoffCap \in Nat
    /\ MaxDelay \in Nat
    /\ Retention \in Nat
    /\ GcBatch \in Nat \ {0}
    /\ MaxFaults \in Nat

VARIABLES
    rows,    \* worker_jobs
    execs,   \* executions between fetch_due and their last write
    mode,    \* life of each server process
    faults,  \* disturbances so far (bounds the exploration)
    runs,    \* history: handler invocations per job
    lost,    \* history: invocations that ended without any write to the row
    oks      \* history: jobs some invocation of which returned Ok

vars == <<rows, execs, mode, faults, runs, lost, oks>>
history == <<runs, lost, oks>>

-----------------------------------------------------------------------------
(* Rows and executions.                                                    *)

Status == {"Absent", "Pending", "Running", "Done", "Failed", "Deleted"}
Phase == {"claimed", "running", "succeeded", "failed"}
Mode == {"up", "draining", "down"}

\* A worker_jobs row.  lock_age counts only while Running and done_age only
\* while Done or Failed: no statement reads lock_at or done_at elsewhere.
Row == [status: Status, attempts: Nat, due_in: Nat, lock_age: Nat, done_age: Nat]

NoRow == [status |-> "Absent", attempts |-> 0, due_in |-> 0, lock_age |-> 0, done_age |-> 0]

\* FetchJob with its JobMeta: attempts is the value read by fetch_due.
Exec == [proc: Procs, job: Jobs, attempts: Nat, phase: Phase, age: Nat, lag: Nat]

InFlight(p) == {e \in execs : e.proc = p}

\* One disturbance.  The guard only bounds the exploration.
Disturb ==
    /\ faults < MaxFaults
    /\ faults' = faults + 1

\* The execution e moves to the next stage of run_one_job.
Advance(e, phase) == execs' = (execs \ {e}) \cup {[e EXCEPT !.phase = phase]}

\* The executions of S vanish without a write to their rows.
Lose(S) ==
    /\ execs' = execs \ S
    /\ lost' = [j \in Jobs |-> IF \E e \in S : e.job = j /\ e.phase # "claimed"
                               THEN lost[j] + 1 ELSE lost[j]]

\* The row of an execution is overwritten by id, whatever its status; a
\* statement that finds no row changes nothing.
WriteRow(j, row) ==
    rows' = IF rows[j].status \in {"Absent", "Deleted"}
            THEN rows ELSE [rows EXCEPT ![j] = row]

Min2(a, b) == IF a <= b THEN a ELSE b

\* base * 2^(attempt-1), the shift stopped at 30 and the delay at the cap.
BackoffDelay(attempt) ==
    LET delay == BackoffBase * 2 ^ Min2(attempt - 1, 30)
    IN  IF delay \in 0..BackoffCap THEN delay ELSE BackoffCap

-----------------------------------------------------------------------------
Init ==
    /\ rows = [j \in Jobs |-> NoRow]
    /\ execs = {}
    /\ mode = [p \in Procs |-> "up"]
    /\ faults = 0
    /\ runs = [j \in Jobs |-> 0]
    /\ lost = [j \in Jobs |-> 0]
    /\ oks = {}

(***************************************************************************)
(* JobBus::enqueue_after: one INSERT on a connection of its own.           *)
(***************************************************************************)
EnqueueAfter(j) ==
    /\ rows[j].status = "Absent"
    /\ \E delay \in 0..MaxDelay :
         rows' = [rows EXCEPT ![j] = [NoRow EXCEPT !.status = "Pending", !.due_in = delay]]
    /\ UNCHANGED <<execs, mode, faults, history>>

Due == {j \in Jobs : rows[j].status = "Pending" /\ rows[j].due_in = 0}

(***************************************************************************)
(* One wake-up of run_job_loop: as many permits as the semaphore has left  *)
(* are fetched by one UPDATE.  Rows another statement holds are skipped    *)
(* and the two backends order differently, so any due rows may be taken.   *)
(***************************************************************************)
FetchDue(p) ==
    /\ mode[p] = "up"
    /\ \E S \in SUBSET Due :
         /\ S # {}
         /\ Cardinality(S) <= Concurrency - Cardinality(InFlight(p))
         /\ rows' = [j \in Jobs |-> IF j \in S
                        THEN [rows[j] EXCEPT !.status = "Running", !.lock_age = 0]
                        ELSE rows[j]]
         /\ execs' = execs \cup
               {[proc |-> p, job |-> j, attempts |-> rows[j].attempts,
                 phase |-> "claimed", age |-> 0, lag |-> 0] : j \in S}
    /\ UNCHANGED <<mode, faults, history>>

\* The spawned run_one_job calls the handler.
CallHandler(e) ==
    /\ e.phase = "claimed"
    /\ Advance(e, "running")
    /\ runs' = [runs EXCEPT ![e.job] = @ + 1]
    /\ UNCHANGED <<rows, mode, faults, lost, oks>>

HandlerOk(e) ==
    /\ e.phase = "running"
    /\ Advance(e, "succeeded")
    /\ oks' = oks \cup {e.job}
    /\ UNCHANGED <<rows, mode, faults, runs, lost>>

\* Faulty form of HandlerErr: the error is swallowed.
HandlerErrSwallowed(e) ==
    /\ e.phase = "running"
    /\ Advance(e, "succeeded")
    /\ UNCHANGED <<rows, mode, faults, history>>

\* The handler returns Err, or TIMEOUT has passed and its future is dropped:
\* both reach finish_failure.
HandlerErr(e) ==
    /\ e.phase = "running"
    /\ Advance(e, "failed")
    /\ UNCHANGED <<rows, mode, faults, history>>

MarkDone(e) ==
    /\ e.phase = "succeeded"
    /\ WriteRow(e.job, [rows[e.job] EXCEPT !.status = "Done", !.lock_age = 0, !.done_age = 0])
    /\ execs' = execs \ {e}
    /\ UNCHANGED <<mode, faults, history>>

\* Faulty form of ScheduleRetry: the failure is not counted.
ScheduleRetryUncounted(j, attempts, delay) ==
    WriteRow(j, [rows[j] EXCEPT !.status = "Pending", !.due_in = delay,
                                !.lock_age = 0, !.done_age = 0])

ScheduleRetry(j, attempts, delay) ==
    WriteRow(j, [rows[j] EXCEPT !.status = "Pending", !.attempts = attempts,
                                !.due_in = delay, !.lock_age = 0, !.done_age = 0])

MarkFailed(j, attempts) ==
    WriteRow(j, [rows[j] EXCEPT !.status = "Failed", !.attempts = attempts,
                                !.lock_age = 0, !.done_age = 0])

\* Faulty form of FinishFailure: one retry too many.
FinishFailureOffByOne(e) ==
    /\ e.phase = "failed"
    /\ LET attempts == e.attempts + 1
       IN  IF attempts <= MaxAttempts
           THEN ScheduleRetry(e.job, attempts, BackoffDelay(attempts))
           ELSE MarkFailed(e.job, attempts)
    /\ execs' = execs \ {e}
    /\ UNCHANGED <<mode, faults, history>>

\* attempts comes from the JobMeta read at fetch time, not from the row.
FinishFailure(e) ==
    /\ e.phase = "failed"
    /\ LET attempts == e.attempts + 1
       IN  IF attempts < MaxAttempts
           THEN ScheduleRetry(e.job, attempts, BackoffDelay(attempts))
           ELSE MarkFailed(e.job, attempts)
    /\ execs' = execs \ {e}
    /\ UNCHANGED <<mode, faults, history>>

\* mark_done, schedule_retry or mark_failed returns Err: it is only logged.
WriteFails(e) ==
    /\ e.phase \in {"succeeded", "failed"}
    /\ Disturb
    /\ Lose({e})
    /\ UNCHANGED <<rows, mode, runs, oks>>

\* A panicking handler ends its spawned task; the permit is released and
\* nothing is written.
HandlerPanics(e) ==
    /\ e.phase = "running"
    /\ Disturb
    /\ Lose({e})
    /\ UNCHANGED <<rows, mode, runs, oks>>

(***************************************************************************)
(* The orphan sweep of a live process: one UPDATE over all stale rows.     *)
(* attempts and run_at stay as they are.                                   *)
(***************************************************************************)
\* Faulty form of Orphaned: lock_at is not compared.
OrphanedAnyLock == {j \in Jobs : rows[j].status = "Running"}

Orphaned == {j \in Jobs : rows[j].status = "Running" /\ rows[j].lock_age > OrphanTimeout}

\* Faulty form of ReenqueueOrphaned: the lock is cleared, status is not.
ReenqueueOrphanedKeepsStatus(p) ==
    /\ mode[p] = "up"
    /\ Orphaned # {}
    /\ rows' = [j \in Jobs |-> IF j \in Orphaned THEN [rows[j] EXCEPT !.lock_age = 0] ELSE rows[j]]
    /\ UNCHANGED <<execs, mode, faults, history>>

ReenqueueOrphaned(p) ==
    /\ mode[p] = "up"
    /\ Orphaned # {}
    /\ rows' = [j \in Jobs |-> IF j \in Orphaned
                   THEN [rows[j] EXCEPT !.status = "Pending", !.lock_age = 0]
                   ELSE rows[j]]
    /\ UNCHANGED <<execs, mode, faults, history>>

\* One batch of delete_finished_older_than.
Expired == {j \in Jobs : rows[j].status \in {"Done", "Failed"} /\ rows[j].done_age > Retention}

DeleteFinishedOlderThan ==
    /\ \E S \in SUBSET Expired :
         /\ S # {}
         /\ Cardinality(S) = Min2(GcBatch, Cardinality(Expired))
         /\ rows' = [j \in Jobs |-> IF j \in S THEN [rows[j] EXCEPT !.status = "Deleted"]
                                               ELSE rows[j]]
    /\ UNCHANGED <<execs, mode, faults, history>>

-----------------------------------------------------------------------------
(* Life of a server process.                                               *)

Crash(p) ==
    /\ mode[p] # "down"
    /\ Disturb
    /\ Lose(InFlight(p))
    /\ mode' = [mode EXCEPT ![p] = "down"]
    /\ UNCHANGED <<rows, runs, oks>>

\* shutdown.changed(): loop and sweep break, in-flight executions go on.
Shutdown(p) ==
    /\ mode[p] = "up"
    /\ Disturb
    /\ mode' = [mode EXCEPT ![p] = "draining"]
    /\ UNCHANGED <<rows, execs, history>>

\* in_flight.join_next() has returned None.
Drained(p) ==
    /\ mode[p] = "draining"
    /\ InFlight(p) = {}
    /\ mode' = [mode EXCEPT ![p] = "down"]
    /\ UNCHANGED <<rows, execs, faults, history>>

Start(p) ==
    /\ mode[p] = "down"
    /\ mode' = [mode EXCEPT ![p] = "up"]
    /\ UNCHANGED <<rows, execs, faults, history>>

-----------------------------------------------------------------------------
(* Time.                                                                   *)

AgedRow(r) ==
    [r EXCEPT !.due_in   = IF r.status = "Pending" /\ @ > 0 THEN @ - 1 ELSE @,
              !.lock_age = IF r.status = "Running" THEN Min2(@ + 1, OrphanTimeout + 1) ELSE @,
              !.done_age = IF r.status \in {"Done", "Failed"} THEN Min2(@ + 1, Retention + 1) ELSE @]

AgedExec(e) ==
    IF e.phase = "running" THEN [e EXCEPT !.age = @ + 1] ELSE [e EXCEPT !.lag = @ + 1]

\* Faulty form of MayAge: the handler runs without a timeout.
MayAgeUnbounded(e) == e.phase = "running" \/ e.lag < MaxLag

\* No handler outlives Timeout and no execution lags longer than MaxLag.
MayAge(e) == IF e.phase = "running" THEN e.age < Timeout ELSE e.lag < MaxLag

Tick ==
    /\ \A e \in execs : MayAge(e)
    /\ rows' = [j \in Jobs |-> AgedRow(rows[j])]
    /\ execs' = {AgedExec(e) : e \in execs}
    /\ UNCHANGED <<mode, faults, history>>

-----------------------------------------------------------------------------
RunOneJob(e) ==
    \/ CallHandler(e)
    \/ HandlerOk(e)
    \/ HandlerErr(e)
    \/ MarkDone(e)
    \/ FinishFailure(e)

Next ==
    \/ \E j \in Jobs : EnqueueAfter(j)
    \/ \E p \in Procs : FetchDue(p)
    \/ \E e \in execs : RunOneJob(e)
    \/ \E e \in execs : WriteFails(e)
    \/ \E e \in execs : HandlerPanics(e)
    \/ \E p \in Procs : ReenqueueOrphaned(p)
    \/ DeleteFinishedOlderThan
    \/ \E p \in Procs : Crash(p)
    \/ \E p \in Procs : Shutdown(p)
    \/ \E p \in Procs : Drained(p)
    \/ \E p \in Procs : Start(p)
    \/ Tick

Spec == Init /\ [][Next]_vars

(***************************************************************************)
(* Time passes, a live process polls, sweeps and finishes what it runs,    *)
(* and a process that went down is started again.  Callers need not        *)
(* enqueue and nothing forces a disturbance.                               *)
(***************************************************************************)
Fairness ==
    /\ WF_vars(Tick)
    /\ WF_vars(\E e \in execs : RunOneJob(e))
    /\ \A p \in Procs : /\ WF_vars(FetchDue(p))
                        /\ WF_vars(ReenqueueOrphaned(p))
                        /\ WF_vars(Drained(p))
                        /\ WF_vars(Start(p))

FairSpec == Spec /\ Fairness

-----------------------------------------------------------------------------
(* Properties.                                                             *)

\* The type invariant: rows, executions and counters stay in their ranges;
\* in particular a row never records more than max_attempts failures.
TypeOK ==
    /\ rows \in [Jobs -> Row]
    /\ \A j \in Jobs : rows[j].attempts <= MaxAttempts
    /\ execs \subseteq Exec
    /\ mode \in [Procs -> Mode]
    /\ faults \in Nat
    /\ runs \in [Jobs -> Nat]
    /\ lost \in [Jobs -> Nat]
    /\ oks \subseteq Jobs

\* A row still to be run has failures left, and so has every execution.
AttemptsLeft ==
    /\ \A j \in Jobs : rows[j].status \in {"Absent", "Pending", "Running"} =>
                         rows[j].attempts < MaxAttempts
    /\ \A j \in Jobs : rows[j].status = "Absent" => rows[j].attempts = 0
    /\ \A e \in execs : e.attempts < MaxAttempts

\* The regime in which a lease outlives its execution: orphan_timeout is at
\* least TIMEOUT plus everything that can delay the final write.
Slack == Timeout + MaxLag <= OrphanTimeout

\* A job is never executed twice at the same time, whatever process crashed,
\* was restarted or swept: no two executions between fetch_due and their
\* final write are of the same row.
SingleExecution == \A e, f \in execs : e.job = f.job => e = f

\* An execution always works on a row that is still its own: Running, with
\* the attempts it read and the lock_at it wrote.
LeaseHeld ==
    \A e \in execs : /\ rows[e.job].status = "Running"
                     /\ rows[e.job].attempts = e.attempts
                     /\ rows[e.job].lock_age = e.age + e.lag

\* Every handler call is accounted for: beyond the recorded failures and the
\* calls lost to a crash, a panic or a failed write, a job was called at
\* most once more.
RunsAccounted == \A j \in Jobs : runs[j] <= rows[j].attempts + lost[j] + 1

\* The inductive form of the above: the one extra call is in progress, or
\* it is the one that made the row Done.
Called(j) == \E e \in execs : e.job = j /\ e.phase # "claimed"

RunsBooked ==
    \A j \in Jobs : runs[j] <= rows[j].attempts + lost[j] +
        (IF Called(j) \/ rows[j].status \in {"Done", "Deleted"} THEN 1 ELSE 0)

\* What the executions of a Slack configuration satisfy.
ExecsBounded ==
    \A e \in execs : /\ e.age <= Timeout
                     /\ e.lag <= MaxLag
                     /\ e.phase = "succeeded" => e.job \in oks

\* The inductive invariant of a Slack configuration.
IInv ==
    /\ TypeOK
    /\ AttemptsLeft
    /\ SingleExecution
    /\ LeaseHeld
    /\ ExecsBounded
    /\ RunsBooked

\* Done and Failed are final: a late mark_done, schedule_retry or mark_failed,
\* which all update by id alone, never moves a finished row.
FinishedStays ==
    [][\A j \in Jobs : rows[j].status \in {"Done", "Failed"} =>
          rows'[j].status \in {rows[j].status, "Deleted"}]_vars

\* The queue keeps the promise of JobContract: Done only after a handler
\* call returned Ok, Failed only after max_attempts recorded failures.
ContractState(s) ==
    CASE s = "Absent" -> "none"
      [] s \in {"Pending", "Running"} -> "open"
      [] s = "Done" -> "done"
      [] s = "Failed" -> "failed"
      [] s = "Deleted" -> "gone"

Contract == INSTANCE JobContract WITH
    state <- [j \in Jobs |-> ContractState(rows[j].status)],
    tries <- [j \in Jobs |-> rows[j].attempts]

KeepsContract == Contract!Spec

\* Every enqueued job is eventually finished, through any finite number of
\* crashes, shutdowns, panics and failed writes: the poll loop, the backoff
\* and the orphan sweep leave no row behind.
EventuallyFinished ==
    \A j \in Jobs : (rows[j].status = "Pending") ~> (rows[j].status \in {"Done", "Failed", "Deleted"})

-----------------------------------------------------------------------------
(* What the documentation says of the queue and the code does not do.      *)

\* lib.rs, Job: "总执行次数上限 = RETRIES + 1", the handler of a job is called
\* at most max_attempts times.
TotalRunsLimit == \A j \in Jobs : runs[j] <= MaxAttempts

\* lib.rs, Job::CONCURRENCY: "该 job_type 的最大并行执行数", at most
\* CONCURRENCY handlers of the job_type run at the same time.
ParallelismLimit == Cardinality({e \in execs : e.phase = "running"}) <= Concurrency
=============================================================================
