-------------------------- MODULE Platform_proofs ---------------------------
(***************************************************************************)
(* Theorems about JobQueue, for every number of jobs and processes and     *)
(* every value of the timing constants, and about KvStore, for every back  *)
(* end, every set of keys, values and callers and any two clocks.          *)
(***************************************************************************)
EXTENDS MCPlatform, TLAPS

LEMMA BackoffIsNat ==
    ASSUME NEW n
    PROVE  BackoffDelay(n) \in Nat
BY JobQueueAssumption DEF BackoffDelay

-----------------------------------------------------------------------------
(* Type correctness, in every configuration.                               *)

TypeInv == TypeOK /\ AttemptsLeft

LEMMA InitTypeInv == Init => TypeInv
BY JobQueueAssumption
   DEF Init, TypeInv, TypeOK, AttemptsLeft, Row, NoRow, Status, Mode

\* A write by id keeps the table well typed.
LEMMA WriteRowType ==
    ASSUME TypeInv, NEW j \in Jobs, NEW row \in Row, WriteRow(j, row),
           row.attempts <= MaxAttempts,
           row.status \in {"Pending", "Running"} => row.attempts < MaxAttempts,
           row.status # "Absent"
    PROVE  /\ rows' \in [Jobs -> Row]
           /\ \A i \in Jobs : rows'[i].attempts <= MaxAttempts
           /\ \A i \in Jobs : rows'[i].status = "Absent" => rows'[i].attempts = 0
           /\ \A i \in Jobs : rows'[i].status \in {"Absent", "Pending", "Running"} =>
                                rows'[i].attempts < MaxAttempts
BY DEF WriteRow, TypeInv, TypeOK, AttemptsLeft

\* Time changes only the timers of a row and of an execution.
LEMMA AgedRowType ==
    ASSUME NEW r \in Row
    PROVE  /\ AgedRow(r) \in Row
           /\ AgedRow(r).status = r.status
           /\ AgedRow(r).attempts = r.attempts
           /\ r.status = "Running" => AgedRow(r).lock_age = Min2(r.lock_age + 1, OrphanTimeout + 1)
<1> DEFINE due == IF r.status = "Pending" /\ r.due_in > 0 THEN r.due_in - 1 ELSE r.due_in
           lock == IF r.status = "Running" THEN Min2(r.lock_age + 1, OrphanTimeout + 1) ELSE r.lock_age
           done == IF r.status \in {"Done", "Failed"} THEN Min2(r.done_age + 1, Retention + 1)
                   ELSE r.done_age
<1>1. AgedRow(r) = [r EXCEPT !.due_in = due, !.lock_age = lock, !.done_age = done]
  BY DEF AgedRow, Row
<1>2. due \in Nat /\ lock \in Nat /\ done \in Nat
  BY JobQueueAssumption DEF Row, Min2
<1>3. r.status = "Running" => lock = Min2(r.lock_age + 1, OrphanTimeout + 1)
  OBVIOUS
<1> HIDE DEF due, lock, done
<1>4. QED
  BY <1>1, <1>2, <1>3 DEF Row

LEMMA AgedExecType ==
    ASSUME NEW e \in Exec
    PROVE  /\ AgedExec(e) \in Exec
           /\ AgedExec(e).proc = e.proc
           /\ AgedExec(e).job = e.job
           /\ AgedExec(e).phase = e.phase
           /\ AgedExec(e).attempts = e.attempts
           /\ AgedExec(e).age + AgedExec(e).lag = e.age + e.lag + 1
BY DEF AgedExec, Exec

LEMMA StepTypeInv == TypeInv /\ [Next]_vars => TypeInv'
<1> SUFFICES ASSUME TypeInv, [Next]_vars PROVE TypeInv'
  OBVIOUS
<1> USE JobQueueAssumption
<1>1. ASSUME NEW j \in Jobs, EnqueueAfter(j) PROVE TypeInv'
  <2>1. PICK delay \in 0..MaxDelay :
          rows' = [rows EXCEPT ![j] = [NoRow EXCEPT !.status = "Pending", !.due_in = delay]]
    BY <1>1 DEF EnqueueAfter
  <2> DEFINE row == [NoRow EXCEPT !.status = "Pending", !.due_in = delay]
  <2>2. NoRow \in Row /\ NoRow.attempts = 0
    BY DEF Row, NoRow, Status
  <2>3. row \in Row /\ row.attempts = 0
    <3> delay \in Nat
      OBVIOUS
    <3> QED
      BY <2>2, Zenon DEF Row, Status
  <2>4. rows' = [rows EXCEPT ![j] = row]
    BY <2>1
  <2> HIDE DEF row
  <2>5. /\ rows' \in [Jobs -> Row]
        /\ \A i \in Jobs : i # j => rows'[i] = rows[i]
        /\ rows'[j] = row
    BY <2>3, <2>4 DEF TypeInv, TypeOK
  <2>6. UNCHANGED <<execs, mode, faults, runs, lost, oks>>
    BY <1>1 DEF EnqueueAfter, history
  <2>7. QED
    BY <2>3, <2>5, <2>6 DEF TypeInv, TypeOK, AttemptsLeft
<1>2. ASSUME NEW p \in Procs, FetchDue(p) PROVE TypeInv'
  <2> DEFINE run(j) == [rows[j] EXCEPT !.status = "Running", !.lock_age = 0]
             claim(j) == [proc |-> p, job |-> j, attempts |-> rows[j].attempts,
                          phase |-> "claimed", age |-> 0, lag |-> 0]
  <2>1. PICK S \in SUBSET Due :
          /\ rows' = [j \in Jobs |-> IF j \in S THEN run(j) ELSE rows[j]]
          /\ execs' = execs \cup {claim(j) : j \in S}
    BY <1>2 DEF FetchDue
  <2>2. \A j \in S : /\ j \in Jobs
                     /\ rows[j].status = "Pending"
    BY DEF Due
  <2>3. \A j \in S : /\ run(j) \in Row
                     /\ run(j).status = "Running"
                     /\ run(j).attempts = rows[j].attempts
                     /\ claim(j) \in Exec
                     /\ claim(j).attempts = rows[j].attempts
    BY <2>2 DEF TypeInv, TypeOK, Row, Status, Exec, Phase
  <2> HIDE DEF run, claim
  <2>4. /\ rows' \in [Jobs -> Row]
        /\ \A j \in Jobs : rows'[j].attempts = rows[j].attempts
        /\ \A j \in Jobs : \/ rows'[j].status = rows[j].status
                           \/ rows[j].status = "Pending" /\ rows'[j].status = "Running"
    <3>1. rows' \in [Jobs -> Row]
      BY <2>1, <2>3 DEF TypeInv, TypeOK
    <3>2. \A j \in Jobs : j \in S => rows'[j] = run(j)
      BY <2>1
    <3>3. \A j \in Jobs : j \notin S => rows'[j] = rows[j]
      BY <2>1
    <3>4. ASSUME NEW j \in Jobs
          PROVE  /\ rows'[j].attempts = rows[j].attempts
                 /\ \/ rows'[j].status = rows[j].status
                    \/ rows[j].status = "Pending" /\ rows'[j].status = "Running"
      <4>1. CASE j \in S
        BY <4>1, <2>2, <2>3, <3>2
      <4>2. CASE j \notin S
        BY <4>2, <3>3
      <4>3. QED
        BY <4>1, <4>2
    <3>5. QED
      BY <3>1, <3>4
  <2>5. /\ execs' \subseteq Exec
        /\ \A e \in execs' : e.attempts < MaxAttempts
    <3>1. ASSUME NEW e \in execs' PROVE e \in Exec /\ e.attempts < MaxAttempts
      <4>1. CASE e \in execs
        BY <4>1 DEF TypeInv, TypeOK, AttemptsLeft
      <4>2. CASE \E j \in S : e = claim(j)
        BY <4>2, <2>2, <2>3 DEF TypeInv, AttemptsLeft
      <4>3. QED
        BY <2>1, <4>1, <4>2
    <3>2. QED
      BY <3>1
  <2>6. UNCHANGED <<mode, faults, runs, lost, oks>>
    BY <1>2 DEF FetchDue, history
  <2>7. QED
    BY <2>4, <2>5, <2>6 DEF TypeInv, TypeOK, AttemptsLeft
<1>3. ASSUME NEW e \in execs, RunOneJob(e) PROVE TypeInv'
  <2> e \in Exec
    BY DEF TypeInv, TypeOK
  <2>1. CASE CallHandler(e)
    BY <2>1 DEF CallHandler, Advance, TypeInv, TypeOK, AttemptsLeft, Exec, Phase
  <2>2. CASE HandlerOk(e)
    BY <2>2 DEF HandlerOk, Advance, TypeInv, TypeOK, AttemptsLeft, Exec, Phase
  <2>3. CASE HandlerErr(e)
    BY <2>3 DEF HandlerErr, Advance, TypeInv, TypeOK, AttemptsLeft, Exec, Phase, history
  <2>4. CASE MarkDone(e)
    <3> DEFINE row == [rows[e.job] EXCEPT !.status = "Done", !.lock_age = 0, !.done_age = 0]
    <3>1. /\ row \in Row
          /\ row.attempts <= MaxAttempts
          /\ row.status = "Done"
      BY DEF TypeInv, TypeOK, Row, Status, Exec
    <3>2. QED
      BY <2>4, <3>1, WriteRowType DEF MarkDone, TypeInv, TypeOK, AttemptsLeft, Exec, history
  <2>5. CASE FinishFailure(e)
    <3> DEFINE n == e.attempts + 1
               retry == [rows[e.job] EXCEPT !.status = "Pending", !.attempts = n,
                           !.due_in = BackoffDelay(n), !.lock_age = 0, !.done_age = 0]
               fail  == [rows[e.job] EXCEPT !.status = "Failed", !.attempts = n,
                           !.lock_age = 0, !.done_age = 0]
    <3>1. n \in Nat /\ n <= MaxAttempts /\ e.job \in Jobs
      BY DEF TypeInv, TypeOK, AttemptsLeft, Exec
    <3>2. retry \in Row /\ retry.attempts = n /\ retry.status = "Pending"
      BY <3>1, BackoffIsNat DEF TypeInv, TypeOK, Row, Status
    <3>3. fail \in Row /\ fail.attempts = n /\ fail.status = "Failed"
      BY <3>1 DEF TypeInv, TypeOK, Row, Status
    <3>4. \/ n < MaxAttempts /\ WriteRow(e.job, retry)
          \/ WriteRow(e.job, fail)
      BY <2>5 DEF FinishFailure, ScheduleRetry, MarkFailed
    <3> HIDE DEF retry, fail, n
    <3>5. /\ rows' \in [Jobs -> Row]
          /\ \A i \in Jobs : rows'[i].attempts <= MaxAttempts
          /\ \A i \in Jobs : rows'[i].status = "Absent" => rows'[i].attempts = 0
          /\ \A i \in Jobs : rows'[i].status \in {"Absent", "Pending", "Running"} =>
                                rows'[i].attempts < MaxAttempts
      BY <3>1, <3>2, <3>3, <3>4, WriteRowType
    <3>6. QED
      BY <2>5, <3>5 DEF FinishFailure, TypeInv, TypeOK, AttemptsLeft, history
  <2>6. QED
    BY <1>3, <2>1, <2>2, <2>3, <2>4, <2>5 DEF RunOneJob
<1>4. ASSUME NEW e \in execs, WriteFails(e) PROVE TypeInv'
  BY <1>4 DEF WriteFails, Disturb, Lose, TypeInv, TypeOK, AttemptsLeft
<1>5. ASSUME NEW e \in execs, HandlerPanics(e) PROVE TypeInv'
  BY <1>5 DEF HandlerPanics, Disturb, Lose, TypeInv, TypeOK, AttemptsLeft
<1>6. ASSUME NEW p \in Procs, ReenqueueOrphaned(p) PROVE TypeInv'
  <2>1. /\ rows' \in [Jobs -> Row]
        /\ \A j \in Jobs : rows'[j].attempts = rows[j].attempts
        /\ \A j \in Jobs : \/ rows'[j].status = rows[j].status
                           \/ rows[j].status = "Running" /\ rows'[j].status = "Pending"
    <3>1. rows' \in [Jobs -> Row]
      BY <1>6 DEF ReenqueueOrphaned, TypeInv, TypeOK, Row, Status
    <3>2. ASSUME NEW j \in Jobs
          PROVE  /\ rows'[j].attempts = rows[j].attempts
                 /\ \/ rows'[j].status = rows[j].status
                    \/ rows[j].status = "Running" /\ rows'[j].status = "Pending"
      BY <1>6 DEF ReenqueueOrphaned, Orphaned, TypeInv, TypeOK, Row, Status
    <3>3. QED
      BY <3>1, <3>2
  <2>2. UNCHANGED <<execs, mode, faults, runs, lost, oks>>
    BY <1>6 DEF ReenqueueOrphaned, history
  <2>3. QED
    BY <2>1, <2>2 DEF TypeInv, TypeOK, AttemptsLeft
<1>7. ASSUME DeleteFinishedOlderThan PROVE TypeInv'
  <2>1. PICK S \in SUBSET Expired :
          rows' = [j \in Jobs |-> IF j \in S THEN [rows[j] EXCEPT !.status = "Deleted"] ELSE rows[j]]
    BY <1>7 DEF DeleteFinishedOlderThan
  <2>2. /\ rows' \in [Jobs -> Row]
        /\ \A j \in Jobs : rows'[j].attempts = rows[j].attempts
        /\ \A j \in Jobs : rows'[j].status \in {rows[j].status, "Deleted"}
    BY <2>1 DEF TypeInv, TypeOK, Row, Status
  <2>3. UNCHANGED <<execs, mode, faults, runs, lost, oks>>
    BY <1>7 DEF DeleteFinishedOlderThan, history
  <2>4. QED
    BY <2>2, <2>3 DEF TypeInv, TypeOK, AttemptsLeft
<1>8. ASSUME NEW p \in Procs, Crash(p) PROVE TypeInv'
  BY <1>8 DEF Crash, Disturb, Lose, InFlight, TypeInv, TypeOK, AttemptsLeft, Mode
<1>9. ASSUME NEW p \in Procs, Shutdown(p) PROVE TypeInv'
  BY <1>9 DEF Shutdown, Disturb, TypeInv, TypeOK, AttemptsLeft, Mode, history
<1>10. ASSUME NEW p \in Procs, Drained(p) PROVE TypeInv'
  BY <1>10 DEF Drained, TypeInv, TypeOK, AttemptsLeft, Mode, history
<1>11. ASSUME NEW p \in Procs, Start(p) PROVE TypeInv'
  BY <1>11 DEF Start, TypeInv, TypeOK, AttemptsLeft, Mode, history
<1>12. ASSUME Tick PROVE TypeInv'
  <2>1. \A r \in Row : /\ AgedRow(r) \in Row
                       /\ AgedRow(r).status = r.status
                       /\ AgedRow(r).attempts = r.attempts
    BY AgedRowType
  <2>2. \A e \in Exec : AgedExec(e) \in Exec /\ AgedExec(e).attempts = e.attempts
    BY AgedExecType
  <2>3. QED
    BY <1>12, <2>1, <2>2 DEF Tick, TypeInv, TypeOK, AttemptsLeft, history
<1>13. CASE UNCHANGED vars
  BY <1>13 DEF vars, TypeInv, TypeOK, AttemptsLeft
<1>14. QED
  BY <1>1, <1>2, <1>3, <1>4, <1>5, <1>6, <1>7, <1>8, <1>9, <1>10, <1>11, <1>12, <1>13 DEF Next

\* Rows, executions and counters keep their types, and no row ever records
\* more failures than max_attempts, in every configuration.
THEOREM TypeCorrect == Spec => []TypeOK
<1>1. TypeInv => TypeOK
  BY DEF TypeInv
<1>2. QED
  BY <1>1, InitTypeInv, StepTypeInv, PTL DEF Spec

-----------------------------------------------------------------------------
(***************************************************************************)
(* Leases.  While an execution is in flight its row carries the lock it    *)
(* took, and the age of that lock is the age of the execution, at most     *)
(* Timeout + MaxLag.  With Slack the orphan sweep can therefore only take  *)
(* a row whose execution is gone.                                          *)
(***************************************************************************)
LeaseInv == SingleExecution /\ LeaseHeld /\ ExecsBounded /\ RunsBooked

LEMMA InitLease == Init => LeaseInv
BY DEF Init, LeaseInv, SingleExecution, LeaseHeld, ExecsBounded, RunsBooked, Called, NoRow

\* A Pending or finished row has no execution, an execution has no rival.
LEMMA NoExec ==
    ASSUME LeaseInv, NEW j \in Jobs, rows[j].status # "Running"
    PROVE  \A e \in execs : e.job # j
BY DEF LeaseInv, LeaseHeld

LEMMA FetchLease ==
    ASSUME TypeInv, LeaseInv, NEW p \in Procs, FetchDue(p)
    PROVE  LeaseInv'
<1> DEFINE run(j) == [rows[j] EXCEPT !.status = "Running", !.lock_age = 0]
           claim(j) == [proc |-> p, job |-> j, attempts |-> rows[j].attempts,
                        phase |-> "claimed", age |-> 0, lag |-> 0]
<1>1. PICK S \in SUBSET Due :
        /\ rows' = [j \in Jobs |-> IF j \in S THEN run(j) ELSE rows[j]]
        /\ execs' = execs \cup {claim(j) : j \in S}
  BY DEF FetchDue
<1>2. /\ UNCHANGED <<runs, lost, oks>>
      /\ S \subseteq Jobs
      /\ \A j \in S : rows[j].status = "Pending"
  BY DEF FetchDue, history, Due
<1>3. \A j \in S : /\ rows'[j].status = "Running"
                   /\ rows'[j].attempts = rows[j].attempts
                   /\ rows'[j].lock_age = 0
  BY <1>1, <1>2 DEF TypeInv, TypeOK, Row
<1>4. \A j \in Jobs \ S : rows'[j] = rows[j]
  BY <1>1
<1>5. \A e \in execs : e.job \in Jobs \ S
  BY <1>2, NoExec DEF TypeInv, TypeOK, Exec
<1>6. \A j \in S : /\ claim(j).job = j /\ claim(j).attempts = rows[j].attempts
                   /\ claim(j).phase = "claimed" /\ claim(j).age = 0 /\ claim(j).lag = 0
  OBVIOUS
<1>7. \A e \in execs' : e \in execs \/ \E j \in S : e = claim(j)
  BY <1>1
<1>8. \A e \in execs : e \in execs'
  BY <1>1
<1> HIDE DEF run, claim
<1>9. SingleExecution'
  BY <1>5, <1>6, <1>7 DEF LeaseInv, SingleExecution
<1>10. LeaseHeld'
  BY <1>3, <1>4, <1>5, <1>6, <1>7 DEF LeaseInv, LeaseHeld
<1>11. ExecsBounded'
  BY <1>2, <1>6, <1>7, JobQueueAssumption DEF LeaseInv, ExecsBounded
<1>12. RunsBooked'
  <2> SUFFICES ASSUME NEW j \in Jobs
               PROVE  runs'[j] <= rows'[j].attempts + lost'[j] +
                        (IF Called(j)' \/ rows'[j].status \in {"Done", "Deleted"} THEN 1 ELSE 0)
    BY DEF RunsBooked
  <2>1. rows'[j].attempts = rows[j].attempts /\ rows[j].attempts \in Nat /\ lost[j] \in Nat
        /\ runs[j] \in Nat
    BY <1>3, <1>4 DEF TypeInv, TypeOK, Row
  <2>2. Called(j) => Called(j)'
    BY <1>8 DEF Called
  <2>3. rows[j].status \in {"Done", "Deleted"} => rows'[j].status = rows[j].status
    BY <1>2, <1>4
  <2>4. QED
    BY <1>2, <2>1, <2>2, <2>3 DEF LeaseInv, RunsBooked
<1>13. QED
  BY <1>9, <1>10, <1>11, <1>12 DEF LeaseInv

\* An execution that moves to its next stage keeps its lease.
LEMMA AdvanceLease ==
    ASSUME TypeInv, LeaseInv, NEW e \in execs, NEW phase \in Phase, Advance(e, phase),
           UNCHANGED rows
    PROVE  /\ SingleExecution' /\ LeaseHeld'
           /\ \A f \in execs' : f \in execs \/ (f.job = e.job /\ f.age = e.age /\ f.lag = e.lag
                                               /\ f.phase = phase)
           /\ \A j \in Jobs : j # e.job => (Called(j)' <=> Called(j))
           /\ Called(e.job)' <=> phase # "claimed"
<1> DEFINE f == [e EXCEPT !.phase = phase]
<1>1. execs' = (execs \ {e}) \cup {f}
  BY DEF Advance
<1>2. /\ e \in Exec
      /\ f.job = e.job /\ f.attempts = e.attempts /\ f.age = e.age /\ f.lag = e.lag
      /\ f.phase = phase
  BY DEF TypeInv, TypeOK, Exec
<1>3. \A g \in execs : g.job = e.job => g = e
  BY DEF LeaseInv, SingleExecution
<1> HIDE DEF f
<1>4. SingleExecution'
  BY <1>1, <1>2, <1>3 DEF LeaseInv, SingleExecution
<1>5. LeaseHeld'
  BY <1>1, <1>2 DEF LeaseInv, LeaseHeld
<1>6. \A g \in execs' : g \in execs \/ (g.job = e.job /\ g.age = e.age /\ g.lag = e.lag
                                        /\ g.phase = phase)
  BY <1>1, <1>2
<1>7. \A j \in Jobs : j # e.job => (Called(j)' <=> Called(j))
  BY <1>1, <1>2 DEF Called
<1>8. Called(e.job)' <=> phase # "claimed"
  BY <1>1, <1>2, <1>3 DEF Called
<1>9. QED
  BY <1>4, <1>5, <1>6, <1>7, <1>8

LEMMA CallHandlerLease ==
    ASSUME TypeInv, LeaseInv, NEW e \in execs, CallHandler(e)
    PROVE  LeaseInv'
<1>1. /\ e.job \in Jobs /\ e.phase = "claimed"
      /\ Advance(e, "running")
      /\ UNCHANGED <<rows, lost, oks>>
      /\ runs' = [runs EXCEPT ![e.job] = @ + 1]
  BY DEF CallHandler, TypeInv, TypeOK, Exec
<1>2. /\ SingleExecution' /\ LeaseHeld'
      /\ \A f \in execs' : f \in execs \/ (f.job = e.job /\ f.age = e.age /\ f.lag = e.lag
                                               /\ f.phase = "running")
      /\ \A j \in Jobs : j # e.job => (Called(j)' <=> Called(j))
      /\ Called(e.job)'
  BY <1>1, AdvanceLease DEF Phase
<1>3. ExecsBounded'
  BY <1>1, <1>2 DEF LeaseInv, ExecsBounded
<1>4. ~ Called(e.job) /\ rows[e.job].status = "Running"
  BY <1>1 DEF LeaseInv, LeaseHeld, SingleExecution, Called
<1>5. RunsBooked'
  <2> SUFFICES ASSUME NEW j \in Jobs
               PROVE  runs'[j] <= rows[j].attempts + lost[j] +
                        (IF Called(j)' \/ rows[j].status \in {"Done", "Deleted"} THEN 1 ELSE 0)
    BY <1>1 DEF RunsBooked
  <2>1. rows[j].attempts \in Nat /\ lost[j] \in Nat /\ runs[j] \in Nat
    BY DEF TypeInv, TypeOK, Row
  <2>2. runs[j] <= rows[j].attempts + lost[j] +
                        (IF Called(j) \/ rows[j].status \in {"Done", "Deleted"} THEN 1 ELSE 0)
    BY DEF LeaseInv, RunsBooked
  <2>3. CASE j = e.job
    BY <2>3, <2>1, <2>2, <1>1, <1>2, <1>4 DEF TypeInv, TypeOK
  <2>4. CASE j # e.job
    BY <2>4, <2>1, <2>2, <1>1, <1>2 DEF TypeInv, TypeOK
  <2>5. QED
    BY <2>3, <2>4
<1>6. QED
  BY <1>2, <1>3, <1>5 DEF LeaseInv

\* The handler has returned: the execution waits for its outcome to be written.
LEMMA HandlerEndLease ==
    ASSUME TypeInv, LeaseInv, NEW e \in execs, HandlerOk(e) \/ HandlerErr(e)
    PROVE  LeaseInv'
<1>1. PICK phase \in {"succeeded", "failed"} :
        /\ Advance(e, phase)
        /\ phase = "succeeded" => e.job \in oks'
  BY DEF HandlerOk, HandlerErr
<1>2. /\ e.job \in Jobs /\ e.phase = "running"
      /\ UNCHANGED <<rows, runs, lost>> /\ oks \subseteq oks'
  BY DEF HandlerOk, HandlerErr, history, TypeInv, TypeOK, Exec
<1>3. /\ SingleExecution' /\ LeaseHeld'
      /\ \A f \in execs' : f \in execs \/ (f.job = e.job /\ f.age = e.age /\ f.lag = e.lag
                                               /\ f.phase = phase)
      /\ \A j \in Jobs : j # e.job => (Called(j)' <=> Called(j))
      /\ Called(e.job)'
  BY <1>1, <1>2, AdvanceLease DEF Phase
<1>4. ExecsBounded'
  BY <1>1, <1>2, <1>3 DEF LeaseInv, ExecsBounded
<1>5. Called(e.job)
  BY <1>2 DEF Called
<1>6. RunsBooked'
  <2>1. \A j \in Jobs : Called(j)' <=> Called(j)
    BY <1>3, <1>5
  <2>2. QED
    BY <1>2, <2>1 DEF LeaseInv, RunsBooked
<1>7. QED
  BY <1>3, <1>4, <1>6 DEF LeaseInv

\* An execution ends with a write to its own row.
LEMMA WriteLease ==
    ASSUME TypeInv, LeaseInv, NEW e \in execs, MarkDone(e) \/ FinishFailure(e)
    PROVE  LeaseInv'
<1>1. /\ e.job \in Jobs /\ e.phase # "claimed" /\ e.attempts \in Nat
      /\ execs' = execs \ {e}
      /\ UNCHANGED <<runs, lost, oks>>
  BY DEF MarkDone, FinishFailure, history, TypeInv, TypeOK, Exec
<1>2. rows[e.job].status = "Running" /\ rows[e.job].attempts = e.attempts
  BY DEF LeaseInv, LeaseHeld
<1>3. /\ \A j \in Jobs \ {e.job} : rows'[j] = rows[j]
      /\ \/ rows'[e.job].status = "Done" /\ rows'[e.job].attempts = e.attempts
         \/ rows'[e.job].attempts = e.attempts + 1
  <2> rows[e.job] \in Row /\ rows \in [Jobs -> Row]
    BY <1>1 DEF TypeInv, TypeOK
  <2>1. CASE MarkDone(e)
    BY <1>1, <1>2, <2>1 DEF MarkDone, WriteRow, Row
  <2>2. CASE FinishFailure(e)
    <3> DEFINE n == e.attempts + 1
               retry == [rows[e.job] EXCEPT !.status = "Pending", !.attempts = n,
                           !.due_in = BackoffDelay(n), !.lock_age = 0, !.done_age = 0]
               fail  == [rows[e.job] EXCEPT !.status = "Failed", !.attempts = n,
                           !.lock_age = 0, !.done_age = 0]
    <3>1. retry.attempts = n /\ fail.attempts = n
      BY DEF Row
    <3>2. \/ rows' = [rows EXCEPT ![e.job] = retry]
          \/ rows' = [rows EXCEPT ![e.job] = fail]
      BY <2>2, <1>2 DEF FinishFailure, ScheduleRetry, MarkFailed, WriteRow
    <3> HIDE DEF retry, fail
    <3>3. QED
      BY <1>1, <3>1, <3>2
  <2>3. QED
    BY <2>1, <2>2
<1>4. \A f \in execs' : f \in execs /\ f.job \in Jobs \ {e.job}
  BY <1>1 DEF LeaseInv, SingleExecution, TypeInv, TypeOK, Exec
<1>5. SingleExecution' /\ LeaseHeld' /\ ExecsBounded'
  BY <1>1, <1>3, <1>4 DEF LeaseInv, SingleExecution, LeaseHeld, ExecsBounded
<1>6. RunsBooked'
  <2> SUFFICES ASSUME NEW j \in Jobs
               PROVE  runs[j] <= rows'[j].attempts + lost[j] +
                        (IF Called(j)' \/ rows'[j].status \in {"Done", "Deleted"} THEN 1 ELSE 0)
    BY <1>1 DEF RunsBooked
  <2>1. rows[j].attempts \in Nat /\ lost[j] \in Nat /\ runs[j] \in Nat
    BY DEF TypeInv, TypeOK, Row
  <2>2. runs[j] <= rows[j].attempts + lost[j] +
                        (IF Called(j) \/ rows[j].status \in {"Done", "Deleted"} THEN 1 ELSE 0)
    BY DEF LeaseInv, RunsBooked
  <2>3. CASE j = e.job
    BY <2>3, <2>1, <2>2, <1>2, <1>3
  <2>4. CASE j # e.job
    <3>1. Called(j) => Called(j)'
      BY <2>4, <1>1 DEF Called
    <3>2. QED
      BY <2>4, <2>1, <2>2, <1>3, <3>1
  <2>5. QED
    BY <2>3, <2>4
<1>7. QED
  BY <1>5, <1>6 DEF LeaseInv

\* Executions that vanish without a write leave their rows locked.
LEMMA LoseLease ==
    ASSUME TypeInv, LeaseInv, NEW S \in SUBSET execs, Lose(S), UNCHANGED <<rows, runs, oks>>
    PROVE  LeaseInv'
<1>1. execs' = execs \ S
  BY DEF Lose
<1>2. SingleExecution' /\ LeaseHeld' /\ ExecsBounded'
  BY <1>1 DEF LeaseInv, SingleExecution, LeaseHeld, ExecsBounded
<1>3. RunsBooked'
  <2> SUFFICES ASSUME NEW j \in Jobs
               PROVE  runs[j] <= rows[j].attempts + lost'[j] +
                        (IF Called(j)' \/ rows[j].status \in {"Done", "Deleted"} THEN 1 ELSE 0)
    BY DEF RunsBooked
  <2>1. rows[j].attempts \in Nat /\ lost[j] \in Nat /\ runs[j] \in Nat
    BY DEF TypeInv, TypeOK, Row
  <2>2. runs[j] <= rows[j].attempts + lost[j] +
                        (IF Called(j) \/ rows[j].status \in {"Done", "Deleted"} THEN 1 ELSE 0)
    BY DEF LeaseInv, RunsBooked
  <2>3. CASE \E e \in S : e.job = j /\ e.phase # "claimed"
    <3>1. lost'[j] = lost[j] + 1
      BY <2>3 DEF Lose
    <3>2. QED
      BY <2>1, <2>2, <3>1
  <2>4. CASE ~ \E e \in S : e.job = j /\ e.phase # "claimed"
    <3>1. lost'[j] = lost[j]
      BY <2>4 DEF Lose
    <3>2. Called(j) => Called(j)'
      BY <2>4, <1>1 DEF Called
    <3>3. QED
      BY <2>1, <2>2, <3>1, <3>2
  <2>5. QED
    BY <2>3, <2>4
<1>4. QED
  BY <1>2, <1>3 DEF LeaseInv

\* A statement that leaves every row with an execution alone, and books no
\* call, keeps the leases.
LEMMA FrameLease ==
    ASSUME TypeInv, LeaseInv, UNCHANGED <<execs, runs, lost, oks>>,
           \A e \in execs : rows'[e.job] = rows[e.job],
           \A j \in Jobs : /\ rows'[j].attempts = rows[j].attempts
                           /\ rows[j].status \in {"Done", "Deleted"} =>
                                rows'[j].status \in {"Done", "Deleted"}
    PROVE  LeaseInv'
<1>1. SingleExecution' /\ LeaseHeld' /\ ExecsBounded'
  BY DEF LeaseInv, SingleExecution, LeaseHeld, ExecsBounded
<1>2. ASSUME NEW j \in Jobs
      PROVE  runs[j] <= rows'[j].attempts + lost[j] +
                        (IF Called(j)' \/ rows'[j].status \in {"Done", "Deleted"} THEN 1 ELSE 0)
  <2>1. rows[j].attempts \in Nat /\ lost[j] \in Nat /\ runs[j] \in Nat
    BY DEF TypeInv, TypeOK, Row
  <2>2. runs[j] <= rows[j].attempts + lost[j] +
                        (IF Called(j) \/ rows[j].status \in {"Done", "Deleted"} THEN 1 ELSE 0)
    BY DEF LeaseInv, RunsBooked
  <2>3. Called(j) <=> Called(j)'
    BY DEF Called
  <2>4. QED
    BY <2>1, <2>2, <2>3
<1>3. QED
  BY <1>1, <1>2 DEF LeaseInv, RunsBooked

LEMMA EnqueueLease ==
    ASSUME TypeInv, LeaseInv, NEW j \in Jobs, EnqueueAfter(j)
    PROVE  LeaseInv'
<1>1. PICK delay \in 0..MaxDelay :
        rows' = [rows EXCEPT ![j] = [NoRow EXCEPT !.status = "Pending", !.due_in = delay]]
  BY DEF EnqueueAfter
<1>2. rows[j].status = "Absent" /\ rows[j].attempts = 0
  BY DEF EnqueueAfter, TypeInv, AttemptsLeft
<1>3. [NoRow EXCEPT !.status = "Pending", !.due_in = delay].attempts = 0
  BY DEF NoRow
<1>4. \A i \in Jobs : i # j => rows'[i] = rows[i]
  BY <1>1 DEF TypeInv, TypeOK
<1>5. rows'[j].attempts = 0
  BY <1>1, <1>3 DEF TypeInv, TypeOK
<1>6. \A e \in execs : e.job \in Jobs /\ e.job # j
  BY <1>2, NoExec DEF TypeInv, TypeOK, Exec
<1>7. UNCHANGED <<execs, runs, lost, oks>>
  BY DEF EnqueueAfter, history
<1>8. QED
  BY <1>2, <1>4, <1>5, <1>6, <1>7, FrameLease

\* With Slack a row past orphan_timeout has no execution left.
LEMMA SweepLease ==
    ASSUME Slack, TypeInv, LeaseInv, NEW p \in Procs, ReenqueueOrphaned(p)
    PROVE  LeaseInv'
<1>1. \A e \in execs : e.job \in Jobs \ Orphaned
  BY JobQueueAssumption
     DEF Slack, Orphaned, LeaseInv, LeaseHeld, ExecsBounded, TypeInv, TypeOK, Exec
<1>2. \A j \in Jobs \ Orphaned : rows'[j] = rows[j]
  BY DEF ReenqueueOrphaned
<1>3. \A j \in Orphaned : /\ j \in Jobs /\ rows[j].status = "Running"
                          /\ rows'[j].attempts = rows[j].attempts
  BY DEF ReenqueueOrphaned, Orphaned, TypeInv, TypeOK, Row
<1>4. UNCHANGED <<execs, runs, lost, oks>>
  BY DEF ReenqueueOrphaned, history
<1>5. QED
  BY <1>1, <1>2, <1>3, <1>4, FrameLease

LEMMA DeleteLease ==
    ASSUME TypeInv, LeaseInv, DeleteFinishedOlderThan
    PROVE  LeaseInv'
<1>1. PICK S \in SUBSET Expired :
        rows' = [j \in Jobs |-> IF j \in S THEN [rows[j] EXCEPT !.status = "Deleted"] ELSE rows[j]]
  BY DEF DeleteFinishedOlderThan
<1>2. \A j \in Jobs \ S : rows'[j] = rows[j]
  BY <1>1
<1>3. \A j \in S : /\ j \in Jobs /\ rows[j].status \in {"Done", "Failed"}
                   /\ rows'[j].attempts = rows[j].attempts /\ rows'[j].status = "Deleted"
  BY <1>1 DEF Expired, TypeInv, TypeOK, Row
<1>4. \A e \in execs : e.job \in Jobs \ S
  BY <1>3, NoExec DEF TypeInv, TypeOK, Exec
<1>5. UNCHANGED <<execs, runs, lost, oks>>
  BY DEF DeleteFinishedOlderThan, history
<1>6. QED
  BY <1>2, <1>3, <1>4, <1>5, FrameLease

\* An execution and its lock age together.
LEMMA TickLease ==
    ASSUME Slack, TypeInv, LeaseInv, Tick
    PROVE  LeaseInv'
<1>1. /\ execs' = {AgedExec(e) : e \in execs}
      /\ \A e \in execs : MayAge(e)
      /\ \A j \in Jobs : rows'[j] = AgedRow(rows[j])
      /\ UNCHANGED <<runs, lost, oks>>
  BY DEF Tick, history
<1>2. \A e \in execs : e \in Exec /\ e.job \in Jobs
  BY DEF TypeInv, TypeOK, Exec
<1>3. \A e \in execs : /\ AgedExec(e).job = e.job
                       /\ AgedExec(e).phase = e.phase
                       /\ AgedExec(e).attempts = e.attempts
                       /\ AgedExec(e).age + AgedExec(e).lag = e.age + e.lag + 1
  BY <1>2, AgedExecType
<1>4. \A e \in execs : AgedExec(e).age <= Timeout /\ AgedExec(e).lag <= MaxLag
  BY <1>1, <1>2, JobQueueAssumption DEF AgedExec, MayAge, LeaseInv, ExecsBounded, Exec
<1>5. \A j \in Jobs : /\ rows'[j].status = rows[j].status
                      /\ rows'[j].attempts = rows[j].attempts
                      /\ rows[j].status = "Running" =>
                            rows'[j].lock_age = Min2(rows[j].lock_age + 1, OrphanTimeout + 1)
  BY <1>1, AgedRowType DEF TypeInv, TypeOK
<1>6. SingleExecution'
  BY <1>1, <1>3 DEF LeaseInv, SingleExecution
<1>7. LeaseHeld'
  <2> SUFFICES ASSUME NEW e \in execs
               PROVE  /\ rows'[e.job].status = "Running"
                      /\ rows'[e.job].attempts = AgedExec(e).attempts
                      /\ rows'[e.job].lock_age = AgedExec(e).age + AgedExec(e).lag
    BY <1>1, <1>3 DEF LeaseHeld
  <2>1. /\ rows[e.job].status = "Running"
        /\ rows[e.job].attempts = e.attempts
        /\ rows[e.job].lock_age = e.age + e.lag
    BY DEF LeaseInv, LeaseHeld
  <2>2. e.age + e.lag + 1 <= OrphanTimeout
    <3>1. AgedExec(e).age \in Nat /\ AgedExec(e).lag \in Nat
      BY <1>2, AgedExecType DEF Exec
    <3>2. QED
      BY <1>3, <1>4, <3>1, JobQueueAssumption DEF Slack
  <2>3. e.age \in Nat /\ e.lag \in Nat
    BY <1>2 DEF Exec
  <2>4. QED
    BY <1>2, <1>3, <1>5, <2>1, <2>2, <2>3, JobQueueAssumption DEF Min2
<1>8. ExecsBounded'
  BY <1>1, <1>3, <1>4 DEF LeaseInv, ExecsBounded
<1>9. \A j \in Jobs : Called(j)' <=> Called(j)
  BY <1>1, <1>3 DEF Called
<1>10. RunsBooked'
  BY <1>1, <1>5, <1>9 DEF LeaseInv, RunsBooked
<1>11. QED
  BY <1>6, <1>7, <1>8, <1>10 DEF LeaseInv

LEMMA StepLease ==
    ASSUME Slack, TypeInv, LeaseInv, [Next]_vars
    PROVE  LeaseInv'
<1>1. CASE \E j \in Jobs : EnqueueAfter(j)
  BY <1>1, EnqueueLease
<1>2. CASE \E p \in Procs : FetchDue(p)
  BY <1>2, FetchLease
<1>3. CASE \E e \in execs : RunOneJob(e)
  BY <1>3, CallHandlerLease, HandlerEndLease, WriteLease DEF RunOneJob
<1>4. CASE \E e \in execs : WriteFails(e) \/ HandlerPanics(e)
  BY <1>4, LoseLease DEF WriteFails, HandlerPanics
<1>5. CASE \E p \in Procs : ReenqueueOrphaned(p)
  BY <1>5, SweepLease
<1>6. CASE DeleteFinishedOlderThan
  BY <1>6, DeleteLease
<1>7. CASE \E p \in Procs : Crash(p)
  BY <1>7, LoseLease DEF Crash, InFlight
<1>8. CASE \E p \in Procs : Shutdown(p) \/ Drained(p) \/ Start(p)
  BY <1>8, FrameLease DEF Shutdown, Drained, Start, history
<1>9. CASE Tick
  BY <1>9, TickLease
<1>10. CASE UNCHANGED vars
  BY <1>10, FrameLease DEF vars
<1>11. QED
  BY <1>1, <1>2, <1>3, <1>4, <1>5, <1>6, <1>7, <1>8, <1>9, <1>10 DEF Next

LEMMA LeaseInvariant == Slack /\ Spec => [](TypeInv /\ LeaseInv)
<1>1. CASE Slack
  <2>1. Init => TypeInv /\ LeaseInv
    BY InitTypeInv, InitLease
  <2>2. TypeInv /\ LeaseInv /\ [Next]_vars => (TypeInv /\ LeaseInv)'
    BY <1>1, StepTypeInv, StepLease
  <2>3. QED
    BY <2>1, <2>2, PTL DEF Spec
<1>2. QED
  BY <1>1

\* The inductive invariant as a whole: the leases, who holds them and how every
\* call is booked.
THEOREM QueueInvariant == Slack /\ Spec => []IInv
<1>1. TypeInv /\ LeaseInv => IInv
  BY DEF TypeInv, LeaseInv, IInv
<1>2. QED
  BY <1>1, LeaseInvariant, PTL

\* If orphan_timeout covers TIMEOUT and the lag around the handler, no job is
\* ever executed twice at the same time, for any number of processes and any
\* interleaving of crashes, restarts, sweeps and late writes.
THEOREM SingleExecutionHolds == Slack /\ Spec => []SingleExecution
<1>1. LeaseInv => SingleExecution
  BY DEF LeaseInv
<1>2. QED
  BY <1>1, LeaseInvariant, PTL

\* Under the same condition every handler call is accounted for by a recorded
\* failure, a lost execution or the one call in progress.
THEOREM RunsAccountedHolds == Slack /\ Spec => []RunsAccounted
<1>1. TypeInv /\ LeaseInv => RunsAccounted
  BY DEF TypeInv, TypeOK, Row, LeaseInv, RunsBooked, RunsAccounted
<1>2. QED
  BY <1>1, LeaseInvariant, PTL

\* Under the same condition a Done or Failed row is never moved again, although
\* every write of an execution updates its row by id alone.
THEOREM FinishedStaysHolds == Slack /\ Spec => FinishedStays
<1>1. TypeInv /\ LeaseInv /\ [Next]_vars =>
        [\A j \in Jobs : rows[j].status \in {"Done", "Failed"} =>
            rows'[j].status \in {rows[j].status, "Deleted"}]_vars
  <2> SUFFICES ASSUME TypeInv, LeaseInv, [Next]_vars, NEW j \in Jobs,
                      rows[j].status \in {"Done", "Failed"}
               PROVE  rows'[j].status \in {rows[j].status, "Deleted"}
    OBVIOUS
  <2>0. \A e \in execs : e.job \in Jobs /\ e.job # j
    BY NoExec DEF TypeInv, TypeOK, Exec
  <2> rows \in [Jobs -> Row]
    BY DEF TypeInv, TypeOK
  <2>1. CASE \E i \in Jobs : EnqueueAfter(i)
    BY <2>1 DEF EnqueueAfter
  <2>2. CASE \E p \in Procs : FetchDue(p)
    BY <2>2 DEF FetchDue, Due
  <2>3. CASE \E e \in execs : RunOneJob(e)
    BY <2>3, <2>0 DEF RunOneJob, CallHandler, HandlerOk, HandlerErr, MarkDone, FinishFailure,
                      ScheduleRetry, MarkFailed, WriteRow
  <2>4. CASE \E e \in execs : WriteFails(e) \/ HandlerPanics(e)
    BY <2>4 DEF WriteFails, HandlerPanics
  <2>5. CASE \E p \in Procs : ReenqueueOrphaned(p)
    BY <2>5 DEF ReenqueueOrphaned, Orphaned
  <2>6. CASE DeleteFinishedOlderThan
    BY <2>6 DEF DeleteFinishedOlderThan, Row
  <2>7. CASE \E p \in Procs : Crash(p) \/ Shutdown(p) \/ Drained(p) \/ Start(p)
    BY <2>7 DEF Crash, Shutdown, Drained, Start
  <2>8. CASE Tick
    BY <2>8, AgedRowType DEF Tick
  <2>9. CASE UNCHANGED vars
    BY <2>9 DEF vars
  <2>10. QED
    BY <2>1, <2>2, <2>3, <2>4, <2>5, <2>6, <2>7, <2>8, <2>9 DEF Next
<1>2. QED
  BY <1>1, LeaseInvariant, PTL DEF FinishedStays, Spec

-----------------------------------------------------------------------------
(***************************************************************************)
(* The queue implements JobContract.  A step that changes neither the      *)
(* contract state nor the attempts of a row, nor oks, is a stutter.        *)
(***************************************************************************)
LEMMA ContractStutter ==
    ASSUME oks' = oks,
           \A j \in Jobs : /\ ContractState(rows'[j].status) = ContractState(rows[j].status)
                           /\ rows'[j].attempts = rows[j].attempts
    PROVE  UNCHANGED Contract!vars
BY DEF Contract!vars

LEMMA StepContract ==
    ASSUME TypeInv, LeaseInv, [Next]_vars
    PROVE  [Contract!Next]_(Contract!vars)
<1> rows \in [Jobs -> Row]
  BY DEF TypeInv, TypeOK
<1>0. \A e \in execs : /\ e \in Exec /\ e.job \in Jobs /\ e.attempts \in Nat
                       /\ rows[e.job].status = "Running"
                       /\ rows[e.job].attempts = e.attempts
                       /\ e.attempts < MaxAttempts
                       /\ e.phase = "succeeded" => e.job \in oks
  BY DEF TypeInv, TypeOK, Exec, AttemptsLeft, LeaseInv, LeaseHeld, ExecsBounded
<1>1. ASSUME NEW j \in Jobs, EnqueueAfter(j) PROVE Contract!Next
  <2>1. PICK delay \in 0..MaxDelay :
          rows' = [rows EXCEPT ![j] = [NoRow EXCEPT !.status = "Pending", !.due_in = delay]]
    BY <1>1 DEF EnqueueAfter
  <2>2. rows[j].status = "Absent" /\ rows[j].attempts = 0 /\ oks' = oks
    BY <1>1 DEF EnqueueAfter, history, TypeInv, AttemptsLeft
  <2>3. /\ [NoRow EXCEPT !.status = "Pending", !.due_in = delay].attempts = 0
        /\ [NoRow EXCEPT !.status = "Pending", !.due_in = delay].status = "Pending"
    BY DEF NoRow
  <2>4. /\ rows'[j].attempts = 0 /\ rows'[j].status = "Pending"
        /\ \A i \in Jobs : i # j => rows'[i] = rows[i]
    BY <2>1, <2>3
  <2>5. Contract!Accept(j)
    <3>1. /\ ContractState(rows[j].status) = "none"
          /\ ContractState(rows'[j].status) = "open"
          /\ rows'[j].attempts = rows[j].attempts
      BY <2>2, <2>4 DEF ContractState
    <3>2. QED
      BY <2>2, <2>4, <3>1 DEF Contract!Accept
  <2>6. QED
    BY <2>5 DEF Contract!Next
<1>2. CASE \E p \in Procs : FetchDue(p)
  <2>1. PICK p \in Procs : FetchDue(p)
    BY <1>2
  <2>2. PICK S \in SUBSET Due :
          rows' = [j \in Jobs |-> IF j \in S
                      THEN [rows[j] EXCEPT !.status = "Running", !.lock_age = 0] ELSE rows[j]]
    BY <2>1 DEF FetchDue
  <2>3. \A j \in Jobs : /\ rows'[j].attempts = rows[j].attempts
                        /\ \/ rows'[j].status = rows[j].status
                           \/ rows[j].status = "Pending" /\ rows'[j].status = "Running"
    BY <2>2 DEF Due, Row
  <2>4. oks' = oks
    BY <2>1 DEF FetchDue, history
  <2>5. QED
    BY <2>3, <2>4, ContractStutter DEF ContractState
<1>3. ASSUME NEW e \in execs, RunOneJob(e) PROVE [Contract!Next]_(Contract!vars)
  <2>1. CASE CallHandler(e) \/ HandlerErr(e)
    BY <2>1, ContractStutter DEF CallHandler, HandlerErr, history
  <2>2. CASE HandlerOk(e)
    <3>1. Contract!Succeed(e.job)
      BY <2>2, <1>0 DEF HandlerOk, Contract!Succeed, ContractState
    <3>2. QED
      BY <3>1, <1>0 DEF Contract!Next
  <2>3. CASE MarkDone(e)
    <3>1. /\ rows'[e.job].status = "Done" /\ rows'[e.job].attempts = rows[e.job].attempts
          /\ \A j \in Jobs : j # e.job => rows'[j] = rows[j]
          /\ oks' = oks /\ e.job \in oks
      BY <2>3, <1>0 DEF MarkDone, WriteRow, Row, history
    <3>2. Contract!Complete(e.job)
      <4>1. /\ ContractState(rows[e.job].status) = "open"
            /\ ContractState(rows'[e.job].status) = "done"
        BY <3>1, <1>0 DEF ContractState
      <4>2. QED
        BY <3>1, <4>1, <1>0 DEF Contract!Complete
    <3>3. QED
      BY <3>2, <1>0 DEF Contract!Next
  <2>4. CASE FinishFailure(e)
    <3> DEFINE n == e.attempts + 1
               retry == [rows[e.job] EXCEPT !.status = "Pending", !.attempts = n,
                           !.due_in = BackoffDelay(n), !.lock_age = 0, !.done_age = 0]
               fail  == [rows[e.job] EXCEPT !.status = "Failed", !.attempts = n,
                           !.lock_age = 0, !.done_age = 0]
    <3>1. retry.attempts = n /\ fail.attempts = n /\ retry.status = "Pending" /\ fail.status = "Failed"
      BY <1>0 DEF Row
    <3>2. /\ n < MaxAttempts => rows' = [rows EXCEPT ![e.job] = retry]
          /\ ~(n < MaxAttempts) => rows' = [rows EXCEPT ![e.job] = fail]
      BY <2>4, <1>0 DEF FinishFailure, ScheduleRetry, MarkFailed, WriteRow
    <3> HIDE DEF retry, fail
    <3>3. /\ rows'[e.job].attempts = rows[e.job].attempts + 1
          /\ rows'[e.job].status = IF n < MaxAttempts THEN "Pending" ELSE "Failed"
          /\ \A j \in Jobs : j # e.job => rows'[j] = rows[j]
          /\ oks' = oks
      BY <2>4, <1>0, <3>1, <3>2 DEF FinishFailure, history
    <3>4. Contract!Reject(e.job)
      <4>1. /\ ContractState(rows[e.job].status) = "open"
            /\ ContractState(rows'[e.job].status) = IF n < MaxAttempts THEN "open" ELSE "failed"
        BY <3>3, <1>0 DEF ContractState
      <4>2. n = rows[e.job].attempts + 1
        BY <1>0
      <4> HIDE DEF n
      <4>3. QED
        BY <3>3, <4>1, <4>2, <1>0 DEF Contract!Reject
    <3>5. QED
      BY <3>4, <1>0 DEF Contract!Next
  <2>5. QED
    BY <1>3, <2>1, <2>2, <2>3, <2>4 DEF RunOneJob
<1>4. CASE \E e \in execs : WriteFails(e) \/ HandlerPanics(e)
  BY <1>4, ContractStutter DEF WriteFails, HandlerPanics
<1>5. CASE \E p \in Procs : ReenqueueOrphaned(p)
  <2>1. \A j \in Jobs : /\ rows'[j].attempts = rows[j].attempts
                        /\ \/ rows'[j].status = rows[j].status
                           \/ rows[j].status = "Running" /\ rows'[j].status = "Pending"
    <3>1. SUFFICES ASSUME NEW j \in Jobs
                   PROVE  /\ rows'[j].attempts = rows[j].attempts
                          /\ \/ rows'[j].status = rows[j].status
                             \/ rows[j].status = "Running" /\ rows'[j].status = "Pending"
      OBVIOUS
    <3>2. rows'[j] = IF j \in Orphaned
                     THEN [rows[j] EXCEPT !.status = "Pending", !.lock_age = 0] ELSE rows[j]
      BY <1>5 DEF ReenqueueOrphaned
    <3>3. rows[j] \in Row /\ (j \in Orphaned => rows[j].status = "Running")
      BY <1>0 DEF Orphaned
    <3>4. QED
      BY <3>2, <3>3 DEF Row
  <2>2. oks' = oks
    BY <1>5 DEF ReenqueueOrphaned, history
  <2>3. QED
    BY <2>1, <2>2, ContractStutter DEF ContractState
<1>6. ASSUME DeleteFinishedOlderThan PROVE Contract!Next
  <2>1. PICK S \in SUBSET Expired :
          rows' = [j \in Jobs |-> IF j \in S THEN [rows[j] EXCEPT !.status = "Deleted"] ELSE rows[j]]
    BY <1>6 DEF DeleteFinishedOlderThan
  <2>2. /\ S \in SUBSET Jobs
        /\ \A j \in S : rows[j].status \in {"Done", "Failed"}
        /\ \A j \in Jobs : /\ rows'[j].attempts = rows[j].attempts
                            /\ rows'[j].status = IF j \in S THEN "Deleted" ELSE rows[j].status
    BY <2>1 DEF Expired, Row
  <2>3. oks' = oks
    BY <1>6 DEF DeleteFinishedOlderThan, history
  <2>4. Contract!Purge(S)
    <3>1. /\ \A j \in S : ContractState(rows[j].status) \in {"done", "failed"}
          /\ \A j \in Jobs : ContractState(rows'[j].status) =
                                IF j \in S THEN "gone" ELSE ContractState(rows[j].status)
      <4>1. \A j \in S : ContractState(rows[j].status) \in {"done", "failed"}
        BY <2>2 DEF ContractState
      <4>2. ASSUME NEW j \in Jobs
            PROVE  ContractState(rows'[j].status) =
                      IF j \in S THEN "gone" ELSE ContractState(rows[j].status)
        <5>1. CASE j \in S
          BY <2>2, <5>1 DEF ContractState
        <5>2. CASE j \notin S
          BY <2>2, <5>2
        <5>3. QED
          BY <5>1, <5>2
      <4>3. QED
        BY <4>1, <4>2
    <3>2. QED
      BY <2>2, <2>3, <3>1 DEF Contract!Purge
  <2>5. QED
    BY <2>2, <2>4 DEF Contract!Next
<1>7. CASE \E p \in Procs : Crash(p) \/ Shutdown(p) \/ Drained(p) \/ Start(p)
  BY <1>7, ContractStutter DEF Crash, Shutdown, Drained, Start, history
<1>8. CASE Tick
  BY <1>8, AgedRowType, ContractStutter DEF Tick, history
<1>9. CASE UNCHANGED vars
  BY <1>9, ContractStutter DEF vars
<1>10. QED
  BY <1>1, <1>2, <1>3, <1>4, <1>5, <1>6, <1>7, <1>8, <1>9 DEF Next

\* The queue implements its contract: a job is Done only after a handler call
\* returned Ok, Failed only after max_attempts recorded failures, and neither
\* is left again except by the GC of finished rows.
THEOREM ImplementsContract == Slack /\ Spec => KeepsContract
<1>1. Init => Contract!Init
  BY DEF Init, NoRow, Contract!Init, ContractState
<1>2. TypeInv /\ LeaseInv /\ [Next]_vars => [Contract!Next]_(Contract!vars)
  BY StepContract
<1>3. QED
  BY <1>1, <1>2, LeaseInvariant, PTL DEF KeepsContract, Contract!Spec, Spec

-----------------------------------------------------------------------------
(* Kv: the cache, whatever the back end. *)

\* A crash of redb may bring a value back: it is closed in order.
ClosedInOrder == "redb" \notin Crashing

Gone == [row |-> "absent"]
NoCall == [op |-> "idle"]
Entry == [value: Values, expires: Int, until: Int]
SetCall == [op: {"set"}, key: Keys, value: Values, expires: Int, period: Nat]
GetCall == [op: {"get"}, entry: Entry \cup {Gone}, asked: {"number", "string"}, before: SUBSET Values]

\* Types of the tables and calls, for every value of the constants.
KvTypes ==
    /\ backend \in {"pg", "redb", "redis"} /\ backend \in Backends
    /\ store \in [Keys -> Entry \cup {Gone}]
    /\ now \in Nat
    /\ txn \in [Procs -> SetCall \cup GetCall \cup {NoCall}]
    /\ got \in Values \cup {None}
    /\ answer \in [value: Values \cup {None}, before: SUBSET Values]
    /\ used \in SUBSET Values /\ taken \in SUBSET used

Setting(w) == txn[w] # NoCall /\ txn[w].op = "set"
Getting(w) == txn[w] # NoCall /\ txn[w].op = "get"

\* A value is in one place: on its way, or under one key.
KvOnce ==
    /\ \A k \in Keys : store[k] # Gone => store[k].value \in used
    /\ \A k, l \in Keys : store[k] # Gone /\ store[l] # Gone /\ store[k].value = store[l].value => k = l
    /\ \A w \in Procs : Setting(w) =>
         /\ txn[w].value \in used \ taken
         /\ \A k \in Keys : store[k] # Gone => store[k].value # txn[w].value
         /\ \A v \in Procs : Setting(v) /\ txn[v].value = txn[w].value => v = w

\* An entry expires no later than its period after it was written.
KvTimes ==
    /\ \A k \in Keys : store[k] # Gone => 0 <= store[k].expires /\ store[k].expires <= store[k].until
    /\ \A w \in Procs : Setting(w) =>
         0 <= txn[w].expires /\ txn[w].expires <= now + txn[w].period

\* What was consumed is neither in the store nor in an answer that began later.
KvConsumed ==
    /\ \A k \in Keys : Kv!Alive(store[k]) => store[k].value \notin taken
    /\ \A w \in Procs : Getting(w) /\ Kv!Alive(txn[w].entry) => txn[w].entry.value \notin txn[w].before
    /\ answer.value # None => answer.value \notin answer.before

KvInv == KvTypes /\ KvOnce /\ KvTimes /\ KvConsumed

\* What the rows and calls look like.
LEMMA KvShapes ==
    /\ Kv!Absent = Gone /\ Kv!Idle = NoCall
    /\ \A e \in Entry : e # Gone
    /\ \A t \in SetCall : t # NoCall /\ t.op = "set"
    /\ \A t \in GetCall : t # NoCall /\ t.op = "get"
BY DEF Kv!Absent, Kv!Idle, Gone, NoCall, Entry, SetCall, GetCall

\* An entry is alive by the clock of its back end.
LEMMA KvAlive ==
    ASSUME KvTypes, NEW e \in Entry \cup {Gone}
    PROVE  /\ Skew \in Int
           /\ Kv!Alive(e) <=> e \in Entry /\ CASE backend = "pg" -> e.expires > now + Skew
                                               [] backend = "redb" -> e.expires >= now
                                               [] backend = "redis" -> e.expires > now
BY KvShapes, PlatformAssumption
DEF Kv!KvAssumption, KvTypes, Kv!Alive, Kv!PgAlive, Kv!RedbAlive, Kv!RedisAlive

\* Who is dead stays dead.
LEMMA KvAging ==
    ASSUME KvTypes, NEW e \in Entry \cup {Gone}, backend' = backend, now' \in {now, now + 1}
    PROVE  /\ Kv!Alive(e)' => Kv!Alive(e)
           /\ now' = now => (Kv!Alive(e) <=> Kv!Alive(e)')
<1>1. now \in Nat /\ now' \in Nat /\ now <= now' /\ backend \in {"pg", "redb", "redis"}
  BY DEF KvTypes
<1>2. Skew \in Int /\ (e \in Entry => e.expires \in Int)
  BY PlatformAssumption DEF Kv!KvAssumption, Entry
<1>3. CASE e = Gone
  BY <1>3, KvShapes DEF Kv!Alive
<1>4. CASE e \in Entry
  <2>1. CASE backend = "pg"
    BY <1>1, <1>2, <1>4, <2>1, KvShapes DEF Kv!Alive, Kv!PgAlive
  <2>2. CASE backend = "redb"
    BY <1>1, <1>2, <1>4, <2>2, KvShapes DEF Kv!Alive, Kv!RedbAlive
  <2>3. CASE backend = "redis"
    BY <1>1, <1>2, <1>4, <2>3, KvShapes DEF Kv!Alive, Kv!RedisAlive
  <2> QED
    BY <1>1, <2>1, <2>2, <2>3
<1> QED
  BY <1>3, <1>4

LEMMA KvInit == ASSUME Kv!Init PROVE KvInv
<1>1. KvTypes
  BY KvShapes, PlatformAssumption DEF Kv!KvAssumption, Kv!Init, KvTypes, Kv!NoAnswer
<1>2. /\ \A w \in Procs : txn[w] = NoCall
      /\ \A k \in Keys : store[k] = Gone
      /\ answer.value = None
  BY KvShapes DEF Kv!Init, Kv!NoAnswer
<1>3. \A k \in Keys : ~Kv!Alive(store[k])
  BY <1>2, KvShapes DEF Kv!Alive
<1> QED
  BY <1>1, <1>2, <1>3 DEF KvInv, KvOnce, KvTimes, KvConsumed, Setting, Getting

\* Calls that end, entries that go, values that are consumed with their entry.
LEMMA KvDropped ==
    ASSUME KvInv, backend' = backend, now' \in {now, now + 1}, used' = used,
           txn' \in [Procs -> SetCall \cup GetCall \cup {NoCall}],
           \A w \in Procs : txn'[w] \in {txn[w], NoCall},
           store' \in [Keys -> Entry \cup {Gone}],
           \A k \in Keys : store'[k] \in {store[k], Gone},
           taken' \in SUBSET used,
           \A v \in taken' \ taken :
             \E k \in Keys : store[k] # Gone /\ store[k].value = v /\ store'[k] = Gone,
           got' \in Values \cup {None},
           answer' \in [value: Values \cup {None}, before: SUBSET Values],
           answer'.value # None => answer'.value \notin answer'.before
    PROVE  KvInv'
<1>1. KvTypes /\ now \in Nat
  BY DEF KvInv, KvTypes
<1>2. KvTypes'
  BY <1>1 DEF KvTypes
<1>3. \A w \in Procs : (Setting(w)' => Setting(w) /\ txn'[w] = txn[w]) /\ (Getting(w)' => Getting(w) /\ txn'[w] = txn[w])
  BY DEF Setting, Getting
<1>4. \A k \in Keys : store'[k] # Gone => store[k] # Gone /\ store'[k] = store[k]
  OBVIOUS
<1>5. ASSUME NEW w \in Procs, Setting(w)' PROVE txn'[w].value \in used' \ taken'
  BY <1>3, <1>5 DEF KvInv, KvOnce
<1>6. KvOnce'
  BY <1>3, <1>4, <1>5 DEF KvInv, KvOnce
<1>7. KvTimes'
  <2>1. ASSUME NEW w \in Procs, Setting(w)' PROVE 0 <= txn'[w].expires /\ txn'[w].expires <= now' + txn'[w].period
    <3>1. txn'[w] = txn[w] /\ Setting(w) /\ txn[w] \in SetCall
      BY <1>1, <1>3, <2>1, KvShapes DEF KvTypes, Setting
    <3>2. 0 <= txn[w].expires /\ txn[w].expires <= now + txn[w].period
      BY <3>1 DEF KvInv, KvTimes
    <3>3. txn[w].expires \in Int /\ txn[w].period \in Nat
      BY <3>1 DEF SetCall
    <3> QED
      BY <1>1, <3>1, <3>2, <3>3
  <2> QED
    BY <1>4, <2>1 DEF KvInv, KvTimes
<1>8. ASSUME NEW k \in Keys, Kv!Alive(store[k])' PROVE store'[k].value \notin taken'
  <2>1. store'[k] # Gone
    BY <1>8, KvShapes DEF Kv!Alive
  <2>2. store'[k] = store[k] /\ store[k] \in Entry \cup {Gone} /\ store[k] # Gone
    BY <1>1, <1>4, <2>1 DEF KvTypes
  <2>3. PICK e : e = store[k]
    OBVIOUS
  <2>4. Kv!Alive(store[k])
    <3>1. e \in Entry \cup {Gone} /\ (Kv!Alive(store[k])' <=> Kv!Alive(e)') /\ (Kv!Alive(e) <=> Kv!Alive(store[k]))
      BY <2>2, <2>3 DEF Kv!Alive, Kv!PgAlive, Kv!RedbAlive, Kv!RedisAlive
    <3> QED
      BY <1>1, <1>8, <3>1, KvAging
  <2>5. store[k].value \notin taken
    BY <2>4 DEF KvInv, KvConsumed
  <2>6. \A l \in Keys : store[l] # Gone /\ store[l].value = store[k].value => l = k
    BY <2>2 DEF KvInv, KvOnce
  <2> QED
    BY <2>1, <2>2, <2>5, <2>6
<1>9. ASSUME NEW w \in Procs, Getting(w)', Kv!Alive(txn[w].entry)'
      PROVE  txn'[w].entry.value \notin txn'[w].before
  <2>1. Getting(w) /\ txn'[w] = txn[w] /\ txn[w] \in GetCall
    BY <1>1, <1>3, <1>9, KvShapes DEF KvTypes, Getting
  <2>2. PICK e : e = txn[w].entry
    OBVIOUS
  <2>3. e \in Entry \cup {Gone} /\ (Kv!Alive(txn[w].entry)' <=> Kv!Alive(e)') /\ (Kv!Alive(e) <=> Kv!Alive(txn[w].entry))
    BY <2>1, <2>2 DEF GetCall, Kv!Alive, Kv!PgAlive, Kv!RedbAlive, Kv!RedisAlive
  <2>4. Kv!Alive(txn[w].entry)
    BY <1>1, <1>9, <2>3, KvAging
  <2> QED
    BY <2>1, <2>4 DEF KvInv, KvConsumed
<1>10. KvConsumed'
  BY <1>8, <1>9 DEF KvConsumed
<1> QED
  BY <1>2, <1>6, <1>7, <1>10 DEF KvInv

\* A write of a new value begins.
LEMMA KvSetStart ==
    ASSUME KvInv, NEW w \in Procs, NEW k \in Keys, Kv!SetStart(w, k)
    PROVE  KvInv'
<1>1. PICK v \in Values \ used, period \in Periods :
        /\ used' = used \cup {v}
        /\ txn' = [txn EXCEPT ![w] =
             [op |-> "set", key |-> k, value |-> v, expires |-> now + period, period |-> period]]
  BY DEF Kv!SetStart
<1>2. PICK t : t = [op |-> "set", key |-> k, value |-> v, expires |-> now + period, period |-> period]
  OBVIOUS
<1>3. txn' = [txn EXCEPT ![w] = t] /\ txn[w] = NoCall /\ UNCHANGED <<backend, store, now, got, answer, taken>>
  BY <1>1, <1>2, KvShapes DEF Kv!SetStart
<1>4. KvTypes /\ now \in Nat /\ period \in Nat
  BY PlatformAssumption DEF Kv!KvAssumption, KvInv, KvTypes
<1>5. t \in SetCall /\ t.value = v /\ t.expires = now + period /\ t.period = period /\ t # NoCall /\ t.op = "set"
  BY <1>2, <1>4, KvShapes DEF SetCall
<1>6. KvTypes'
  BY <1>1, <1>3, <1>4, <1>5 DEF KvTypes
<1>7. \A u \in Procs : txn'[u] = IF u = w THEN t ELSE txn[u]
  BY <1>3, <1>4 DEF KvTypes
<1>8. /\ \A u \in Procs : Setting(u)' <=> u = w \/ (u # w /\ Setting(u))
      /\ \A u \in Procs : Getting(u)' => u # w /\ Getting(u)
  BY <1>3, <1>5, <1>7 DEF Setting, Getting
<1>9. KvOnce'
  <2>1. \A u \in Procs : Setting(u) => txn[u].value \in used
    BY DEF KvInv, KvOnce
  <2>2. \A l \in Keys : store[l] # Gone => store[l].value \in used
    BY DEF KvInv, KvOnce
  <2>3. taken \subseteq used
    BY <1>4 DEF KvTypes
  <2> QED
    BY <1>1, <1>3, <1>5, <1>7, <1>8, <2>1, <2>2, <2>3 DEF KvInv, KvOnce
<1>10. KvTimes'
  BY <1>3, <1>4, <1>5, <1>7, <1>8 DEF KvInv, KvTimes
<1>11. KvConsumed'
  BY <1>3, <1>7, <1>8 DEF KvInv, KvConsumed, Kv!Alive, Kv!PgAlive, Kv!RedbAlive, Kv!RedisAlive
<1> QED
  BY <1>6, <1>9, <1>10, <1>11 DEF KvInv

\* A get has read what is there: nothing that was consumed before.
LEMMA KvGetRead ==
    ASSUME KvInv, NEW w \in Procs, NEW k \in Keys, NEW asked \in {"number", "string"}, Kv!GetRead(w, k, asked)
    PROVE  KvInv'
<1>1. PICK t : t = [op |-> "get", entry |-> store[k], asked |-> asked, before |-> taken]
  OBVIOUS
<1>2. txn' = [txn EXCEPT ![w] = t] /\ UNCHANGED <<backend, store, now, got, answer, used, taken>>
  BY <1>1 DEF Kv!GetRead
<1>3. KvTypes /\ now \in Nat
  BY DEF KvInv, KvTypes
<1>4. t \in GetCall /\ t.entry = store[k] /\ t.before = taken /\ t # NoCall /\ t.op = "get"
  BY <1>1, <1>3, KvShapes DEF GetCall, KvTypes
<1>5. KvTypes'
  BY <1>2, <1>3, <1>4 DEF KvTypes
<1>6. \A u \in Procs : txn'[u] = IF u = w THEN t ELSE txn[u]
  BY <1>2, <1>3 DEF KvTypes
<1>7. /\ \A u \in Procs : Setting(u)' => u # w /\ Setting(u)
      /\ \A u \in Procs : Getting(u)' => u = w \/ (u # w /\ Getting(u))
  BY <1>4, <1>6 DEF Setting, Getting
<1>8. KvOnce'
  BY <1>2, <1>6, <1>7 DEF KvInv, KvOnce
<1>9. KvTimes'
  BY <1>2, <1>6, <1>7 DEF KvInv, KvTimes
<1>10. KvConsumed'
  BY <1>2, <1>4, <1>6, <1>7 DEF KvInv, KvConsumed, Kv!Alive, Kv!PgAlive, Kv!RedbAlive, Kv!RedisAlive
<1> QED
  BY <1>5, <1>8, <1>9, <1>10 DEF KvInv

\* A write has its turn.
LEMMA KvSetWrite ==
    ASSUME KvInv, NEW w \in Procs, Kv!SetWrite(w)
    PROVE  /\ KvInv' /\ txn[w] \in SetCall /\ Setting(w)
           /\ \/ store' = store
              \/ \E x \in Entry : x.value = txn[w].value /\ store' = [store EXCEPT ![txn[w].key] = x]
<1>1. KvTypes /\ now \in Nat /\ Setting(w)
  BY KvShapes DEF KvInv, KvTypes, Kv!SetWrite, Setting
<1>2. PICK t : t = txn[w]
  OBVIOUS
<1>3. /\ t \in SetCall /\ t.key \in Keys /\ t.value \in used \ taken /\ t.period \in Nat /\ t.expires \in Int
      /\ 0 <= t.expires /\ t.expires <= now + t.period /\ t.value \in Values
      /\ \A k \in Keys : store[k] # Gone => store[k].value # t.value
      /\ \A v \in Procs : Setting(v) /\ txn[v].value = t.value => v = w
  <2>1. t \in SetCall
    BY <1>1, <1>2, KvShapes DEF KvTypes, Setting
  <2> QED
    BY <1>1, <1>2, <2>1 DEF KvInv, KvOnce, KvTimes, SetCall
<1>4. txn' = [txn EXCEPT ![w] = NoCall] /\ UNCHANGED <<backend, now, got, answer, used, taken>>
  BY KvShapes DEF Kv!SetWrite
<1>5. \/ store' = store
      \/ \E x \in Entry : /\ x.value = t.value /\ 0 <= x.expires /\ x.expires <= x.until
                          /\ store' = [store EXCEPT ![t.key] = x]
  <2> DEFINE entry(e) == [value |-> t.value, expires |-> e, until |-> now + t.period]
  <2>1. ASSUME NEW e \in Int PROVE entry(e) \in Entry
    BY <1>1, <1>3 DEF Entry
  <2>2. store' = CASE backend # "redis" -> [store EXCEPT ![t.key] = entry(t.expires)]
                   [] backend = "redis" /\ t.period \div 2 = 0 -> store
                   [] OTHER -> [store EXCEPT ![t.key] = entry(Kv!RedisExpiry(t.period))]
    BY <1>2 DEF Kv!SetWrite
  <2>3. Kv!RedisExpiry(t.period) \in Int /\ 0 <= Kv!RedisExpiry(t.period) /\ Kv!RedisExpiry(t.period) <= now + t.period
    <3>1. 2 * (t.period \div 2) <= t.period /\ t.period \div 2 \in Nat
      BY <1>3
    <3> QED
      BY <1>1, <1>3, <3>1 DEF Kv!RedisExpiry
  <2>4. CASE backend # "redis"
    <3>1. store' = [store EXCEPT ![t.key] = entry(t.expires)]
      BY <2>2, <2>4
    <3> QED
      BY <1>3, <2>1, <3>1
  <2>5. CASE backend = "redis"
    <3>1. store' \in {store, [store EXCEPT ![t.key] = entry(Kv!RedisExpiry(t.period))]}
      BY <2>2, <2>5
    <3> QED
      BY <1>3, <2>1, <2>3, <3>1
  <2> QED
    BY <2>4, <2>5
<1>6. KvTypes'
  BY <1>1, <1>3, <1>4, <1>5 DEF KvTypes
<1>7. \A u \in Procs : txn'[u] = IF u = w THEN NoCall ELSE txn[u]
  BY <1>1, <1>4 DEF KvTypes
<1>8. /\ \A u \in Procs : Setting(u)' => u # w /\ Setting(u)
      /\ \A u \in Procs : Getting(u)' => u # w /\ Getting(u)
  BY <1>7 DEF Setting, Getting
<1>9. \A k \in Keys : \/ store'[k] = store[k]
                      \/ /\ k = t.key /\ store'[k] \in Entry /\ store'[k].value = t.value
                         /\ 0 <= store'[k].expires /\ store'[k].expires <= store'[k].until
  BY <1>1, <1>3, <1>5 DEF KvTypes
<1>10. KvOnce'
  <2>1. \A k \in Keys : store'[k] # Gone => store'[k].value \in used'
    BY <1>3, <1>4, <1>9 DEF KvInv, KvOnce
  <2>2. \A k, l \in Keys : store'[k] # Gone /\ store'[l] # Gone /\ store'[k].value = store'[l].value => k = l
    BY <1>3, <1>9 DEF KvInv, KvOnce
  <2>3. ASSUME NEW u \in Procs, Setting(u)'
        PROVE  /\ txn'[u].value \in used' \ taken'
               /\ \A k \in Keys : store'[k] # Gone => store'[k].value # txn'[u].value
               /\ \A v \in Procs : Setting(v)' /\ txn'[v].value = txn'[u].value => v = u
    BY <1>3, <1>4, <1>7, <1>8, <1>9, <2>3 DEF KvInv, KvOnce
  <2> QED
    BY <2>1, <2>2, <2>3 DEF KvOnce
<1>11. KvTimes'
  BY <1>4, <1>7, <1>8, <1>9 DEF KvInv, KvTimes
<1>12. KvConsumed'
  BY <1>3, <1>4, <1>7, <1>8, <1>9 DEF KvInv, KvConsumed, Kv!Alive, Kv!PgAlive, Kv!RedbAlive, Kv!RedisAlive
<1>13. KvInv'
  BY <1>6, <1>10, <1>11, <1>12 DEF KvInv
<1> QED
  BY <1>1, <1>2, <1>3, <1>5, <1>13

\* What a step of the cache drops.
KvDrops ==
    /\ backend' = backend /\ now' \in {now, now + 1} /\ used' = used
    /\ \A w \in Procs : txn'[w] \in {txn[w], NoCall}
    /\ \A k \in Keys : store'[k] \in {store[k], Gone}

\* The steps that only drop calls and entries keep the invariant.
LEMMA KvDropSteps ==
    ASSUME KvInv, ClosedInOrder,
           \/ \E w \in Procs : Kv!GetAnswer(w)
           \/ \E k \in Keys : Kv!Del(k)
           \/ Kv!DeleteExpired \/ Kv!Tick \/ Kv!Restart \/ Kv!Crash
           \/ UNCHANGED vKv
    PROVE  KvInv' /\ KvDrops /\ got' = got
<1>1. KvTypes /\ now \in Nat
  BY DEF KvInv, KvTypes
<1>2. KvDrops /\ got' = got
  <2>1. CASE \E w \in Procs : Kv!GetAnswer(w)
    BY <1>1, <2>1, KvShapes DEF Kv!GetAnswer, KvDrops, KvTypes
  <2>2. CASE \E k \in Keys : Kv!Del(k)
    BY <1>1, <2>2, KvShapes DEF Kv!Del, Kv!Remove, KvDrops
  <2>3. CASE Kv!DeleteExpired
    <3>1. \A S : \A k \in Keys : Kv!Remove(S)[k] \in {store[k], Gone}
      BY KvShapes DEF Kv!Remove
    <3>2. store' \in {Kv!Remove(Kv!DeletePg), Kv!Remove(Kv!DeleteRedb), store}
      BY <1>1, <2>3 DEF Kv!DeleteExpired, KvTypes
    <3>3. \A k \in Keys : store'[k] \in {store[k], Gone}
      BY <3>1, <3>2
    <3> QED
      BY <2>3, <3>3 DEF Kv!DeleteExpired, KvDrops
  <2>4. CASE Kv!Tick
    BY <2>4 DEF Kv!Tick, KvDrops
  <2>5. CASE Kv!Restart
    BY <2>5, KvShapes DEF Kv!Restart, KvDrops
  <2>6. CASE Kv!Crash
    <3>1. backend \in {"pg", "redis"}
      BY <1>1, <2>6 DEF ClosedInOrder, Kv!Crash, KvTypes
    <3> QED
      BY <2>6, <3>1, KvShapes DEF Kv!Crash, KvDrops
  <2>7. CASE UNCHANGED vKv
    BY <2>7 DEF vKv, KvDrops
  <2> QED
    BY <2>1, <2>2, <2>3, <2>4, <2>5, <2>6, <2>7
<1>3. taken' = taken
  BY DEF Kv!GetAnswer, Kv!Del, Kv!DeleteExpired, Kv!Tick, Kv!Restart, Kv!Crash, vKv
<1>4. txn' \in [Procs -> SetCall \cup GetCall \cup {NoCall}]
  <2>1. \/ txn' = txn \/ txn' = [w \in Procs |-> NoCall]
        \/ \E w \in Procs : txn' = [txn EXCEPT ![w] = NoCall]
    BY KvShapes DEF Kv!GetAnswer, Kv!Del, Kv!DeleteExpired, Kv!Tick, Kv!Restart, Kv!Crash, vKv
  <2> QED
    BY <1>1, <2>1 DEF KvTypes
<1>5. store' \in [Keys -> Entry \cup {Gone}]
  <2>1. \A S : Kv!Remove(S) = [k \in Keys |-> IF k \in S THEN Gone ELSE store[k]]
    BY KvShapes DEF Kv!Remove
  <2>2. \/ store' = store \/ store' = [k \in Keys |-> Gone]
        \/ \E S : store' = Kv!Remove(S)
    <3>1. CASE Kv!DeleteExpired
      BY <1>1, <3>1 DEF Kv!DeleteExpired, KvTypes
    <3>2. CASE Kv!Crash
      BY <1>1, <3>2, KvShapes DEF Kv!Crash, ClosedInOrder, KvTypes
    <3> QED
      BY <3>1, <3>2 DEF Kv!GetAnswer, Kv!Del, Kv!Tick, Kv!Restart, vKv
  <2> QED
    BY <1>1, <2>1, <2>2 DEF KvTypes
<1>6. /\ answer' \in [value: Values \cup {None}, before: SUBSET Values]
      /\ answer'.value # None => answer'.value \notin answer'.before
  <2>1. CASE \E w \in Procs : Kv!GetAnswer(w)
    <3>1. PICK w \in Procs : Kv!GetAnswer(w)
      BY <2>1
    <3>2. Getting(w) /\ answer' = [value |-> Kv!Shown(w), before |-> txn[w].before]
      BY <3>1, KvShapes DEF Kv!GetAnswer, Getting
    <3>3. txn[w] \in GetCall
      BY <1>1, <3>2, KvShapes DEF KvTypes, Getting
    <3>4. Kv!Alive(txn[w].entry) => txn[w].entry \in Entry /\ txn[w].entry.value \notin txn[w].before
      BY <3>2, <3>3, KvShapes DEF KvInv, KvConsumed, GetCall, Kv!Alive
    <3>5. Kv!Shown(w) = None \/ (Kv!Alive(txn[w].entry) /\ Kv!Shown(w) = txn[w].entry.value)
      BY DEF Kv!Shown, Kv!Decode
    <3>6. PICK v : v = Kv!Shown(w)
      OBVIOUS
    <3>7. v \in Values \cup {None} /\ (v # None => v \notin txn[w].before)
      BY <3>4, <3>5, <3>6 DEF Entry
    <3>8. txn[w].before \in SUBSET Values
      BY <3>3 DEF GetCall
    <3> QED
      BY <3>2, <3>6, <3>7, <3>8
  <2>2. CASE answer' = answer
    BY <1>1, <2>2 DEF KvTypes, KvInv, KvConsumed
  <2> QED
    BY <2>1, <2>2 DEF Kv!Del, Kv!DeleteExpired, Kv!Tick, Kv!Restart, Kv!Crash, vKv
<1>7. got' \in Values \cup {None} /\ taken' \in SUBSET used
  BY <1>1, <1>2, <1>3 DEF KvTypes
<1>8. KvInv'
  BY <1>2, <1>3, <1>4, <1>5, <1>6, <1>7, KvDropped DEF KvDrops
<1> QED
  BY <1>2, <1>8

\* A take consumes what it returns.
LEMMA KvTake ==
    ASSUME KvInv, NEW w \in Procs, NEW k \in Keys, NEW asked \in {"number", "string"}, Kv!Take(w, k, asked)
    PROVE  /\ KvInv' /\ KvDrops /\ UNCHANGED <<now, txn>>
           /\ Kv!Live[k] = None \/ store'[k] = Gone
           /\ \A l \in Keys : l # k => store'[l] = store[l]
           /\ got' \in {Kv!Live[k], None}
<1>1. KvTypes /\ now \in Nat
  BY DEF KvInv, KvTypes
<1>2. Kv!Remove({k}) = [l \in Keys |-> IF l = k THEN Gone ELSE store[l]]
  BY KvShapes DEF Kv!Remove
<1>3. /\ store' = store \/ store' = Kv!Remove({k})
      /\ Kv!Alive(store[k]) => store' = Kv!Remove({k})
  BY DEF Kv!Take, Kv!Taken
<1>4. /\ UNCHANGED <<backend, now, txn, answer, used>>
      /\ got' = IF Kv!Alive(store[k]) THEN Kv!Decode(store[k].value, asked) ELSE None
      /\ taken' = IF Kv!Alive(store[k]) THEN taken \cup {store[k].value} ELSE taken
  BY DEF Kv!Take
<1>5. \A l \in Keys : store'[l] \in {store[l], Gone} /\ (l # k => store'[l] = store[l])
  BY <1>2, <1>3
<1>6. store' \in [Keys -> Entry \cup {Gone}]
  BY <1>1, <1>2, <1>3 DEF KvTypes
<1>7. Kv!Alive(store[k]) => store[k] \in Entry /\ store[k] # Gone /\ store'[k] = Gone /\ store[k].value \in used
  BY <1>1, <1>2, <1>3, KvShapes DEF KvTypes, KvInv, KvOnce, Kv!Alive
<1>8. got' \in {Kv!Live[k], None}
  BY <1>4 DEF Kv!Live, Kv!Decode
<1>9. Kv!Live[k] = None \/ store'[k] = Gone
  BY <1>7 DEF Kv!Live
<1>10. got' \in Values \cup {None}
  BY <1>7, <1>8 DEF Kv!Live, Entry
<1>11. taken' \in SUBSET used
  BY <1>1, <1>4, <1>7 DEF KvTypes
<1>12. \A v \in taken' \ taken : \E l \in Keys : store[l] # Gone /\ store[l].value = v /\ store'[l] = Gone
  BY <1>4, <1>7
<1>13. KvInv'
  BY <1>1, <1>4, <1>5, <1>6, <1>10, <1>11, <1>12, KvDropped DEF KvTypes, KvInv, KvConsumed
<1> QED
  BY <1>4, <1>5, <1>8, <1>9, <1>13 DEF KvDrops

\* What is forgotten.
LEMMA KvForgets ==
    ASSUME KvInv, got' = got,
           \A k \in Keys : Kv!Live'[k] \in {Kv!Live[k], None},
           used \subseteq used',
           \A w \in Procs : Setting(w)' => (Setting(w) /\ txn'[w] = txn[w]) \/ txn'[w].value \notin used
    PROVE  Kv!C!Next
<1>0. PICK S \in SUBSET Keys : S = {k \in Keys : Kv!Live'[k] = None}
  OBVIOUS
<1>1. Kv!Live' = [k \in Keys |-> IF k \in S THEN None ELSE Kv!Live[k]]
  <2>1. PICK g : g = Kv!Live'
    OBVIOUS
  <2>2. g = [k \in Keys |-> g[k]] /\ \A k \in Keys : g[k] = IF k \in S THEN None ELSE Kv!Live[k]
    BY <1>0, <2>1 DEF Kv!Live
  <2> QED
    BY <2>1, <2>2
<1>2. used \ {txn[w].value : w \in Kv!Open} \subseteq used' \ {txn'[w].value : w \in Kv!Open'}
  BY KvShapes DEF Kv!Open, Setting
<1>3. Kv!C!Forget(S)
  BY <1>1, <1>2 DEF Kv!C!Forget
<1> QED
  BY <1>3 DEF Kv!C!Next

\* Entries that go or expire.
LEMMA KvDropsLive ==
    ASSUME KvInv, KvDrops
    PROVE  /\ \A k \in Keys : Kv!Live'[k] \in {Kv!Live[k], None}
           /\ \A k \in Keys : store'[k] = Gone => Kv!Live'[k] = None
           /\ now' = now => \A k \in Keys : store'[k] = store[k] => Kv!Live'[k] = Kv!Live[k]
           /\ \A w \in Procs : Setting(w)' => Setting(w) /\ txn'[w] = txn[w]
<1>1. KvTypes
  BY DEF KvInv
<1>2. ASSUME NEW k \in Keys
      PROVE  /\ store'[k] = Gone => ~Kv!Alive(store[k])'
             /\ Kv!Alive(store[k])' => Kv!Alive(store[k]) /\ store'[k] = store[k]
             /\ now' = now /\ store'[k] = store[k] => (Kv!Alive(store[k])' <=> Kv!Alive(store[k]))
  <2>1. store'[k] = Gone => ~Kv!Alive(store[k])'
    BY KvShapes DEF Kv!Alive
  <2>2. ASSUME store'[k] = store[k]
        PROVE  /\ Kv!Alive(store[k])' => Kv!Alive(store[k])
               /\ now' = now => (Kv!Alive(store[k])' <=> Kv!Alive(store[k]))
    <3>1. PICK e : e = store[k]
      OBVIOUS
    <3>2. e \in Entry \cup {Gone} /\ (Kv!Alive(store[k])' <=> Kv!Alive(e)') /\ (Kv!Alive(e) <=> Kv!Alive(store[k]))
      BY <1>1, <2>2, <3>1 DEF KvTypes, Kv!Alive, Kv!PgAlive, Kv!RedbAlive, Kv!RedisAlive
    <3> QED
      BY <1>1, <3>2, KvAging DEF KvDrops
  <2> QED
    BY <2>1, <2>2 DEF KvDrops
<1>3. \A k \in Keys : /\ Kv!Live[k] = IF Kv!Alive(store[k]) THEN store[k].value ELSE None
                      /\ Kv!Live'[k] = IF Kv!Alive(store[k])' THEN store'[k].value ELSE None
  BY DEF Kv!Live
<1>4. \A w \in Procs : Setting(w)' => Setting(w) /\ txn'[w] = txn[w]
  BY DEF KvDrops, Setting
<1> QED
  BY <1>2, <1>3, <1>4

\* Every step keeps the invariant and is one of the contract, or of no note.
LEMMA KvStep ==
    ASSUME KvInv, ClosedInOrder, Kv!Next \/ UNCHANGED vKv
    PROVE  KvInv' /\ (Kv!C!Next \/ UNCHANGED <<Kv!Live, got, used \ {txn[w].value : w \in Kv!Open}>>)
<1>1. KvTypes /\ now \in Nat
  BY DEF KvInv, KvTypes
<1>2. ASSUME \/ \E w \in Procs : Kv!GetAnswer(w)
             \/ \E k \in Keys : Kv!Del(k)
             \/ Kv!DeleteExpired \/ Kv!Tick \/ Kv!Restart \/ Kv!Crash
             \/ UNCHANGED vKv
      PROVE  KvInv' /\ Kv!C!Next
  <2>1. KvInv' /\ KvDrops /\ got' = got
    BY <1>2, KvDropSteps
  <2> QED
    BY <2>1, KvDropsLive, KvForgets DEF KvDrops
<1>3. ASSUME NEW w \in Procs, NEW k \in Keys, NEW asked \in {"number", "string"}, Kv!Take(w, k, asked)
      PROVE  KvInv' /\ Kv!C!Next
  <2>1. /\ KvInv' /\ KvDrops /\ UNCHANGED <<now, txn>>
        /\ Kv!Live[k] = None \/ store'[k] = Gone
        /\ \A l \in Keys : l # k => store'[l] = store[l]
        /\ got' \in {Kv!Live[k], None}
    BY <1>3, KvTake
  <2>2. PICK g : g = Kv!Live'
    OBVIOUS
  <2>3. g = [l \in Keys |-> g[l]] /\ \A l \in Keys : g[l] = IF l = k THEN None ELSE Kv!Live[l]
    <3>1. /\ \A l \in Keys : g[l] \in {Kv!Live[l], None}
          /\ \A l \in Keys : store'[l] = Gone => g[l] = None
          /\ \A l \in Keys : store'[l] = store[l] => g[l] = Kv!Live[l]
      BY <2>1, <2>2, KvDropsLive
    <3> QED
      BY <2>1, <2>2, <3>1 DEF Kv!Live
  <2>4. Kv!Live' = [Kv!Live EXCEPT ![k] = None]
    BY <2>2, <2>3 DEF Kv!Live
  <2>5. used' \ {txn'[v].value : v \in Kv!Open'} = used \ {txn[v].value : v \in Kv!Open}
    BY <2>1 DEF KvDrops, Kv!Open
  <2>6. Kv!C!Take(k)
    BY <2>1, <2>4, <2>5 DEF Kv!C!Take
  <2> QED
    BY <2>1, <2>6 DEF Kv!C!Next
<1>4. ASSUME NEW w \in Procs, NEW k \in Keys, Kv!SetStart(w, k)
      PROVE  KvInv' /\ Kv!C!Next
  <2>1. KvInv'
    BY <1>4, KvSetStart
  <2>2. PICK v \in Values \ used, period \in Periods :
          /\ used' = used \cup {v}
          /\ txn' = [txn EXCEPT ![w] =
               [op |-> "set", key |-> k, value |-> v, expires |-> now + period, period |-> period]]
    BY <1>4 DEF Kv!SetStart
  <2>3. UNCHANGED <<backend, store, now, got>>
    BY <1>4 DEF Kv!SetStart
  <2>4. \A l \in Keys : Kv!Live'[l] = Kv!Live[l]
    BY <2>3 DEF Kv!Live, Kv!Alive, Kv!PgAlive, Kv!RedbAlive, Kv!RedisAlive
  <2>5. \A u \in Procs : Setting(u)' => (Setting(u) /\ txn'[u] = txn[u]) \/ txn'[u].value \notin used
    BY <1>1, <2>2 DEF KvTypes, Setting
  <2> QED
    BY <2>1, <2>2, <2>3, <2>4, <2>5, KvForgets
<1>5. ASSUME NEW w \in Procs, NEW k \in Keys, NEW asked \in {"number", "string"}, Kv!GetRead(w, k, asked)
      PROVE  KvInv' /\ Kv!C!Next
  <2>1. KvInv'
    BY <1>5, KvGetRead
  <2>2. UNCHANGED <<backend, store, now, got, used>>
    BY <1>5 DEF Kv!GetRead
  <2>3. \A l \in Keys : Kv!Live'[l] = Kv!Live[l]
    BY <2>2 DEF Kv!Live, Kv!Alive, Kv!PgAlive, Kv!RedbAlive, Kv!RedisAlive
  <2>4. \A u \in Procs : Setting(u)' => Setting(u) /\ txn'[u] = txn[u]
    BY <1>1, <1>5, KvShapes DEF KvTypes, Setting, Kv!GetRead
  <2> QED
    BY <2>1, <2>2, <2>3, <2>4, KvForgets
<1>6. ASSUME NEW w \in Procs, Kv!SetWrite(w) PROVE KvInv' /\ Kv!C!Next
  <2>1. /\ KvInv' /\ txn[w] \in SetCall /\ Setting(w)
        /\ \/ store' = store
           \/ \E x \in Entry : x.value = txn[w].value /\ store' = [store EXCEPT ![txn[w].key] = x]
    BY <1>6, KvSetWrite
  <2>2. txn' = [txn EXCEPT ![w] = NoCall] /\ UNCHANGED <<backend, now, got, used>>
    BY <1>6, KvShapes DEF Kv!SetWrite
  <2>3. \A u \in Procs : Setting(u)' <=> u # w /\ Setting(u) /\ txn'[u] = txn[u]
    BY <1>1, <2>2 DEF KvTypes, Setting
  <2>4. ASSUME store' = store PROVE Kv!C!Next
    <3>1. \A l \in Keys : Kv!Live'[l] = Kv!Live[l]
      BY <2>2, <2>4 DEF Kv!Live, Kv!Alive, Kv!PgAlive, Kv!RedbAlive, Kv!RedisAlive
    <3> QED
      BY <2>2, <2>3, <3>1, KvForgets
  <2>5. ASSUME NEW x \in Entry, x.value = txn[w].value, store' = [store EXCEPT ![txn[w].key] = x]
        PROVE  Kv!C!Next
    <3>1. PICK k \in Keys, v \in Values : k = txn[w].key /\ v = txn[w].value
      BY <2>1 DEF SetCall
    <3>2. PICK g : g = Kv!Live'
      OBVIOUS
    <3>3. \A l \in Keys : store'[l] = IF l = k THEN x ELSE store[l]
      BY <1>1, <2>5, <3>1 DEF KvTypes
    <3>4. g = [l \in Keys |-> g[l]] /\ \A l \in Keys : l # k => g[l] = Kv!Live[l]
      BY <2>2, <3>2, <3>3 DEF Kv!Live, Kv!Alive, Kv!PgAlive, Kv!RedbAlive, Kv!RedisAlive
    <3>5. g[k] \in {v, None}
      BY <2>5, <3>1, <3>2, <3>3 DEF Kv!Live
    <3>6. g \in {[Kv!Live EXCEPT ![k] = v], [Kv!Live EXCEPT ![k] = None]}
      BY <3>4, <3>5 DEF Kv!Live
    <3>7. /\ v \in used
          /\ \A u \in Procs : Setting(u) /\ txn[u].value = v => u = w
      BY <2>1, <3>1 DEF KvInv, KvOnce
    <3>8. PICK P, Q : P = used \ {txn[u].value : u \in Kv!Open} /\ Q = used' \ {txn'[u].value : u \in Kv!Open'}
      OBVIOUS
    <3>9. v \notin P /\ Q = P \cup {v}
      <4>1. \A u : (u \in Kv!Open <=> u \in Procs /\ Setting(u)) /\ (u \in Kv!Open' <=> u \in Procs /\ Setting(u)')
        BY KvShapes DEF Kv!Open, Setting
      <4> QED
        BY <2>1, <2>2, <2>3, <3>1, <3>7, <3>8, <4>1
    <3>10. Kv!C!Put(k, v)
      BY <2>2, <3>2, <3>6, <3>8, <3>9 DEF Kv!C!Put
    <3> QED
      BY <3>10 DEF Kv!C!Next
  <2> QED
    BY <2>1, <2>4, <2>5
<1> QED
  BY <1>2, <1>3, <1>4, <1>5, <1>6 DEF Kv!Next

\* What the invariant says of the cache.
LEMMA KvKeeps == ASSUME KvInv PROVE Kv!TypeOK /\ Kv!LifetimeBounded /\ Kv!ReadsNotTaken
<1>1. KvTypes /\ now \in Nat
  BY DEF KvInv, KvTypes
<1>2. Kv!TypeOK
  <2>1. ASSUME NEW k \in Keys, store[k] # Gone
        PROVE  store[k] \in [value: used, expires: Nat, until: Nat]
    BY <1>1, <2>1 DEF KvInv, KvOnce, KvTimes, KvTypes, Entry
  <2>2. \A w \in Procs : txn[w] # Kv!Idle => txn[w].op \in {"set", "get"}
    BY <1>1, KvShapes DEF KvTypes
  <2> QED
    BY <1>1, <2>1, <2>2, KvShapes DEF Kv!TypeOK, KvTypes
<1>3. Kv!LifetimeBounded
  <2>1. SUFFICES ASSUME NEW k \in Keys, Kv!Alive(store[k])
                 PROVE  now <= store[k].until + (IF backend = "pg" /\ Skew < 0 THEN -Skew ELSE 0)
    BY DEF Kv!LifetimeBounded
  <2>2. PICK e : e = store[k]
    OBVIOUS
  <2>3. /\ e \in Entry \cup {Gone} /\ Kv!Alive(e)
        /\ e # Gone => e.expires <= e.until
    BY <1>1, <2>1, <2>2 DEF KvTypes, KvInv, KvTimes, Kv!Alive, Kv!PgAlive, Kv!RedbAlive, Kv!RedisAlive
  <2>4. /\ Skew \in Int /\ e \in Entry /\ e # Gone
        /\ backend = "pg" => e.expires > now + Skew
        /\ backend = "redb" => e.expires >= now
        /\ backend = "redis" => e.expires > now
    BY <1>1, <2>3, KvAlive, KvShapes
  <2>5. e.expires \in Int /\ e.until \in Int /\ backend \in {"pg", "redb", "redis"}
    BY <1>1, <2>4 DEF Entry, KvTypes
  <2> QED
    BY <1>1, <2>2, <2>3, <2>4, <2>5
<1>4. Kv!ReadsNotTaken
  BY DEF KvInv, KvConsumed, Kv!ReadsNotTaken
<1> QED
  BY <1>2, <1>3, <1>4

PlatformInv == part = "kv" => KvInv

\* While the cache moves, its tables are what the invariant says.
THEOREM PlatformInvariant == ClosedInOrder /\ PlatformSpec => []PlatformInv
<1>1. CASE ClosedInOrder
  <2>1. PlatformInit => PlatformInv
    BY KvInit DEF PlatformInit, PlatformInv
  <2>2. PlatformInv /\ [PlatformNext]_<<part, vars, vKv>> => PlatformInv'
    BY <1>1, KvStep DEF PlatformInv, PlatformNext
  <2> QED
    BY <2>1, <2>2, PTL DEF PlatformSpec
<1> QED
  BY <1>1

\* The cache keeps its contract whatever the back end: take is atomic and
\* consumes, what is gone does not come back, no get that starts later
\* returns it, and nothing outlives its period by more than the clocks differ.
THEOREM CacheContractHolds == ClosedInOrder /\ PlatformSpec => CacheContract
<1>1. PlatformInit => Kv!C!Init
  <2>1. SUFFICES ASSUME PlatformInit PROVE Kv!C!Init
    OBVIOUS
  <2>2. Kv!Init /\ \A k \in Keys : ~Kv!Alive(store[k])
    BY <2>1 DEF PlatformInit, Kv!Init, Kv!Alive
  <2> QED
    BY <2>2 DEF Kv!Init, Kv!C!Init, Kv!Live, Kv!Open
<1>2. CASE ClosedInOrder
  <2>1. PlatformInv /\ [PlatformNext]_<<part, vars, vKv>>
          => [Kv!C!Next]_<<Kv!Live, got, used \ {txn[w].value : w \in Kv!Open}>>
    <3>1. SUFFICES ASSUME PlatformInv, [PlatformNext]_<<part, vars, vKv>>
                   PROVE  [Kv!C!Next]_<<Kv!Live, got, used \ {txn[w].value : w \in Kv!Open}>>
      OBVIOUS
    <3>2. CASE UNCHANGED vKv
      BY <3>2 DEF vKv, Kv!Live, Kv!Open, Kv!Alive, Kv!PgAlive, Kv!RedbAlive, Kv!RedisAlive
    <3>3. CASE part = "kv" /\ Kv!Next
      BY <1>2, <3>1, <3>3, KvStep DEF PlatformInv
    <3> QED
      BY <3>1, <3>2, <3>3 DEF PlatformNext
  <2>2. PlatformInv => (part = "kv" => Kv!TypeOK /\ Kv!LifetimeBounded /\ Kv!ReadsNotTaken)
    BY KvKeeps DEF PlatformInv
  <2>3. PlatformSpec => []PlatformInv
    BY <1>2, PlatformInvariant
  <2> QED
    BY <1>1, <2>1, <2>2, <2>3, PTL DEF CacheContract, Kv!ImplementsContract, Kv!C!Spec, PlatformSpec
<1> QED
  BY <1>2
=============================================================================
