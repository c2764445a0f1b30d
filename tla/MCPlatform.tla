----------------------------- MODULE MCPlatform -----------------------------
(***************************************************************************)
(* Two services that every domain leans on, model-checked side by side:    *)
(* the background jobs (JobQueue) and the cache (KvStore), whose sweep is  *)
(* itself a job.  part picks the one that moves, the other stays in its    *)
(* initial state.                                                          *)
(***************************************************************************)
EXTENDS JobQueue, TLC

CONSTANTS
    Backends, Crashing, Keys, Values, Numbers, Periods, Skew,   \* of the cache
    MaxNow, MaxRestarts, MaxCrashes, None

VARIABLES part, backend, store, durable, now, txn, got, answer, used, taken, restarts, crashes

vKv == <<backend, store, durable, now, txn, got, answer, used, taken, restarts, crashes>>

\* The clock of PostgreSQL is behind.  redb is closed in order: its crashes
\* lose what is not on disk.
Kv == INSTANCE KvStore WITH Workers <- Procs
Behind == -1

ASSUME PlatformAssumption == Kv!KvAssumption

\* Any one will do while the jobs move.
Unused == CHOOSE b \in Backends : TRUE

PlatformInit ==
    /\ part \in {"jobs", "kv"}
    /\ Init /\ Kv!Init
    /\ part # "kv" => backend = Unused

PlatformNext ==
    \/ part = "jobs" /\ Next /\ UNCHANGED <<part, vKv>>
    \/ part = "kv" /\ Kv!Next /\ UNCHANGED <<part, vars>>

PlatformSpec == PlatformInit /\ [][PlatformNext]_<<part, vars, vKv>>

\* The sets of the two parts may share their members: only one moves.
Symmetry == Permutations(Jobs) \cup Permutations(Procs)

-----------------------------------------------------------------------------
(* Properties of KvStore. *)

\* What a caller of the cache may rely on, whatever the back end: take is
\* atomic and consumes; a value that expired, was swept, deleted, taken or
\* lost in a crash does not come back; no get that starts after a value was
\* consumed returns it; and a value lives no longer than its period, give or
\* take the difference between the clocks.
CacheContract ==
    /\ Kv!ImplementsContract
    /\ [](part = "kv" => Kv!TypeOK /\ Kv!LifetimeBounded /\ Kv!ReadsNotTaken)
=============================================================================
