------------------------------ MODULE KvStore -------------------------------
(***************************************************************************)
(* infrastructure/kv: the cache behind the token sessions, with its three  *)
(* back ends.                                                              *)
(*                                                                         *)
(* pg: rows with expires_at by the clock of the application, compared with *)
(* the clock of the server.  redb: an embedded file, one write transaction *)
(* at a time, never fsynced.  redis: keys with a TTL in whole seconds.     *)
(* Time runs in half seconds.                                              *)
(***************************************************************************)
EXTENDS Integers, FiniteSets

CONSTANTS
    Backends,   \* the back ends configured: of "pg", "redb" and "redis"
    Workers, Keys,
    Values,     \* each is written once
    Numbers,    \* the values that are numbers; the others are strings
    Periods,    \* periods of set_ex, in half seconds
    Skew,       \* the clock of PostgreSQL minus the clock of the application
    MaxNow,     \* bound on the clock
    Crashing,   \* the back ends whose crashes are explored
    MaxRestarts, MaxCrashes,    \* bounds on the orderly restarts and on the crashes
    None

KvAssumption ==
    /\ Backends \subseteq {"pg", "redb", "redis"} /\ Crashing \subseteq Backends
    /\ Numbers \subseteq Values /\ None \notin Values
    /\ Periods \subseteq Nat /\ Skew \in Int
    /\ MaxNow \in Nat /\ MaxRestarts \in Nat /\ MaxCrashes \in Nat

VARIABLES
    backend,    \* the one the process was built and configured for
    store,      \* the table, file or key space: [value, expires, until], or Absent
    durable,    \* redb: what a crash falls back to
    now,        \* the clock of the application
    txn,        \* the call of each worker, or Idle
    got,        \* what the last take returned
    answer,     \* what the last get returned, for ReadsNotTaken
    used,       \* values already written
    taken,      \* values that take returned, or removed
    restarts, crashes

vars == <<backend, store, durable, now, txn, got, answer, used, taken, restarts, crashes>>

Absent == [row |-> "absent"]
Idle == [op |-> "idle"]
NoAnswer == [value |-> None, before |-> {}]

Init ==
    /\ backend \in Backends
    /\ store = [k \in Keys |-> Absent]
    /\ durable = store
    /\ now = 0
    /\ txn = [w \in Workers |-> Idle]
    /\ got = None
    /\ answer = NoAnswer
    /\ used = {} /\ taken = {}
    /\ restarts = 0 /\ crashes = 0

-----------------------------------------------------------------------------
(* Expiry. *)

\* Faulty form of PgAlive: SELECT without the condition on expires_at.
PgAliveAny(e) == e # Absent

PgAlive(e) == e.expires > now + Skew
RedbAlive(e) == e.expires >= now
RedisAlive(e) == e.expires > now

Alive(e) ==
    /\ e # Absent
    /\ CASE backend = "pg" -> PgAlive(e)
         [] backend = "redb" -> RedbAlive(e)
         [] backend = "redis" -> RedisAlive(e)

\* Faulty form of RedisExpiry: SET without EX.
RedisExpiryNone(period) == MaxNow + 1

\* period.as_secs(): what is below a second is cut off.
RedisExpiry(period) == now + 2 * (period \div 2)

-----------------------------------------------------------------------------
(* set_ex: pg and redb compute expires_at before the write gets its turn,   *)
(* Redis counts from its arrival and refuses a TTL of zero seconds.         *)

SetStart(w, k) ==
    /\ txn[w] = Idle
    /\ \E v \in Values \ used, period \in Periods :
         /\ used' = used \cup {v}
         /\ txn' = [txn EXCEPT ![w] =
              [op |-> "set", key |-> k, value |-> v, expires |-> now + period, period |-> period]]
    /\ UNCHANGED <<backend, store, durable, now, got, answer, taken, restarts, crashes>>

SetWrite(w) ==
    /\ txn[w] # Idle /\ txn[w].op = "set"
    /\ LET t == txn[w]
           entry(expires) == [value |-> t.value, expires |-> expires, until |-> now + t.period]
       IN  store' = CASE backend # "redis" -> [store EXCEPT ![t.key] = entry(t.expires)]
                      [] backend = "redis" /\ t.period \div 2 = 0 -> store
                      [] OTHER -> [store EXCEPT ![t.key] = entry(RedisExpiry(t.period))]
    /\ txn' = [txn EXCEPT ![w] = Idle]
    /\ UNCHANGED <<backend, durable, now, got, answer, used, taken, restarts, crashes>>

-----------------------------------------------------------------------------
(* take, del, delete_expired: one statement, transaction or command. *)

\* serde_json::from_str(..).ok(): a value of another type reads as nothing.
Decode(v, asked) == IF v \in Numbers <=> asked = "number" THEN v ELSE None

Remove(S) == [k \in Keys |-> IF k \in S THEN Absent ELSE store[k]]

\* Faulty form of Taken: read first, delete later.
TakenKept(k) == store

\* pg deletes only a living row, redb and Redis whatever is there.
Taken(k) == IF backend = "pg" /\ ~Alive(store[k]) THEN store ELSE Remove({k})

Take(w, k, asked) ==
    /\ txn[w] = Idle
    /\ store' = Taken(k)
    /\ got' = IF Alive(store[k]) THEN Decode(store[k].value, asked) ELSE None
    /\ taken' = IF Alive(store[k]) THEN taken \cup {store[k].value} ELSE taken
    /\ UNCHANGED <<backend, durable, now, txn, answer, used, restarts, crashes>>

Del(k) ==
    /\ store' = Remove({k})
    /\ UNCHANGED <<backend, durable, now, txn, got, answer, used, taken, restarts, crashes>>

DeletePg == {k \in Keys : store[k] # Absent /\ store[k].expires < now + Skew}
DeleteRedb == {k \in Keys : store[k] # Absent /\ store[k].expires < now}

\* The cron job KvGc; Redis has nothing to sweep.
DeleteExpired ==
    /\ store' = CASE backend = "pg" -> Remove(DeletePg)
                  [] backend = "redb" -> Remove(DeleteRedb)
                  [] backend = "redis" -> store
    /\ UNCHANGED <<backend, durable, now, txn, got, answer, used, taken, restarts, crashes>>

-----------------------------------------------------------------------------
(* get: redb reads in a snapshot and looks at the clock afterwards. *)

\* Faulty form of GetRead: it reads the last durable commit.
GetDurable(w, k, asked) ==
    /\ txn[w] = Idle
    /\ txn' = [txn EXCEPT ![w] =
         [op |-> "get", entry |-> durable[k], asked |-> asked, before |-> taken]]
    /\ UNCHANGED <<backend, store, durable, now, got, answer, used, taken, restarts, crashes>>

GetRead(w, k, asked) ==
    /\ txn[w] = Idle
    /\ txn' = [txn EXCEPT ![w] =
         [op |-> "get", entry |-> store[k], asked |-> asked, before |-> taken]]
    /\ UNCHANGED <<backend, store, durable, now, got, answer, used, taken, restarts, crashes>>

\* Faulty form of Shown: the envelope is returned, not the value in it.
ShownEntry(w) == IF Alive(txn[w].entry) THEN txn[w].entry ELSE None

Shown(w) ==
    IF Alive(txn[w].entry) THEN Decode(txn[w].entry.value, txn[w].asked) ELSE None

GetAnswer(w) ==
    /\ txn[w] # Idle /\ txn[w].op = "get"
    /\ answer' = [value |-> Shown(w), before |-> txn[w].before]
    /\ txn' = [txn EXCEPT ![w] = Idle]
    /\ UNCHANGED <<backend, store, durable, now, got, used, taken, restarts, crashes>>

-----------------------------------------------------------------------------

Tick ==
    /\ now < MaxNow
    /\ now' = now + 1
    /\ UNCHANGED <<backend, store, durable, txn, got, answer, used, taken, restarts, crashes>>

\* redb: closing the file writes it out (Drop of Database).
Restart ==
    /\ backend = "redb" /\ restarts < MaxRestarts
    /\ durable' = store
    /\ txn' = [w \in Workers |-> Idle]
    /\ restarts' = restarts + 1
    /\ UNCHANGED <<backend, store, now, got, answer, used, taken, crashes>>

\* A crash of the server empties the UNLOGGED table, one of the process
\* loses what redb has not written out; Redis is a process of its own.
Crash ==
    /\ backend \in Crashing /\ crashes < MaxCrashes
    /\ store' = CASE backend = "pg" -> [k \in Keys |-> Absent]
                  [] backend = "redb" -> durable
                  [] backend = "redis" -> store
    /\ txn' = [w \in Workers |-> Idle]
    /\ crashes' = crashes + 1
    /\ UNCHANGED <<backend, durable, now, got, answer, used, taken, restarts>>

Next ==
    \/ \E w \in Workers :
         \/ \E k \in Keys : SetStart(w, k)
         \/ \E k \in Keys, asked \in {"number", "string"} : Take(w, k, asked) \/ GetRead(w, k, asked)
         \/ SetWrite(w) \/ GetAnswer(w)
    \/ \E k \in Keys : Del(k)
    \/ DeleteExpired \/ Tick \/ Restart \/ Crash

Spec == Init /\ [][Next]_vars

-----------------------------------------------------------------------------
(* Properties. *)

\* Type correctness of entries and calls.
TypeOK ==
    /\ \A k \in Keys : store[k] = Absent \/ store[k] \in [value: used, expires: Nat, until: Nat]
    /\ \A w \in Workers : txn[w] # Idle => txn[w].op \in {"set", "get"}
    /\ got \in Values \cup {None}
    /\ answer.value \in Values \cup {None}
    /\ taken \subseteq used

\* A value lives no longer than its period after it was written, give or
\* take the difference between the clocks.
LifetimeBounded ==
    \A k \in Keys : Alive(store[k]) => 
        now <= store[k].until + (IF backend = "pg" /\ Skew < 0 THEN -Skew ELSE 0)

\* Once a value was consumed, no get that starts later returns it.
ReadsNotTaken == answer.value # None => answer.value \notin answer.before

\* A value that take consumed is gone: no key has it any more.
ConsumedStaysConsumed == \A k \in Keys : Alive(store[k]) => store[k].value \notin taken

Open == {w \in Workers : txn[w] # Idle /\ txn[w].op = "set"}
Live == [k \in Keys |-> IF Alive(store[k]) THEN store[k].value ELSE None]

\* The back end implements the contract of the cache: take is atomic and
\* consumes, and a value that expired, was swept, deleted, taken or lost in
\* a crash does not come back.
C == INSTANCE KvContract WITH
    live <- Live, got <- got, spent <- used \ {txn[w].value : w \in Open}
ImplementsContract == C!Spec
=============================================================================
