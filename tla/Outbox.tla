------------------------------- MODULE Outbox -------------------------------
(***************************************************************************)
(* infrastructure/event_bus seen from its callers: the transaction of the  *)
(* business change, the event that belongs to it, and what the subscriber  *)
(* writes.  EventBus models the dispatcher; here one delivery is one call. *)
(***************************************************************************)
EXTENDS Naturals, FiniteSets

CONSTANTS
    Changes,    \* business changes, each with one event
    InTx,       \* the changes whose event is published with publish_in_tx
    MaxAttempts,    \* attempts of a delivery
    MaxFaults   \* bound on crashes of the dispatcher

OutboxAssumption ==
    InTx \subseteq Changes /\ MaxAttempts \in Nat \ {0} /\ MaxFaults \in Nat

VARIABLES
    change,     \* its transaction: "none", "open", "committed" or "rolled_back"
    event,      \* its row in _pg_events: "none", "in_tx", "pending", "delivered", "failed"
    handler,    \* the call of the subscriber: "none", "called" or "wrote"
    effect,     \* what the subscriber wrote, committed on a connection of its own
    attempts,   \* errors of the subscriber that its delivery row counts
    faults

vars == <<change, event, handler, effect, attempts, faults>>

Init ==
    /\ change = [c \in Changes |-> "none"]
    /\ event = [c \in Changes |-> "none"]
    /\ handler = [c \in Changes |-> "none"]
    /\ effect = [c \in Changes |-> FALSE]
    /\ attempts = [c \in Changes |-> 0]
    /\ faults = 0

-----------------------------------------------------------------------------
(* The caller. *)

Begin(c) ==
    /\ change[c] = "none"
    /\ change' = [change EXCEPT ![c] = "open"]
    /\ UNCHANGED <<event, handler, effect, attempts, faults>>

\* publish, publish_with_delay: on a connection of the pool, committed at once.
Publish(c) ==
    /\ c \notin InTx /\ change[c] \in {"open", "committed"} /\ event[c] = "none"
    /\ event' = [event EXCEPT ![c] = "pending"]
    /\ UNCHANGED <<change, handler, effect, attempts, faults>>

\* Faulty form of PublishInTx: the executor is ignored.
PublishInTxIgnored(c) ==
    /\ c \in InTx /\ change[c] = "open" /\ event[c] = "none"
    /\ event' = [event EXCEPT ![c] = "pending"]
    /\ UNCHANGED <<change, handler, effect, attempts, faults>>

PublishInTx(c) ==
    /\ c \in InTx /\ change[c] = "open" /\ event[c] = "none"
    /\ event' = [event EXCEPT ![c] = "in_tx"]
    /\ UNCHANGED <<change, handler, effect, attempts, faults>>

\* The caller publishes before it commits, if it publishes in the transaction.
Commit(c) ==
    /\ change[c] = "open"
    /\ c \in InTx => event[c] = "in_tx"
    /\ change' = [change EXCEPT ![c] = "committed"]
    /\ event' = [event EXCEPT ![c] = IF @ = "in_tx" THEN "pending" ELSE @]
    /\ UNCHANGED <<handler, effect, attempts, faults>>

Rollback(c) ==
    /\ change[c] = "open"
    /\ change' = [change EXCEPT ![c] = "rolled_back"]
    /\ event' = [event EXCEPT ![c] = IF @ = "in_tx" THEN "none" ELSE @]
    /\ UNCHANGED <<handler, effect, attempts, faults>>

-----------------------------------------------------------------------------
(* deliver_one *)

\* Faulty form of CallHandler: a delivery is tried once.
CallHandlerOnce(c) ==
    /\ event[c] = "pending" /\ handler[c] = "none" /\ faults + attempts[c] = 0
    /\ handler' = [handler EXCEPT ![c] = "called"]
    /\ UNCHANGED <<change, event, effect, attempts, faults>>

CallHandler(c) ==
    /\ event[c] = "pending" /\ handler[c] = "none"
    /\ handler' = [handler EXCEPT ![c] = "called"]
    /\ UNCHANGED <<change, event, effect, attempts, faults>>

\* The handler has the context, not the dispatcher's transaction.
HandlerWrites(c) ==
    /\ handler[c] = "called"
    /\ handler' = [handler EXCEPT ![c] = "wrote"]
    /\ effect' = [effect EXCEPT ![c] = TRUE]
    /\ UNCHANGED <<change, event, attempts, faults>>

\* Faulty form of Delivered: the row is marked when the call begins to write.
DeliveredEarly(c) ==
    /\ handler[c] \in {"called", "wrote"}
    /\ event' = [event EXCEPT ![c] = "delivered"]
    /\ handler' = [handler EXCEPT ![c] = "none"]
    /\ UNCHANGED <<change, effect, attempts, faults>>

Delivered(c) ==
    /\ handler[c] = "wrote"
    /\ event' = [event EXCEPT ![c] = "delivered"]
    /\ handler' = [handler EXCEPT ![c] = "none"]
    /\ UNCHANGED <<change, effect, attempts, faults>>

\* record_delivery_retry: an error counts, and the one that uses up the
\* attempts ends the delivery; before, it is due again.
HandlerFails(c) ==
    /\ handler[c] # "none"
    /\ attempts' = [attempts EXCEPT ![c] = @ + 1]
    /\ event' = [event EXCEPT ![c] = IF attempts'[c] >= MaxAttempts THEN "failed" ELSE @]
    /\ handler' = [handler EXCEPT ![c] = "none"]
    /\ UNCHANGED <<change, effect, faults>>

\* A crash of the dispatcher rolls its transaction back: the delivery is due
\* again, and nothing counts the call.
Crashes(c) ==
    /\ handler[c] # "none" /\ faults < MaxFaults
    /\ handler' = [handler EXCEPT ![c] = "none"]
    /\ faults' = faults + 1
    /\ UNCHANGED <<change, event, effect, attempts>>

\* A panic ends the delivery at once.  ROLLBACK TO SAVEPOINT undoes what the
\* dispatcher's transaction wrote, which is not what the handler wrote.
Panics(c) ==
    /\ handler[c] # "none"
    /\ attempts' = [attempts EXCEPT ![c] = MaxAttempts]
    /\ event' = [event EXCEPT ![c] = "failed"]
    /\ handler' = [handler EXCEPT ![c] = "none"]
    /\ UNCHANGED <<change, effect, faults>>

-----------------------------------------------------------------------------
Next == \E c \in Changes :
    \/ Begin(c) \/ Publish(c) \/ PublishInTx(c) \/ Commit(c) \/ Rollback(c)
    \/ CallHandler(c) \/ HandlerWrites(c) \/ Delivered(c)
    \/ HandlerFails(c) \/ Crashes(c) \/ Panics(c)

Spec == Init /\ [][Next]_vars

\* The dispatcher polls and handlers return; callers may do nothing.
Fairness == \A c \in Changes :
    WF_vars(CallHandler(c)) /\ WF_vars(HandlerWrites(c)) /\ WF_vars(Delivered(c))
FairSpec == Spec /\ Fairness

-----------------------------------------------------------------------------
(* Properties. *)

Acts(c) == handler[c] # "none" \/ effect[c]

\* A subscriber acts only on a change that is committed, if its event was
\* published in the transaction.
InTxActsOnCommitted == \A c \in InTx : Acts(c) => change[c] = "committed"

\* A subscriber acts only on a change that is committed.
ActsOnCommitted == \A c \in Changes : Acts(c) => change[c] = "committed"

\* A change that is committed and published has its effect in time, unless
\* its handler panicked or used up the attempts of the delivery: no crash of
\* the dispatcher loses it.
CommittedHasEffect ==
    \A c \in Changes :
        (change[c] = "committed" /\ event[c] # "none")
          ~> (effect[c] \/ (event[c] = "failed" /\ attempts[c] = MaxAttempts))

\* No event counts as delivered whose subscriber has not done its work.
DeliveredHasEffect == \A c \in Changes : event[c] = "delivered" => effect[c]

\* A delivery that failed for good has left nothing behind.
PanicUndone == \A c \in Changes : event[c] = "failed" => ~effect[c]
=============================================================================
