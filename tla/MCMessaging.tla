----------------------------- MODULE MCMessaging ----------------------------
(***************************************************************************)
(* The ways an event takes, model-checked side by side: EventBus (the      *)
(* PostgreSQL dispatcher), NatsBus (the JetStream back end) and Outbox     *)
(* (the caller's transaction and the subscriber's writes).  A deployment   *)
(* uses one of them for an event, so part picks the one that moves; the    *)
(* others stay in their initial state.                                     *)
(***************************************************************************)
EXTENDS EventBus, TLC

CONSTANTS
    Consumers, Invalid, MaxDeliver, Prefetch, Outcomes, NatsFaults,     \* of NatsBus
    Changes, InTx, TxAttempts, TxFaults                                 \* of Outbox

VARIABLES
    part,
    stream, acked, count, pending, proc, task, fetched, running, called, failed, done, nats_faults,
    change, event, handler, effect, attempts, tx_faults

natsVars == <<stream, acked, count, pending, proc, task, fetched, running, called, failed, done, nats_faults>>
txVars == <<change, event, handler, effect, attempts, tx_faults>>

Nats == INSTANCE NatsBus WITH Handlers <- Consumers, MaxFaults <- NatsFaults, faults <- nats_faults

Tx == INSTANCE Outbox WITH MaxAttempts <- TxAttempts, MaxFaults <- TxFaults, faults <- tx_faults

ASSUME MessagingAssumption == Nats!NatsAssumption /\ Tx!OutboxAssumption

\* All processes run the same release.
SameRelease == [p \in Procs |-> Handlers]

MessagingInit ==
    /\ part \in {"pg", "nats", "tx"}
    /\ Init /\ Nats!Init /\ Tx!Init

MessagingNext ==
    \/ part = "pg" /\ Next /\ UNCHANGED <<part, natsVars, txVars>>
    \/ part = "nats" /\ Nats!Next /\ UNCHANGED <<part, vars, txVars>>
    \/ part = "tx" /\ Tx!Next /\ UNCHANGED <<part, vars, natsVars>>

vAll == <<part, vars, natsVars, txVars>>
MessagingSpec == MessagingInit /\ [][MessagingNext]_vAll

Symmetry == Permutations(Events) \cup Permutations(Handlers) \cup Permutations(Procs)

-----------------------------------------------------------------------------
(* Properties of NatsBus and Outbox. *)

\* A consumer has an ack for an event only if its handler has returned Ok for
\* it, with two processes on one message, late acks, errors and crashes; and
\* no handler is called more often than max_deliver for one event, in all
\* processes together.
NatsDelivery == Nats!TypeOK /\ Nats!AckedWasHandled /\ Nats!CallsBounded

\* A subscriber acts only on a change that is committed, if its event was
\* published in the transaction, and no event counts as delivered whose
\* subscriber has not done its work.
OutboxEffects == Tx!InTxActsOnCommitted /\ Tx!DeliveredHasEffect
=============================================================================
