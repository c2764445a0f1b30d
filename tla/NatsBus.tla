------------------------------ MODULE NatsBus -------------------------------
(***************************************************************************)
(* The NATS back end of infrastructure/event_bus: events go straight to a  *)
(* JetStream stream, outside of the caller's transaction, and every        *)
(* subscriber has a durable pull consumer that the processes share.        *)
(*                                                                         *)
(* One topic is modelled: a consumer filters its own.  What JetStream does *)
(* (counting deliveries, ack_wait, limits, schedules, the messages a pull  *)
(* consumer fetches ahead) is external and taken from how the code sets it *)
(* up.                                                                     *)
(***************************************************************************)
EXTENDS Naturals, FiniteSets, Sequences, SequencesExt

CONSTANTS
    Events, Handlers, Procs,
    Invalid,    \* events whose payload is no JSON
    MaxDeliver, \* max_deliver of the consumers
    Prefetch,   \* messages a consumer fetches ahead
    Outcomes,   \* what a handler may do: a subset of {"ok", "err", "panic"}
    MaxFaults,  \* bound on crashes and lost acks
    None

NatsAssumption ==
    /\ IsFiniteSet(Procs) /\ Invalid \subseteq Events
    /\ MaxDeliver \in Nat \ {0} /\ Prefetch \in Nat \ {0} /\ MaxFaults \in Nat
    /\ Outcomes \subseteq {"ok", "err", "panic"}
    /\ None \notin Events

VARIABLES
    stream,     \* of each event: "new", "scheduled", "stored" or "gone"
    acked,      \* events each durable consumer has an ack for
    count,      \* times each consumer was handed each event
    pending,    \* events each consumer waits for an ack of
    proc,       \* of each process: "down", "up" or "stopping"
    task,       \* the task of each handler in it: "ended", "up" or "dead"
    fetched,    \* messages the task has fetched and not looked at
    running,    \* the event its handler works on, or None
    called, failed, done,   \* history: calls, errors and successes
    faults

server == <<stream, acked, count, pending>>
local == <<proc, task, fetched, running>>
history == <<called, failed, done>>
vars == <<server, local, history, faults>>

\* Nothing was published yet.
NothingPublished ==
    /\ stream = [e \in Events |-> "new"]
    /\ acked = [h \in Handlers |-> {}]
    /\ pending = [h \in Handlers |-> {}]
    /\ count = [h \in Handlers |-> [e \in Events |-> 0]]
    /\ fetched = [p \in Procs |-> [h \in Handlers |-> <<>>]]
    /\ running = [p \in Procs |-> [h \in Handlers |-> None]]
    /\ called = [h \in Handlers |-> [e \in Events |-> 0]]
    /\ failed = called
    /\ done = [h \in Handlers |-> {}]
    /\ faults = 0

Init ==
    /\ NothingPublished
    /\ proc = [p \in Procs |-> "down"]
    /\ task = [p \in Procs |-> [h \in Handlers |-> "ended"]]

-----------------------------------------------------------------------------
(* The stream. *)

\* publish and publish_in_tx are the same: no part of a transaction.
Publish(e) ==
    /\ stream[e] = "new"
    /\ stream' = [stream EXCEPT ![e] = "stored"]
    /\ UNCHANGED <<acked, count, pending, local, history, faults>>

PublishDelayed(e) ==
    /\ stream[e] = "new"
    /\ stream' = [stream EXCEPT ![e] = "scheduled"]
    /\ UNCHANGED <<acked, count, pending, local, history, faults>>

ScheduleFires(e) ==
    /\ stream[e] = "scheduled"
    /\ stream' = [stream EXCEPT ![e] = "stored"]
    /\ UNCHANGED <<acked, count, pending, local, history, faults>>

\* max_age and max_bytes, whether it was consumed or not.
LimitReached(e) ==
    /\ stream[e] = "stored" /\ faults < MaxFaults
    /\ stream' = [stream EXCEPT ![e] = "gone"]
    /\ faults' = faults + 1
    /\ UNCHANGED <<acked, count, pending, local, history>>

\* Faulty form of Redeliverable: max_deliver is not set.
RedeliverableForever(h, e) ==
    /\ stream[e] = "stored"
    /\ e \notin acked[h] \cup pending[h]
    /\ count[h][e] <= MaxDeliver

\* Faulty form of Redeliverable: a message is handed out once.
DeliverOnce(h, e) == stream[e] = "stored" /\ count[h][e] = 0

Redeliverable(h, e) ==
    /\ stream[e] = "stored"
    /\ e \notin acked[h] \cup pending[h]
    /\ count[h][e] < MaxDeliver

Deliver(p, h, e) ==
    /\ task[p][h] = "up" /\ Len(fetched[p][h]) < Prefetch
    /\ Redeliverable(h, e)
    /\ count' = [count EXCEPT ![h][e] = @ + 1]
    /\ pending' = [pending EXCEPT ![h] = @ \cup {e}]
    /\ fetched' = [fetched EXCEPT ![p][h] = Append(@, e)]
    /\ UNCHANGED <<stream, acked, proc, task, running, history, faults>>

\* Not acked in time: whoever holds the message may still work on it.
AckWaitOver(h, e) ==
    /\ e \in pending[h]
    /\ pending' = [pending EXCEPT ![h] = @ \ {e}]
    /\ UNCHANGED <<stream, acked, count, local, history, faults>>

-----------------------------------------------------------------------------
(* run_nats_dispatcher: one task per handler. *)

\* messages.next(): a message that does not parse is skipped without an ack.
NextMessage(p, h) ==
    /\ task[p][h] = "up" /\ running[p][h] = None /\ fetched[p][h] # <<>>
    /\ LET e == Head(fetched[p][h])
       IN  IF e \in Invalid THEN UNCHANGED <<running, called>>
           ELSE /\ running' = [running EXCEPT ![p][h] = e]
                /\ called' = [called EXCEPT ![h][e] = @ + 1]
    /\ fetched' = [fetched EXCEPT ![p][h] = Tail(@)]
    /\ UNCHANGED <<server, proc, task, failed, done, faults>>

HandlerOk(p, h) ==
    /\ "ok" \in Outcomes /\ running[p][h] # None
    /\ done' = [done EXCEPT ![h] = @ \cup {running[p][h]}]
    /\ \/ /\ acked' = [acked EXCEPT ![h] = @ \cup {running[p][h]}]
          /\ pending' = [pending EXCEPT ![h] = @ \ {running[p][h]}]
          /\ UNCHANGED faults
       \/ /\ faults < MaxFaults /\ faults' = faults + 1      \* ack failed: a warning
          /\ UNCHANGED <<acked, pending>>
    /\ running' = [running EXCEPT ![p][h] = None]
    /\ UNCHANGED <<stream, count, proc, task, fetched, called, failed>>

\* Faulty form of HandlerErr: the message is acked all the same.
ErrAcks(p, h) ==
    /\ "err" \in Outcomes /\ running[p][h] # None
    /\ failed' = [failed EXCEPT ![h][running[p][h]] = @ + 1]
    /\ acked' = [acked EXCEPT ![h] = @ \cup {running[p][h]}]
    /\ running' = [running EXCEPT ![p][h] = None]
    /\ UNCHANGED <<stream, count, pending, proc, task, fetched, called, done, faults>>

\* No ack: redelivered after ack_wait.
HandlerErr(p, h) ==
    /\ "err" \in Outcomes /\ running[p][h] # None
    /\ failed' = [failed EXCEPT ![h][running[p][h]] = @ + 1]
    /\ running' = [running EXCEPT ![p][h] = None]
    /\ UNCHANGED <<server, proc, task, fetched, called, done, faults>>

\* Nothing catches it: the task ends, the process and its other tasks go on.
HandlerPanics(p, h) ==
    /\ "panic" \in Outcomes /\ running[p][h] # None
    /\ task' = [task EXCEPT ![p][h] = "dead"]
    /\ running' = [running EXCEPT ![p][h] = None]
    /\ fetched' = [fetched EXCEPT ![p][h] = <<>>]
    /\ UNCHANGED <<server, proc, history, faults>>

\* The consumers are created, or found, before the tasks are spawned.
Start(p) ==
    /\ proc[p] = "down"
    /\ proc' = [proc EXCEPT ![p] = "up"]
    /\ task' = [task EXCEPT ![p] = [h \in Handlers |-> "up"]]
    /\ UNCHANGED <<server, fetched, running, history, faults>>

Shutdown(p) ==
    /\ proc[p] = "up" /\ faults < MaxFaults
    /\ proc' = [proc EXCEPT ![p] = "stopping"]
    /\ faults' = faults + 1
    /\ UNCHANGED <<server, task, fetched, running, history>>

\* Faulty form of EndTask: what was fetched is kept.
EndKeepsFetched(p, h) ==
    /\ proc[p] = "stopping" /\ task[p][h] = "up" /\ running[p][h] = None
    /\ task' = [task EXCEPT ![p][h] = "ended"]
    /\ UNCHANGED <<server, proc, fetched, running, history, faults>>

\* select! sees the signal between two messages, at once or after some more;
\* what was fetched is dropped.
EndTask(p, h) ==
    /\ proc[p] = "stopping" /\ task[p][h] = "up" /\ running[p][h] = None
    /\ task' = [task EXCEPT ![p][h] = "ended"]
    /\ fetched' = [fetched EXCEPT ![p][h] = <<>>]
    /\ UNCHANGED <<server, proc, running, history, faults>>

\* The dispatcher waits for its tasks.
Exit(p) ==
    /\ proc[p] = "stopping" /\ \A h \in Handlers : task[p][h] # "up"
    /\ proc' = [proc EXCEPT ![p] = "down"]
    /\ task' = [task EXCEPT ![p] = [h \in Handlers |-> "ended"]]
    /\ UNCHANGED <<server, fetched, running, history, faults>>

Crash(p) ==
    /\ faults < MaxFaults /\ proc[p] # "down"
    /\ proc' = [proc EXCEPT ![p] = "down"]
    /\ task' = [task EXCEPT ![p] = [h \in Handlers |-> "ended"]]
    /\ fetched' = [fetched EXCEPT ![p] = [h \in Handlers |-> <<>>]]
    /\ running' = [running EXCEPT ![p] = [h \in Handlers |-> None]]
    /\ faults' = faults + 1
    /\ UNCHANGED <<server, history>>

-----------------------------------------------------------------------------

Next ==
    \/ \E e \in Events : Publish(e) \/ PublishDelayed(e) \/ ScheduleFires(e) \/ LimitReached(e)
    \/ \E h \in Handlers, e \in Events : AckWaitOver(h, e) \/ \E p \in Procs : Deliver(p, h, e)
    \/ \E p \in Procs, h \in Handlers :
         NextMessage(p, h) \/ HandlerOk(p, h) \/ HandlerErr(p, h) \/ HandlerPanics(p, h) \/ EndTask(p, h)
    \/ \E p \in Procs : Start(p) \/ Shutdown(p) \/ Exit(p) \/ Crash(p)

Spec == Init /\ [][Next]_vars

\* JetStream redelivers and fires schedules, tasks poll, handlers return, and a
\* process that is down is started again.
Fairness ==
    /\ \A e \in Events : WF_vars(ScheduleFires(e))
    /\ \A h \in Handlers, e \in Events :
         WF_vars(AckWaitOver(h, e)) /\ WF_vars(\E p \in Procs : Deliver(p, h, e))
    /\ \A p \in Procs, h \in Handlers :
         WF_vars(NextMessage(p, h)) /\ WF_vars(HandlerOk(p, h) \/ HandlerErr(p, h))
         /\ WF_vars(EndTask(p, h))
    /\ \A p \in Procs : WF_vars(Start(p)) /\ WF_vars(Exit(p))
FairSpec == Spec /\ Fairness

-----------------------------------------------------------------------------
(* Properties. *)

\* Type correctness.
TypeOK ==
    /\ stream \in [Events -> {"new", "scheduled", "stored", "gone"}]
    /\ \A h \in Handlers :
         acked[h] \subseteq Events /\ pending[h] \subseteq Events /\ done[h] \subseteq Events
    /\ \A h \in Handlers, e \in Events : count[h][e] \in Nat
    /\ \A p \in Procs, h \in Handlers :
         /\ proc[p] \in {"down", "up", "stopping"} /\ task[p][h] \in {"ended", "up", "dead"}
         /\ Range(fetched[p][h]) \subseteq Events /\ running[p][h] \in Events \cup {None}
         /\ task[p][h] # "up" => fetched[p][h] = <<>> /\ running[p][h] = None

\* A consumer has an ack for an event only if its handler has returned Ok for
\* it: with two processes on one message, late acks, errors and crashes.
AckedWasHandled == \A h \in Handlers : acked[h] \subseteq done[h]

\* No handler is called more often than max_deliver for one event, in all
\* processes together.
CallsBounded == \A h \in Handlers, e \in Events : called[h][e] <= MaxDeliver

\* Acked, given up or dropped by the stream.
Settled(h, e) == e \in acked[h] \/ stream[e] = "gone"
              \/ (count[h][e] = MaxDeliver /\ e \notin pending[h])

\* A panic has ended the task of the handler in every process; only a restart
\* of one brings it back.
Deserted(h) == \A p \in Procs : task[p][h] = "dead"

\* Every event in the stream ends up acked by each handler, or given up, as
\* long as the handler has a task anywhere: no interleaving of crashes,
\* restarts, panics and redeliveries leaves it in between.
EventsSettle ==
    \A h \in Handlers, e \in Events : stream[e] = "stored" ~> (Settled(h, e) \/ Deserted(h))

\* What a handler is given up on, it has failed for max_deliver times.
DroppedAfterFailures ==
    \A h \in Handlers, e \in Events \ Invalid :
        count[h][e] = MaxDeliver /\ e \notin acked[h] \cup pending[h] \cup done[h]
            /\ (\A p \in Procs : running[p][h] # e /\ e \notin Range(fetched[p][h]))
        => failed[h][e] = MaxDeliver

\* EventBus::backlog: the messages of the stream, and the ones not consumed.
Backlog == Cardinality({e \in Events : stream[e] \in {"stored", "scheduled"}})
Unconsumed ==
    Cardinality({e \in Events :
        stream[e] = "scheduled" \/ (stream[e] = "stored" /\ \E h \in Handlers : e \notin acked[h])})

\* The number of pending events that backlog reports is the number of events
\* not yet consumed.
BacklogIsUnconsumed == Backlog = Unconsumed
=============================================================================
