-------------------------- MODULE Messaging_proofs --------------------------
(***************************************************************************)
(* Proofs about the messaging modules.  NatsBus: deliveries are counted    *)
(* through the queues of all processes.  Outbox: an event leaves its       *)
(* transaction by the commit.  EventBus, in layers: the types, the         *)
(* ownership of events by the transaction that locked them, and what rests *)
(* on it.                                                                  *)
(***************************************************************************)
EXTENDS MCMessaging, Sequences, SequenceTheorems, SumLemmas, TLAPS

-----------------------------------------------------------------------------
(* NatsBus: every call was a delivery.  A message that was delivered is    *)
(* fetched, called or dropped, so that the calls of a handler and the      *)
(* copies of the message that processes still have are at most the         *)
(* deliveries that JetStream counted.                                      *)

Places(s, e) == {i \in DOMAIN s : s[i] = e}
Copies(s, e) == Cardinality(Places(s, e))
Queues == [Procs -> [Consumers -> Seq(Events)]]
CopiesOf(F, h, e) == [p \in Procs |-> Copies(F[p][h], e)]
InQueues(F, h, e) == SumFunctionOnSet(CopiesOf(F, h, e), Procs)

LEMMA ProcsFinite == IsFiniteSet(Procs)
BY MessagingAssumption DEF MessagingAssumption, Nats!NatsAssumption, Nats!IsFiniteSet, IsFiniteSet

LEMMA CopiesNat ==
    ASSUME NEW s \in Seq(Events), NEW e
    PROVE  Copies(s, e) \in Nat /\ IsFiniteSet(Places(s, e))
<1>1. IsFiniteSet(1..Len(s)) /\ Places(s, e) \in SUBSET (1..Len(s))
  BY FS_Interval DEF Places
<1>2. IsFiniteSet(Places(s, e))
  BY <1>1, FS_Subset
<1> QED
  BY <1>2, FS_CardinalityType DEF Copies

LEMMA CopiesEmpty ==
    ASSUME NEW e
    PROVE  Copies(<<>>, e) = 0
<1>1. Places(<<>>, e) = {}
  BY DEF Places
<1> QED
  BY <1>1, FS_EmptySet DEF Copies

LEMMA CopiesAppend ==
    ASSUME NEW s \in Seq(Events), NEW x \in Events, NEW e
    PROVE  Copies(Append(s, x), e) = Copies(s, e) + (IF x = e THEN 1 ELSE 0)
<1>1. Len(s) \in Nat /\ DOMAIN s = 1..Len(s) /\ DOMAIN Append(s, x) = 1..(Len(s) + 1)
  OBVIOUS
<1>2. \A i \in 1..Len(s) : Append(s, x)[i] = s[i]
  OBVIOUS
<1>3. Append(s, x)[Len(s) + 1] = x
  OBVIOUS
<1>4. IsFiniteSet(Places(s, e)) /\ Len(s) + 1 \notin Places(s, e)
  <2>1. Len(s) + 1 \notin DOMAIN s
    BY <1>1
  <2> QED
    BY <2>1, CopiesNat DEF Places
<1>5. CASE x = e
  <2>1. Places(Append(s, x), e) = Places(s, e) \cup {Len(s) + 1}
    BY <1>1, <1>2, <1>3, <1>5 DEF Places
  <2>2. Cardinality(Places(s, e) \cup {Len(s) + 1}) = Cardinality(Places(s, e)) + 1
    BY <1>4, FS_AddElement
  <2> QED
    BY <2>1, <2>2, <1>5 DEF Copies
<1>6. CASE x # e
  <2>1. Places(Append(s, x), e) = Places(s, e)
    BY <1>1, <1>2, <1>3, <1>6 DEF Places
  <2> QED
    BY <2>1, <1>6, CopiesNat DEF Copies
<1> QED
  BY <1>5, <1>6

LEMMA CopiesTail ==
    ASSUME NEW s \in Seq(Events), s # <<>>, NEW e
    PROVE  /\ Copies(s, e) = Copies(Tail(s), e) + (IF Head(s) = e THEN 1 ELSE 0)
           /\ Tail(s) \in Seq(Events) /\ Head(s) \in Events
<1>1. /\ Len(s) \in Nat \ {0} /\ DOMAIN s = 1..Len(s) /\ DOMAIN Tail(s) = 1..(Len(s) - 1)
      /\ Head(s) = s[1] /\ \A i \in 1..(Len(s) - 1) : Tail(s)[i] = s[i + 1]
      /\ Tail(s) \in Seq(Events) /\ Head(s) \in Events
  BY EmptySeq, HeadTailProperties
<1>2. PICK A : A = Places(s, e) \ {1}
  OBVIOUS
<1>3. /\ IsFiniteSet(Places(s, e)) /\ IsFiniteSet(Places(Tail(s), e)) /\ IsFiniteSet(A)
      /\ Copies(s, e) \in Nat
  BY <1>1, <1>2, CopiesNat, FS_Subset
<1>4. Cardinality(Places(Tail(s), e)) = Cardinality(A)
  <2> DEFINE shift == [i \in Places(Tail(s), e) |-> i + 1]
  <2>1. shift \in Bijection(Places(Tail(s), e), A)
    <3>1. shift \in [Places(Tail(s), e) -> A]
      BY <1>1, <1>2 DEF Places
    <3>2. \A i, j \in Places(Tail(s), e) : shift[i] = shift[j] => i = j
      BY <1>1 DEF Places
    <3>3. \A k \in A : \E i \in Places(Tail(s), e) : shift[i] = k
      <4>1. ASSUME NEW k \in A PROVE k - 1 \in Places(Tail(s), e) /\ shift[k - 1] = k
        BY <1>1, <1>2 DEF Places
      <4> QED
        BY <4>1
    <3> QED
      BY <3>1, <3>2, <3>3 DEF Bijection, Injection, Surjection, IsInjective
  <2> HIDE DEF shift
  <2> QED
    BY <2>1, <1>3, FS_Bijection DEF ExistsBijection
<1>5. CASE s[1] = e
  <2>1. 1 \in Places(s, e)
    BY <1>1, <1>5 DEF Places
  <2>2. Cardinality(A) = Cardinality(Places(s, e)) - 1
    BY <2>1, <1>2, <1>3, FS_RemoveElement
  <2> QED
    BY <2>2, <1>1, <1>3, <1>4, <1>5 DEF Copies
<1>6. CASE s[1] # e
  <2>1. A = Places(s, e)
    BY <1>1, <1>2, <1>6 DEF Places
  <2> QED
    BY <2>1, <1>1, <1>3, <1>4, <1>6 DEF Copies
<1> QED
  BY <1>5, <1>6

\* What the queue of one process holds more or less, all of them do.
LEMMA InQueuesUpdate ==
    ASSUME NEW F \in Queues, NEW G \in Queues, NEW p \in Procs,
           \A q \in Procs \ {p} : G[q] = F[q],
           NEW h \in Consumers, NEW e
    PROVE  /\ InQueues(G, h, e) = InQueues(F, h, e) - Copies(F[p][h], e) + Copies(G[p][h], e)
           /\ InQueues(F, h, e) \in Nat
<1>1. \A q \in Procs : CopiesOf(F, h, e)[q] \in Nat /\ CopiesOf(G, h, e)[q] \in Nat
  BY CopiesNat DEF CopiesOf, Queues
<1>2. \A q \in Procs \ {p} : CopiesOf(G, h, e)[q] = CopiesOf(F, h, e)[q]
  BY DEF CopiesOf
<1>3. InQueues(G, h, e) = InQueues(F, h, e) - CopiesOf(F, h, e)[p] + CopiesOf(G, h, e)[p]
  BY <1>1, <1>2, ProcsFinite, SumUpdate DEF InQueues
<1>4. InQueues(F, h, e) \in Nat
  BY <1>1, ProcsFinite, SumNat DEF InQueues
<1> QED
  BY <1>3, <1>4 DEF CopiesOf

-----------------------------------------------------------------------------
NatsTypes ==
    /\ stream \in [Events -> {"new", "scheduled", "stored", "gone"}]
    /\ acked \in [Consumers -> SUBSET Events]
    /\ pending \in [Consumers -> SUBSET Events]
    /\ done \in [Consumers -> SUBSET Events]
    /\ count \in [Consumers -> [Events -> Nat]]
    /\ called \in [Consumers -> [Events -> Nat]]
    /\ proc \in [Procs -> {"down", "up", "stopping"}]
    /\ task \in [Procs -> [Consumers -> {"ended", "up", "dead"}]]
    /\ fetched \in Queues
    /\ running \in [Procs -> [Consumers -> Events \cup {None}]]

\* A task that does not run holds no message.
TasksIdle ==
    \A p \in Procs, h \in Consumers :
        task[p][h] # "up" => fetched[p][h] = <<>> /\ running[p][h] = None

\* Every call and every fetched copy was delivered, and no delivery is counted
\* past max_deliver.
DeliveriesCounted ==
    \A h \in Consumers, e \in Events :
        called[h][e] + InQueues(fetched, h, e) <= count[h][e] /\ count[h][e] <= MaxDeliver

NatsInv == NatsTypes /\ TasksIdle /\ Nats!AckedWasHandled /\ DeliveriesCounted

LEMMA NatsTypesInit == Nats!Init => NatsTypes /\ TasksIdle /\ Nats!AckedWasHandled
BY DEF Nats!Init, Nats!NothingPublished, NatsTypes, TasksIdle, Nats!AckedWasHandled, Queues

LEMMA DeliveriesInit == Nats!Init => DeliveriesCounted
<1>1. SUFFICES ASSUME Nats!Init, NEW h \in Consumers, NEW e \in Events
               PROVE  /\ called[h][e] + InQueues(fetched, h, e) <= count[h][e]
                      /\ count[h][e] <= MaxDeliver
  BY DEF DeliveriesCounted
<1>2. count[h][e] = 0 /\ called[h][e] = 0 /\ MaxDeliver \in Nat
  BY <1>1, MessagingAssumption DEF Nats!Init, Nats!NothingPublished, MessagingAssumption, Nats!NatsAssumption
<1>3. \A p \in Procs : CopiesOf(fetched, h, e)[p] = 0
  BY <1>1, CopiesEmpty DEF CopiesOf, Nats!Init, Nats!NothingPublished
<1>4. InQueues(fetched, h, e) = 0
  BY <1>3, ProcsFinite, SumZero DEF InQueues
<1> QED
  BY <1>2, <1>4

\* The types are kept by every step.
LEMMA NatsTypesStep ==
    ASSUME NatsTypes, [Nats!Next]_natsVars
    PROVE  NatsTypes'
<1> USE DEF Nats!server, Nats!local, Nats!history
<1>1. ASSUME NEW e \in Events,
             Nats!Publish(e) \/ Nats!PublishDelayed(e) \/ Nats!ScheduleFires(e) \/ Nats!LimitReached(e)
      PROVE  NatsTypes'
  <2>1. stream' \in [Events -> {"new", "scheduled", "stored", "gone"}]
    BY <1>1 DEF NatsTypes, Nats!Publish, Nats!PublishDelayed, Nats!ScheduleFires, Nats!LimitReached
  <2>2. UNCHANGED <<acked, pending, done, count, called, proc, task, fetched, running>>
    BY <1>1 DEF Nats!Publish, Nats!PublishDelayed, Nats!ScheduleFires, Nats!LimitReached
  <2> QED
    BY <2>1, <2>2 DEF NatsTypes
<1>2. ASSUME NEW h \in Consumers, NEW e \in Events, Nats!AckWaitOver(h, e)
      PROVE  NatsTypes'
  <2>1. pending' \in [Consumers -> SUBSET Events]
    BY <1>2 DEF NatsTypes, Nats!AckWaitOver
  <2>2. UNCHANGED <<stream, acked, done, count, called, proc, task, fetched, running>>
    BY <1>2 DEF Nats!AckWaitOver
  <2> QED
    BY <2>1, <2>2 DEF NatsTypes
<1>3. ASSUME NEW h \in Consumers, NEW e \in Events, NEW p \in Procs, Nats!Deliver(p, h, e)
      PROVE  NatsTypes'
  <2>1. count' \in [Consumers -> [Events -> Nat]]
    BY <1>3 DEF NatsTypes, Nats!Deliver
  <2>2. pending' \in [Consumers -> SUBSET Events]
    BY <1>3 DEF NatsTypes, Nats!Deliver
  <2>3. fetched' \in Queues
    BY <1>3 DEF NatsTypes, Queues, Nats!Deliver
  <2>4. UNCHANGED <<stream, acked, done, called, proc, task, running>>
    BY <1>3 DEF Nats!Deliver
  <2> QED
    BY <2>1, <2>2, <2>3, <2>4 DEF NatsTypes
<1>4. ASSUME NEW p \in Procs, NEW h \in Consumers, Nats!NextMessage(p, h)
      PROVE  NatsTypes'
  <2>1. Head(fetched[p][h]) \in Events /\ Tail(fetched[p][h]) \in Seq(Events)
    <3>1. fetched[p][h] \in Seq(Events) /\ fetched[p][h] # <<>>
      BY <1>4 DEF NatsTypes, Queues, Nats!NextMessage
    <3> QED
      BY <3>1, CopiesTail
  <2>2. called' \in [Consumers -> [Events -> Nat]]
    <3>1. CASE called' = [called EXCEPT ![h][Head(fetched[p][h])] = @ + 1]
      BY <2>1, <3>1 DEF NatsTypes
    <3>2. CASE UNCHANGED called
      BY <3>2 DEF NatsTypes
    <3> QED
      BY <3>1, <3>2, <1>4 DEF Nats!NextMessage
  <2>3. running' \in [Procs -> [Consumers -> Events \cup {None}]]
    <3>1. CASE running' = [running EXCEPT ![p][h] = Head(fetched[p][h])]
      BY <2>1, <3>1 DEF NatsTypes
    <3>2. CASE UNCHANGED running
      BY <3>2 DEF NatsTypes
    <3> QED
      BY <3>1, <3>2, <1>4 DEF Nats!NextMessage
  <2>4. fetched' \in Queues
    <3>1. fetched' = [fetched EXCEPT ![p][h] = Tail(@)]
      BY <1>4 DEF Nats!NextMessage
    <3> QED
      BY <2>1, <3>1 DEF NatsTypes, Queues
  <2>5. UNCHANGED <<stream, acked, pending, done, count, proc, task>>
    BY <1>4 DEF Nats!NextMessage
  <2> QED
    BY <2>2, <2>3, <2>4, <2>5 DEF NatsTypes
<1>5. ASSUME NEW p \in Procs, NEW h \in Consumers, Nats!HandlerOk(p, h)
      PROVE  NatsTypes'
  <2>1. running[p][h] \in Events
    BY <1>5 DEF NatsTypes, Nats!HandlerOk
  <2>2. done' \in [Consumers -> SUBSET Events]
    BY <1>5, <2>1 DEF NatsTypes, Nats!HandlerOk
  <2>3. acked' \in [Consumers -> SUBSET Events]
    <3>1. acked \in [Consumers -> SUBSET Events]
      BY DEF NatsTypes
    <3>2. acked' = acked \/ acked' = [acked EXCEPT ![h] = @ \cup {running[p][h]}]
      BY <1>5 DEF Nats!HandlerOk
    <3> QED
      BY <2>1, <3>1, <3>2
  <2>4. pending' \in [Consumers -> SUBSET Events]
    <3>1. pending \in [Consumers -> SUBSET Events]
      BY DEF NatsTypes
    <3>2. pending' = pending \/ pending' = [pending EXCEPT ![h] = @ \ {running[p][h]}]
      BY <1>5 DEF Nats!HandlerOk
    <3> QED
      BY <3>1, <3>2
  <2>5. running' \in [Procs -> [Consumers -> Events \cup {None}]]
    BY <1>5 DEF NatsTypes, Nats!HandlerOk
  <2>6. UNCHANGED <<stream, count, called, proc, task, fetched>>
    BY <1>5 DEF Nats!HandlerOk
  <2> QED
    BY <2>2, <2>3, <2>4, <2>5, <2>6 DEF NatsTypes
<1>6. ASSUME NEW p \in Procs, NEW h \in Consumers, Nats!HandlerErr(p, h)
      PROVE  NatsTypes'
  <2>1. running' \in [Procs -> [Consumers -> Events \cup {None}]]
    BY <1>6 DEF NatsTypes, Nats!HandlerErr
  <2>2. UNCHANGED <<stream, acked, pending, done, count, called, proc, task, fetched>>
    BY <1>6 DEF Nats!HandlerErr
  <2> QED
    BY <2>1, <2>2 DEF NatsTypes
<1>7. ASSUME NEW p \in Procs, NEW h \in Consumers, Nats!HandlerPanics(p, h)
      PROVE  NatsTypes'
  <2>1. task' \in [Procs -> [Consumers -> {"ended", "up", "dead"}]]
    BY <1>7 DEF NatsTypes, Nats!HandlerPanics
  <2>2. running' \in [Procs -> [Consumers -> Events \cup {None}]]
    BY <1>7 DEF NatsTypes, Nats!HandlerPanics
  <2>3. fetched' \in Queues
    BY <1>7 DEF NatsTypes, Queues, Nats!HandlerPanics
  <2>4. UNCHANGED <<stream, acked, pending, done, count, called, proc>>
    BY <1>7 DEF Nats!HandlerPanics
  <2> QED
    BY <2>1, <2>2, <2>3, <2>4 DEF NatsTypes
<1>8. ASSUME NEW p \in Procs, NEW h \in Consumers, Nats!EndTask(p, h)
      PROVE  NatsTypes'
  <2>1. task' \in [Procs -> [Consumers -> {"ended", "up", "dead"}]]
    BY <1>8 DEF NatsTypes, Nats!EndTask
  <2>2. fetched' \in Queues
    BY <1>8 DEF NatsTypes, Queues, Nats!EndTask
  <2>3. UNCHANGED <<stream, acked, pending, done, count, called, proc, running>>
    BY <1>8 DEF Nats!EndTask
  <2> QED
    BY <2>1, <2>2, <2>3 DEF NatsTypes
<1>9. ASSUME NEW p \in Procs, Nats!Start(p)
      PROVE  NatsTypes'
  <2>1. proc' \in [Procs -> {"down", "up", "stopping"}]
    BY <1>9 DEF NatsTypes, Nats!Start
  <2>2. task' \in [Procs -> [Consumers -> {"ended", "up", "dead"}]]
    BY <1>9 DEF NatsTypes, Nats!Start
  <2>3. UNCHANGED <<stream, acked, pending, done, count, called, fetched, running>>
    BY <1>9 DEF Nats!Start
  <2> QED
    BY <2>1, <2>2, <2>3 DEF NatsTypes
<1>10. ASSUME NEW p \in Procs, Nats!Shutdown(p)
      PROVE  NatsTypes'
  <2>1. proc' \in [Procs -> {"down", "up", "stopping"}]
    BY <1>10 DEF NatsTypes, Nats!Shutdown
  <2>2. UNCHANGED <<stream, acked, pending, done, count, called, task, fetched, running>>
    BY <1>10 DEF Nats!Shutdown
  <2> QED
    BY <2>1, <2>2 DEF NatsTypes
<1>11. ASSUME NEW p \in Procs, Nats!Exit(p)
      PROVE  NatsTypes'
  <2>1. proc' \in [Procs -> {"down", "up", "stopping"}]
    BY <1>11 DEF NatsTypes, Nats!Exit
  <2>2. task' \in [Procs -> [Consumers -> {"ended", "up", "dead"}]]
    BY <1>11 DEF NatsTypes, Nats!Exit
  <2>3. UNCHANGED <<stream, acked, pending, done, count, called, fetched, running>>
    BY <1>11 DEF Nats!Exit
  <2> QED
    BY <2>1, <2>2, <2>3 DEF NatsTypes
<1>12. ASSUME NEW p \in Procs, Nats!Crash(p)
      PROVE  NatsTypes'
  <2>1. proc' \in [Procs -> {"down", "up", "stopping"}]
    BY <1>12 DEF NatsTypes, Nats!Crash
  <2>2. task' \in [Procs -> [Consumers -> {"ended", "up", "dead"}]]
    BY <1>12 DEF NatsTypes, Nats!Crash
  <2>3. fetched' \in Queues
    BY <1>12 DEF NatsTypes, Queues, Nats!Crash
  <2>4. running' \in [Procs -> [Consumers -> Events \cup {None}]]
    BY <1>12 DEF NatsTypes, Nats!Crash
  <2>5. UNCHANGED <<stream, acked, pending, done, count, called>>
    BY <1>12 DEF Nats!Crash
  <2> QED
    BY <2>1, <2>2, <2>3, <2>4, <2>5 DEF NatsTypes
<1>13. CASE UNCHANGED natsVars
  BY <1>13 DEF natsVars, NatsTypes
<1> QED
  BY <1>1, <1>2, <1>3, <1>4, <1>5, <1>6, <1>7, <1>8, <1>9, <1>10, <1>11, <1>12, <1>13 DEF Nats!Next

\* A task that stops drops what it has, and one that starts has nothing.
LEMMA TasksIdleStep ==
    ASSUME NatsTypes, TasksIdle, [Nats!Next]_natsVars
    PROVE  TasksIdle'
<1> USE DEF Nats!server, Nats!local, Nats!history
<1>1. SUFFICES ASSUME NEW q \in Procs, NEW i \in Consumers, task'[q][i] # "up"
               PROVE  fetched'[q][i] = <<>> /\ running'[q][i] = None
  BY DEF TasksIdle
<1>2. task[q][i] # "up" => fetched[q][i] = <<>> /\ running[q][i] = None
  BY DEF TasksIdle
<1>3. CASE UNCHANGED <<task, fetched, running>>
  BY <1>1, <1>2, <1>3
<1>4. ASSUME NEW h \in Consumers, NEW e \in Events, NEW p \in Procs, Nats!Deliver(p, h, e)
      PROVE  fetched'[q][i] = <<>> /\ running'[q][i] = None
  BY <1>1, <1>2, <1>4 DEF Nats!Deliver, NatsTypes, Queues
<1>5. ASSUME NEW p \in Procs, NEW h \in Consumers, Nats!NextMessage(p, h)
      PROVE  fetched'[q][i] = <<>> /\ running'[q][i] = None
  <2>1. task' = task /\ task[p][h] = "up"
    BY <1>5 DEF Nats!NextMessage
  <2>2. q # p \/ i # h
    BY <1>1, <2>1
  <2>3. fetched'[q][i] = fetched[q][i] /\ running'[q][i] = running[q][i]
    BY <1>5, <2>2 DEF Nats!NextMessage, NatsTypes, Queues
  <2> QED
    BY <1>1, <1>2, <2>1, <2>3
<1>6. ASSUME NEW p \in Procs, NEW h \in Consumers, Nats!HandlerOk(p, h) \/ Nats!HandlerErr(p, h)
      PROVE  fetched'[q][i] = <<>> /\ running'[q][i] = None
  <2>1. running' = [running EXCEPT ![p][h] = None] /\ UNCHANGED <<fetched, task>>
    BY <1>6 DEF Nats!HandlerOk, Nats!HandlerErr
  <2> QED
    BY <1>1, <1>2, <2>1 DEF NatsTypes
<1>7. ASSUME NEW p \in Procs, NEW h \in Consumers, Nats!HandlerPanics(p, h) \/ Nats!EndTask(p, h)
      PROVE  fetched'[q][i] = <<>> /\ running'[q][i] = None
  <2>1. CASE q = p /\ i = h
    <3>1. fetched'[q][i] = <<>>
      BY <1>7, <2>1 DEF Nats!HandlerPanics, Nats!EndTask, NatsTypes, Queues
    <3>2. running'[q][i] = None
      BY <1>7, <2>1 DEF Nats!HandlerPanics, Nats!EndTask, NatsTypes
    <3> QED
      BY <3>1, <3>2
  <2>2. CASE ~(q = p /\ i = h)
    <3>1. task'[q][i] = task[q][i]
      BY <1>7, <2>2 DEF Nats!HandlerPanics, Nats!EndTask, NatsTypes
    <3>2. fetched'[q][i] = fetched[q][i]
      BY <1>7, <2>2 DEF Nats!HandlerPanics, Nats!EndTask, NatsTypes, Queues
    <3>3. running'[q][i] = running[q][i]
      BY <1>7, <2>2 DEF Nats!HandlerPanics, Nats!EndTask, NatsTypes
    <3> QED
      BY <1>1, <1>2, <3>1, <3>2, <3>3
  <2> QED
    BY <2>1, <2>2
<1>8. ASSUME NEW p \in Procs, Nats!Start(p) \/ Nats!Exit(p)
      PROVE  fetched'[q][i] = <<>> /\ running'[q][i] = None
  <2>1. fetched'[q][i] = fetched[q][i] /\ running'[q][i] = running[q][i]
    BY <1>8 DEF Nats!Start, Nats!Exit
  <2>2. CASE q = p
    BY <2>1, <2>2, <1>1, <1>2, <1>8 DEF Nats!Start, Nats!Exit, NatsTypes
  <2>3. CASE q # p
    BY <2>1, <2>3, <1>1, <1>2, <1>8 DEF Nats!Start, Nats!Exit, NatsTypes
  <2> QED
    BY <2>2, <2>3
<1>9. ASSUME NEW p \in Procs, Nats!Crash(p)
      PROVE  fetched'[q][i] = <<>> /\ running'[q][i] = None
  BY <1>1, <1>2, <1>9 DEF Nats!Crash, NatsTypes, Queues
<1> QED
  BY <1>3, <1>4, <1>5, <1>6, <1>7, <1>8, <1>9
  DEF Nats!Next, natsVars, Nats!Publish, Nats!PublishDelayed, Nats!ScheduleFires, Nats!LimitReached,
      Nats!AckWaitOver, Nats!Shutdown

\* An ack is sent after the handler has returned Ok.
LEMMA AckedStep ==
    ASSUME NatsTypes, Nats!AckedWasHandled, [Nats!Next]_natsVars
    PROVE  Nats!AckedWasHandled'
<1> USE DEF Nats!server, Nats!local, Nats!history
<1>1. CASE UNCHANGED <<acked, done>>
  BY <1>1 DEF Nats!AckedWasHandled
<1>2. ASSUME NEW p \in Procs, NEW h \in Consumers, Nats!HandlerOk(p, h)
      PROVE  Nats!AckedWasHandled'
  <2>1. /\ done' = [done EXCEPT ![h] = @ \cup {running[p][h]}]
        /\ acked' = acked \/ acked' = [acked EXCEPT ![h] = @ \cup {running[p][h]}]
    BY <1>2 DEF Nats!HandlerOk
  <2> QED
    BY <2>1 DEF Nats!AckedWasHandled, NatsTypes
<1> QED
  BY <1>1, <1>2
  DEF Nats!Next, natsVars, Nats!Publish, Nats!PublishDelayed, Nats!ScheduleFires, Nats!LimitReached,
      Nats!AckWaitOver, Nats!Deliver, Nats!NextMessage, Nats!HandlerErr, Nats!HandlerPanics,
      Nats!EndTask, Nats!Start, Nats!Shutdown, Nats!Exit, Nats!Crash

\* Steps that touch the queue of one process at most.
LEMMA DeliveriesKept ==
    ASSUME NatsTypes, DeliveriesCounted, fetched' \in Queues, NEW p \in Procs,
           \A q \in Procs \ {p} : fetched'[q] = fetched[q],
           UNCHANGED <<called, count>>,
           \A h \in Consumers : fetched'[p][h] \in {fetched[p][h], <<>>}
    PROVE  DeliveriesCounted'
<1>1. SUFFICES ASSUME NEW h \in Consumers, NEW e \in Events
               PROVE  InQueues(fetched', h, e) <= InQueues(fetched, h, e)
                      /\ InQueues(fetched', h, e) \in Nat /\ InQueues(fetched, h, e) \in Nat
  BY DEF DeliveriesCounted, NatsTypes
<1>2. /\ InQueues(fetched', h, e)
           = InQueues(fetched, h, e) - Copies(fetched[p][h], e) + Copies(fetched'[p][h], e)
      /\ InQueues(fetched, h, e) \in Nat
  <2>1. fetched \in Queues
    BY DEF NatsTypes
  <2> QED
    BY <2>1, InQueuesUpdate
<1>3. InQueues(fetched', h, e) \in Nat
  BY InQueuesUpdate
<1>4. Copies(fetched[p][h], e) \in Nat
  BY CopiesNat DEF NatsTypes, Queues
<1>5. Copies(fetched'[p][h], e) \in {Copies(fetched[p][h], e), 0}
  BY CopiesEmpty
<1> QED
  BY <1>2, <1>3, <1>4, <1>5

LEMMA DeliveriesStep ==
    ASSUME NatsTypes, NatsTypes', TasksIdle, DeliveriesCounted, [Nats!Next]_natsVars
    PROVE  DeliveriesCounted'
<1> USE DEF Nats!server, Nats!local, Nats!history
<1>1. CASE UNCHANGED <<fetched, called, count>>
  BY <1>1 DEF DeliveriesCounted
<1>2. ASSUME NEW h \in Consumers, NEW e \in Events, NEW p \in Procs, Nats!Deliver(p, h, e)
      PROVE  DeliveriesCounted'
  <2>1. SUFFICES ASSUME NEW i \in Consumers, NEW f \in Events
                 PROVE  /\ called'[i][f] + InQueues(fetched', i, f) <= count'[i][f]
                        /\ count'[i][f] <= MaxDeliver
    BY DEF DeliveriesCounted
  <2>2. /\ InQueues(fetched', i, f)
             = InQueues(fetched, i, f) - Copies(fetched[p][i], f) + Copies(fetched'[p][i], f)
        /\ InQueues(fetched, i, f) \in Nat
    <3>1. \A q \in Procs \ {p} : fetched'[q] = fetched[q]
      BY <1>2 DEF Nats!Deliver, NatsTypes, Queues
    <3>2. fetched \in Queues /\ fetched' \in Queues
      BY DEF NatsTypes
    <3> QED
      BY <3>1, <3>2, InQueuesUpdate
  <2>3. called'[i][f] = called[i][f] /\ called[i][f] \in Nat /\ count[i][f] \in Nat
    BY <1>2 DEF Nats!Deliver, NatsTypes
  <2>4. fetched[p][i] \in Seq(Events) /\ Copies(fetched[p][i], f) \in Nat
    <3>1. fetched[p][i] \in Seq(Events)
      BY DEF NatsTypes, Queues
    <3> QED
      BY <3>1, CopiesNat
  <2>5. called[i][f] + InQueues(fetched, i, f) <= count[i][f] /\ count[i][f] <= MaxDeliver
    BY DEF DeliveriesCounted
  <2>6. CASE i = h /\ f = e
    <3>1. count'[i][f] = count[i][f] + 1 /\ count[i][f] < MaxDeliver
      BY <1>2, <2>6 DEF Nats!Deliver, Nats!Redeliverable, NatsTypes
    <3>2. Copies(fetched'[p][i], f) = Copies(fetched[p][i], f) + 1
      <4>1. fetched'[p][i] = Append(fetched[p][i], e) /\ fetched[p][i] \in Seq(Events)
        BY <1>2, <2>6 DEF Nats!Deliver, NatsTypes, Queues
      <4> QED
        BY <4>1, <2>6, CopiesAppend
    <3>3. MaxDeliver \in Nat
      BY MessagingAssumption DEF MessagingAssumption, Nats!NatsAssumption
    <3>4. InQueues(fetched', i, f) = InQueues(fetched, i, f) + 1
      BY <2>2, <2>4, <3>2
    <3>5. called'[i][f] + InQueues(fetched', i, f) <= count'[i][f]
      BY <2>2, <2>3, <2>5, <3>1, <3>4
    <3>6. count'[i][f] <= MaxDeliver
      BY <2>3, <3>1, <3>3
    <3> QED
      BY <3>5, <3>6
  <2>7. CASE ~(i = h /\ f = e)
    <3>1. count'[i][f] = count[i][f]
      BY <1>2, <2>7 DEF Nats!Deliver, NatsTypes
    <3>2. Copies(fetched'[p][i], f) = Copies(fetched[p][i], f)
      <4>1. \/ fetched'[p][i] = fetched[p][i]
            \/ fetched'[p][i] = Append(fetched[p][i], e) /\ f # e
        BY <1>2, <2>7 DEF Nats!Deliver, NatsTypes, Queues
      <4>2. Copies(Append(fetched[p][i], e), f) = Copies(fetched[p][i], f) + (IF e = f THEN 1 ELSE 0)
        BY <2>4, <1>2, CopiesAppend
      <4>3. CASE fetched'[p][i] = fetched[p][i]
        BY <4>3
      <4>4. CASE fetched'[p][i] = Append(fetched[p][i], e) /\ f # e
        BY <4>2, <4>4, <2>4
      <4> QED
        BY <4>1, <4>3, <4>4
    <3> QED
      BY <2>2, <2>3, <2>4, <2>5, <3>1, <3>2
  <2> QED
    BY <2>6, <2>7
<1>3. ASSUME NEW p \in Procs, NEW h \in Consumers, Nats!NextMessage(p, h)
      PROVE  DeliveriesCounted'
  <2>1. SUFFICES ASSUME NEW i \in Consumers, NEW f \in Events
                 PROVE  called'[i][f] + InQueues(fetched', i, f) <= count[i][f]
    BY <1>3 DEF DeliveriesCounted, Nats!NextMessage
  <2>2. /\ InQueues(fetched', i, f)
             = InQueues(fetched, i, f) - Copies(fetched[p][i], f) + Copies(fetched'[p][i], f)
        /\ InQueues(fetched, i, f) \in Nat
    <3>1. \A q \in Procs \ {p} : fetched'[q] = fetched[q]
      BY <1>3 DEF Nats!NextMessage, NatsTypes, Queues
    <3>2. fetched \in Queues /\ fetched' \in Queues
      BY DEF NatsTypes
    <3> QED
      BY <3>1, <3>2, InQueuesUpdate
  <2>3. called[i][f] \in Nat /\ count[i][f] \in Nat
    BY DEF NatsTypes
  <2>4. fetched[p][i] \in Seq(Events) /\ Copies(fetched[p][i], f) \in Nat
    BY CopiesNat DEF NatsTypes, Queues
  <2>5. called[i][f] + InQueues(fetched, i, f) <= count[i][f]
    BY DEF DeliveriesCounted
  <2>6. CASE i = h
    <3>1. fetched'[p][h] = Tail(fetched[p][h]) /\ fetched[p][h] # <<>>
      BY <1>3 DEF Nats!NextMessage, NatsTypes, Queues
    <3>2. /\ Copies(fetched[p][h], f)
               = Copies(Tail(fetched[p][h]), f) + (IF Head(fetched[p][h]) = f THEN 1 ELSE 0)
          /\ Tail(fetched[p][h]) \in Seq(Events)
      BY <2>4, <2>6, <3>1, CopiesTail
    <3>3. called'[i][f] <= called[i][f] + (IF Head(fetched[p][h]) = f THEN 1 ELSE 0)
          /\ called'[i][f] \in Nat
      <4>1. PICK e \in Events : e = Head(fetched[p][h])
        BY <2>4, <2>6, <3>1
      <4>2. called' = called \/ called' = [called EXCEPT ![h][e] = @ + 1]
        BY <1>3, <4>1 DEF Nats!NextMessage
      <4>3. called'[i][f] = called[i][f] \/ (e = f /\ called'[i][f] = called[i][f] + 1)
        BY <2>6, <4>2 DEF NatsTypes
      <4> QED
        BY <2>3, <4>1, <4>3
    <3>4. Copies(Tail(fetched[p][h]), f) \in Nat
      BY <3>2, CopiesNat
    <3>5. Copies(fetched'[p][i], f) = Copies(Tail(fetched[p][h]), f)
      BY <2>6, <3>1
    <3>6. Copies(fetched[p][i], f) = Copies(fetched[p][h], f)
      BY <2>6
    <3>7. /\ Copies(fetched[p][i], f)
               = Copies(fetched'[p][i], f) + (IF Head(fetched[p][h]) = f THEN 1 ELSE 0)
          /\ Copies(fetched'[p][i], f) \in Nat
      BY <3>2, <3>4, <3>5, <3>6
    <3>8. PICK d \in {0, 1} : /\ Copies(fetched[p][i], f) = Copies(fetched'[p][i], f) + d
                             /\ called'[i][f] <= called[i][f] + d
      BY <3>3, <3>7
    <3> QED
      BY <2>2, <2>3, <2>5, <3>3, <3>7, <3>8
  <2>7. CASE i # h
    <3>1. fetched'[p][i] = fetched[p][i] /\ called'[i][f] = called[i][f]
      <4>1. fetched' = [fetched EXCEPT ![p][h] = Tail(@)]
        BY <1>3 DEF Nats!NextMessage
      <4>2. called' = called \/ called' = [called EXCEPT ![h][Head(fetched[p][h])] = @ + 1]
        BY <1>3 DEF Nats!NextMessage
      <4>3. fetched'[p][i] = fetched[p][i]
        BY <2>7, <4>1 DEF NatsTypes, Queues
      <4>4. called'[i] = called[i]
        BY <2>7, <4>2 DEF NatsTypes
      <4> QED
        BY <4>3, <4>4
    <3> QED
      BY <2>2, <2>3, <2>4, <2>5, <3>1
  <2> QED
    BY <2>6, <2>7
<1>4. ASSUME NEW p \in Procs, NEW h \in Consumers, Nats!HandlerPanics(p, h) \/ Nats!EndTask(p, h)
      PROVE  DeliveriesCounted'
  <2>1. /\ UNCHANGED <<called, count>>
        /\ \A q \in Procs \ {p} : fetched'[q] = fetched[q]
        /\ \A i \in Consumers : fetched'[p][i] \in {fetched[p][i], <<>>}
    BY <1>4 DEF Nats!HandlerPanics, Nats!EndTask, NatsTypes, Queues
  <2>2. fetched' \in Queues
    BY DEF NatsTypes
  <2> QED
    BY <2>1, <2>2, DeliveriesKept
<1>5. ASSUME NEW p \in Procs, Nats!Crash(p)
      PROVE  DeliveriesCounted'
  <2>1. /\ UNCHANGED <<called, count>>
        /\ \A q \in Procs \ {p} : fetched'[q] = fetched[q]
        /\ \A i \in Consumers : fetched'[p][i] \in {fetched[p][i], <<>>}
    BY <1>5 DEF Nats!Crash, NatsTypes, Queues
  <2>2. fetched' \in Queues
    BY DEF NatsTypes
  <2> QED
    BY <2>1, <2>2, DeliveriesKept
<1> QED
  BY <1>1, <1>2, <1>3, <1>4, <1>5
  DEF Nats!Next, natsVars, Nats!Publish, Nats!PublishDelayed, Nats!ScheduleFires, Nats!LimitReached,
      Nats!AckWaitOver, Nats!HandlerOk, Nats!HandlerErr, Nats!Start, Nats!Shutdown, Nats!Exit

THEOREM NatsInductive == ASSUME NatsInv, [Nats!Next]_natsVars PROVE NatsInv'
<1>1. NatsTypes'
  BY NatsTypesStep DEF NatsInv
<1> QED
  BY <1>1, TasksIdleStep, AckedStep, DeliveriesStep DEF NatsInv

LEMMA NatsInvDelivers == NatsInv => NatsDelivery
<1>1. SUFFICES ASSUME NatsInv PROVE Nats!TypeOK /\ Nats!CallsBounded
  BY DEF NatsDelivery, NatsInv
<1>2. NatsTypes /\ TasksIdle /\ DeliveriesCounted
  BY <1>1 DEF NatsInv
<1>3. ASSUME NEW p \in Procs, NEW h \in Consumers
      PROVE  Nats!Range(fetched[p][h]) \subseteq Events
  BY <1>2 DEF NatsTypes, Queues, Nats!Range
<1>4. Nats!TypeOK
  BY <1>2, <1>3 DEF Nats!TypeOK, NatsTypes, TasksIdle
<1>5. ASSUME NEW h \in Consumers, NEW e \in Events
      PROVE  called[h][e] <= MaxDeliver
  <2>1. \A p \in Procs : CopiesOf(fetched, h, e)[p] \in Nat
    BY <1>2, CopiesNat DEF CopiesOf, NatsTypes, Queues
  <2>2. InQueues(fetched, h, e) \in Nat
    BY <2>1, ProcsFinite, SumNat DEF InQueues
  <2>3. MaxDeliver \in Nat
    BY MessagingAssumption DEF MessagingAssumption, Nats!NatsAssumption
  <2>4. called[h][e] \in Nat /\ count[h][e] \in Nat
    BY <1>2 DEF NatsTypes
  <2>5. called[h][e] + InQueues(fetched, h, e) <= count[h][e] /\ count[h][e] <= MaxDeliver
    BY <1>2 DEF DeliveriesCounted
  <2> QED
    BY <2>2, <2>3, <2>4, <2>5
<1> QED
  BY <1>4, <1>5 DEF Nats!CallsBounded

\* NatsBus keeps its promise in every step of the deployment.
THEOREM NatsDelivers == MessagingSpec => []NatsDelivery
<1>1. MessagingInit => NatsInv
  BY NatsTypesInit, DeliveriesInit DEF MessagingInit, NatsInv
<1>2. ASSUME NatsInv, [MessagingNext]_vAll PROVE NatsInv'
  BY <1>2, NatsInductive DEF MessagingNext, vAll, natsVars
<1> QED
  BY <1>1, <1>2, NatsInvDelivers, PTL DEF MessagingSpec

-----------------------------------------------------------------------------
(* Outbox: what a subscriber may act on. *)

OutboxTypes ==
    /\ change \in [Changes -> {"none", "open", "committed", "rolled_back"}]
    /\ event \in [Changes -> {"none", "in_tx", "pending", "delivered", "failed"}]
    /\ handler \in [Changes -> {"none", "called", "wrote"}]
    /\ effect \in [Changes -> BOOLEAN]

\* The event of a change in InTx leaves the transaction by its commit; the row
\* of an event exists while a subscriber works on it or after it did.
OutboxSteps ==
    \A c \in Changes :
        /\ c \in InTx /\ event[c] \notin {"none", "in_tx"} => change[c] = "committed"
        /\ handler[c] # "none" \/ effect[c] => event[c] \notin {"none", "in_tx"}
        /\ handler[c] = "wrote" => effect[c]
        /\ event[c] = "delivered" => effect[c]

OutboxInv == OutboxTypes /\ OutboxSteps

LEMMA OutboxTypesStep ==
    ASSUME OutboxTypes, NEW c \in Changes,
           \/ Tx!Begin(c) \/ Tx!Publish(c) \/ Tx!PublishInTx(c) \/ Tx!Commit(c) \/ Tx!Rollback(c)
           \/ Tx!CallHandler(c) \/ Tx!HandlerWrites(c) \/ Tx!Delivered(c) \/ Tx!HandlerFails(c)
           \/ Tx!Crashes(c) \/ Tx!Panics(c)
    PROVE  OutboxTypes'
<1> USE DEF OutboxTypes
<1>1. CASE Tx!Begin(c)
  BY <1>1 DEF Tx!Begin
<1>2. CASE Tx!Publish(c)
  BY <1>2 DEF Tx!Publish
<1>3. CASE Tx!PublishInTx(c)
  BY <1>3 DEF Tx!PublishInTx
<1>4. CASE Tx!Commit(c)
  BY <1>4 DEF Tx!Commit
<1>5. CASE Tx!Rollback(c)
  BY <1>5 DEF Tx!Rollback
<1>6. CASE Tx!CallHandler(c)
  BY <1>6 DEF Tx!CallHandler
<1>7. CASE Tx!HandlerWrites(c)
  BY <1>7 DEF Tx!HandlerWrites
<1>8. CASE Tx!Delivered(c)
  BY <1>8 DEF Tx!Delivered
<1>9. CASE Tx!HandlerFails(c)
  BY <1>9 DEF Tx!HandlerFails
<1>10. CASE Tx!Crashes(c)
  BY <1>10 DEF Tx!Crashes
<1>11. CASE Tx!Panics(c)
  BY <1>11 DEF Tx!Panics
<1> QED
  BY <1>1, <1>2, <1>3, <1>4, <1>5, <1>6, <1>7, <1>8, <1>9, <1>10, <1>11

LEMMA OutboxStepsStep ==
    ASSUME OutboxInv, NEW c \in Changes,
           \/ Tx!Begin(c) \/ Tx!Publish(c) \/ Tx!PublishInTx(c) \/ Tx!Commit(c) \/ Tx!Rollback(c)
           \/ Tx!CallHandler(c) \/ Tx!HandlerWrites(c) \/ Tx!Delivered(c) \/ Tx!HandlerFails(c)
           \/ Tx!Crashes(c) \/ Tx!Panics(c)
    PROVE  OutboxSteps'
<1> USE DEF OutboxInv, OutboxTypes, OutboxSteps
<1>1. CASE Tx!Begin(c)
  BY <1>1 DEF Tx!Begin
<1>2. CASE Tx!Publish(c)
  BY <1>2 DEF Tx!Publish
<1>3. CASE Tx!PublishInTx(c)
  BY <1>3 DEF Tx!PublishInTx
<1>4. CASE Tx!Commit(c)
  BY <1>4 DEF Tx!Commit
<1>5. CASE Tx!Rollback(c)
  BY <1>5 DEF Tx!Rollback
<1>6. CASE Tx!CallHandler(c)
  BY <1>6 DEF Tx!CallHandler
<1>7. CASE Tx!HandlerWrites(c)
  BY <1>7 DEF Tx!HandlerWrites
<1>8. CASE Tx!Delivered(c)
  BY <1>8 DEF Tx!Delivered
<1>9. CASE Tx!HandlerFails(c)
  BY <1>9 DEF Tx!HandlerFails
<1>10. CASE Tx!Crashes(c)
  BY <1>10 DEF Tx!Crashes
<1>11. CASE Tx!Panics(c)
  BY <1>11 DEF Tx!Panics
<1> QED
  BY <1>1, <1>2, <1>3, <1>4, <1>5, <1>6, <1>7, <1>8, <1>9, <1>10, <1>11

LEMMA OutboxInvInit == Tx!Init => OutboxInv
BY DEF Tx!Init, OutboxInv, OutboxTypes, OutboxSteps

LEMMA OutboxInvStep == ASSUME OutboxInv, [Tx!Next]_txVars PROVE OutboxInv'
<1>1. CASE Tx!Next
  BY <1>1, OutboxTypesStep, OutboxStepsStep DEF Tx!Next, OutboxInv
<1>2. CASE UNCHANGED txVars
  BY <1>2 DEF txVars, OutboxInv, OutboxTypes, OutboxSteps
<1> QED
  BY <1>1, <1>2

\* A subscriber acts on committed changes, and a delivered event had its effect.
THEOREM OutboxDelivers == MessagingSpec => []OutboxEffects
<1>1. MessagingInit => OutboxInv
  BY OutboxInvInit DEF MessagingInit
<1>2. ASSUME OutboxInv, [MessagingNext]_vAll PROVE OutboxInv'
  BY <1>2, OutboxInvStep DEF MessagingNext, vAll, txVars
<1>3. OutboxInv => OutboxEffects
  BY MessagingAssumption
  DEF MessagingAssumption, Tx!OutboxAssumption, OutboxInv, OutboxTypes, OutboxSteps, OutboxEffects,
      Tx!InTxActsOnCommitted, Tx!DeliveredHasEffect, Tx!Acts
<1> QED
  BY <1>1, <1>2, <1>3, PTL DEF MessagingSpec

-----------------------------------------------------------------------------
(* EventBus. *)

USE EventBusAssumption DEF None

-----------------------------------------------------------------------------
(* Rows.                                                                   *)

LEMMA RowTypes ==
    /\ NoEvent \in Event
    /\ NoDelivery \in Delivery
    /\ NoDeliveries \in [Handlers -> Delivery]
    /\ NewDelivery \in Delivery
    /\ Terminal \in Delivery
BY DEF NoEvent, Event, EventStatus, When, Never, NoDelivery, Delivery, DeliveryStatus,
       NoDeliveries, NewDelivery, Terminal

LEMMA LaterType ==
    ASSUME NEW w \in When, NEW n \in Nat
    PROVE  /\ Later(w, n) \in When
           /\ (Later(w, n) = Never) <=> (w = Never)
BY DEF When, Never, Later, Max2

LEMMA BackoffType ==
    ASSUME NEW n \in Nat
    PROVE  Backoff(n) \in Nat
<1> DEFINE delay == 2 ^ Min2(n, 10)
<1>1. Backoff(n) = IF delay \in 0..BackoffCap THEN delay ELSE BackoffCap
  BY DEF Backoff
<1> HIDE DEF delay
<1>2. QED
  BY <1>1

LEMMA RetryPlanType ==
    ASSUME NEW d \in Delivery
    PROVE  RetryPlan(d) \in Delivery
<1>1. d.attempts \in 0..MaxAttempts
  BY DEF Delivery
<1>2. Backoff(d.attempts + 1) \in Nat
  BY <1>1, BackoffType
<1>3. Terminal \in Delivery
  BY RowTypes
<1>4. QED
  BY <1>1, <1>2, <1>3 DEF RetryPlan, Delivery, DeliveryStatus, When, Never

LEMMA DeliveredType ==
    ASSUME NEW d \in Delivery
    PROVE  [d EXCEPT !.status = "delivered"] \in Delivery
BY DEF Delivery, DeliveryStatus

LEMMA AgedEventType ==
    ASSUME NEW r \in Event, NEW n \in Nat
    PROVE  /\ AgedEvent(r, n) \in Event
           /\ AgedEvent(r, n).status = r.status
           /\ AgedEvent(r, n).next = Later(r.next, n)
<1>1. Later(r.next, n) \in When
  BY LaterType DEF Event
<1>2. Min2(r.old + n, Retention + 1) \in Nat
  BY DEF Event, Min2
<1>3. QED
  BY <1>1, <1>2 DEF AgedEvent, Event

LEMMA AgedDeliveriesType ==
    ASSUME NEW rows \in [Handlers -> Delivery], NEW n \in Nat
    PROVE  /\ AgedDeliveries(rows, n) \in [Handlers -> Delivery]
           /\ \A h \in Handlers : /\ AgedDeliveries(rows, n)[h].status = rows[h].status
                                  /\ AgedDeliveries(rows, n)[h].attempts = rows[h].attempts
                                  /\ AgedDeliveries(rows, n)[h].next = Later(rows[h].next, n)
<1>1. ASSUME NEW h \in Handlers
      PROVE  LET d == [rows[h] EXCEPT !.next = Later(rows[h].next, n)]
             IN  d \in Delivery /\ d.status = rows[h].status /\ d.attempts = rows[h].attempts
                 /\ d.next = Later(rows[h].next, n)
  <2>1. rows[h] \in Delivery
    OBVIOUS
  <2>2. rows[h].next \in When
    BY <2>1 DEF Delivery
  <2>3. Later(rows[h].next, n) \in When /\ (Later(rows[h].next, n) = Never <=> rows[h].next = Never)
    BY <2>2, LaterType
  <2>4. QED
    BY <2>1, <2>3 DEF Delivery
<1>2. QED
  BY <1>1 DEF AgedDeliveries

LEMMA EnsureType ==
    ASSUME NEW rows \in [Handlers -> Delivery], NEW p \in Procs
    PROVE  EnsureDeliveries(p, rows) \in [Handlers -> Delivery]
BY RowTypes DEF EnsureDeliveries

LEMMA DueSubset ==
    ASSUME NEW rows
    PROVE  DueDeliveries(rows) \subseteq Pending(rows) /\ Pending(rows) \subseteq Handlers
BY DEF DueDeliveries, Pending

-----------------------------------------------------------------------------
(* Type correctness.                                                       *)

LEMMA ReleaseType ==
    ASSUME TypeOK, NEW p \in Procs, NEW s \in {"idle", "down"}, Release(p, s),
           ev' \in [Events -> Event], dl' \in [Events -> [Handlers -> Delivery]],
           lost' \in [Events -> [Handlers -> Nat]],
           faults' \in Nat, UNCHANGED <<calls, oks>>
    PROVE  TypeOK'
<1>1. lock' \in [Events -> Procs \cup {None}] /\ tried' \in [Events -> SUBSET Handlers]
  BY DEF TypeOK, Release
<1>2. tev' \in [Events -> Event] /\ tdl' \in [Events -> [Handlers -> Delivery]]
  BY RowTypes DEF TypeOK, Release
<1>3. stage' \in [Procs -> Stage] /\ todo' \in [Procs -> SUBSET Events]
  BY DEF TypeOK, Release, Stage
<1>4. cur' \in [Procs -> Events \cup {None}] /\ plan' \in [Procs -> SUBSET Handlers]
      /\ sub' \in [Procs -> Handlers \cup {None}] /\ age' \in [Procs -> Nat]
  BY DEF TypeOK, Release
<1>5. ASSUME NEW q \in Procs
      PROVE  /\ stage'[q] \in {"event", "call"} => cur'[q] \in Events
             /\ stage'[q] = "call" => sub'[q] \in Handlers
  BY DEF TypeOK, Release
<1>6. QED
  BY <1>1, <1>2, <1>3, <1>4, <1>5 DEF TypeOK

LEMMA RecordType ==
    ASSUME TypeOK, NEW p \in Procs, NEW row \in Delivery, Record(p, row),
           oks' \in [Events -> SUBSET Handlers]
    PROVE  TypeOK'
<1>1. cur[p] \in Events /\ sub[p] \in Handlers
  BY DEF TypeOK, Record
<1>2. tdl' \in [Events -> [Handlers -> Delivery]]
  <2>1. [tdl[cur[p]] EXCEPT ![sub[p]] = row] \in [Handlers -> Delivery]
    BY <1>1 DEF TypeOK
  <2>2. tdl' = [tdl EXCEPT ![cur[p]] = [tdl[cur[p]] EXCEPT ![sub[p]] = row]]
    BY DEF Record
  <2>3. QED
    BY <2>1, <2>2 DEF TypeOK
<1>3. sub' \in [Procs -> Handlers \cup {None}] /\ stage' \in [Procs -> Stage]
  BY DEF TypeOK, Record, Stage
<1>4. ASSUME NEW q \in Procs
      PROVE  /\ stage'[q] \in {"event", "call"} => cur'[q] \in Events
             /\ stage'[q] = "call" => sub'[q] \in Handlers
  BY <1>1 DEF TypeOK, Record
<1>5. QED
  BY <1>2, <1>3, <1>4 DEF TypeOK, Record, tables

LEMMA StepType ==
    ASSUME TypeOK, [Next]_vars
    PROVE  TypeOK'
<1>1. ASSUME NEW e \in Events, Publish(e) PROVE TypeOK'
  <2>1. PICK delay \in 0..MaxDelay :
          ev' = [ev EXCEPT ![e] = [status |-> "pending", next |-> delay, old |-> 0]]
    BY <1>1 DEF Publish
  <2>2. [status |-> "pending", next |-> delay, old |-> 0] \in Event
    BY DEF Event, EventStatus, When
  <2>3. ev' \in [Events -> Event]
    BY <2>1, <2>2 DEF TypeOK
  <2>4. QED
    BY <1>1, <2>3 DEF TypeOK, Publish, view, dispatcher, history
<1>2. ASSUME NEW p \in Procs, FetchBatch(p) PROVE TypeOK'
  <2>1. PICK S \in SUBSET {e \in Events : Fetchable(e)} :
          /\ lock' = [e \in Events |-> IF e \in S THEN p ELSE lock[e]]
          /\ tev' = [e \in Events |-> IF e \in S THEN ev[e] ELSE tev[e]]
          /\ tdl' = [e \in Events |-> IF e \in S THEN dl[e] ELSE tdl[e]]
          /\ todo' = [todo EXCEPT ![p] = S]
    BY <1>2 DEF FetchBatch
  <2>2. lock' \in [Events -> Procs \cup {None}] /\ tev' \in [Events -> Event]
        /\ tdl' \in [Events -> [Handlers -> Delivery]]
    BY <2>1 DEF TypeOK
  <2>3. todo' \in [Procs -> SUBSET Events]
    BY <2>1 DEF TypeOK
  <2>4. stage' \in [Procs -> Stage] /\ age' \in [Procs -> Nat]
    BY <1>2 DEF TypeOK, FetchBatch, Stage
  <2>5. ASSUME NEW q \in Procs
        PROVE  /\ stage'[q] \in {"event", "call"} => cur'[q] \in Events
               /\ stage'[q] = "call" => sub'[q] \in Handlers
    BY <1>2 DEF TypeOK, FetchBatch
  <2>6. QED
    BY <1>2, <2>2, <2>3, <2>4, <2>5 DEF TypeOK, FetchBatch, tables, history
<1>3. ASSUME NEW p \in Procs, NEW e \in Events, NoSubscriber(p, e) PROVE TypeOK'
  <2>1. [tev[e] EXCEPT !.status = "failed", !.next = Never] \in Event
    <3>1. tev[e] \in Event
      BY DEF TypeOK
    <3>2. QED
      BY <3>1 DEF Event, EventStatus, When
  <2>2. tev' = [tev EXCEPT ![e] = [tev[e] EXCEPT !.status = "failed", !.next = Never]]
    BY <1>3 DEF NoSubscriber, TypeOK
  <2>3. tev' \in [Events -> Event]
    BY <2>1, <2>2 DEF TypeOK
  <2>4. todo' \in [Procs -> SUBSET Events]
    BY <1>3 DEF TypeOK, NoSubscriber
  <2>5. QED
    BY <1>3, <2>3, <2>4 DEF TypeOK, NoSubscriber, tables, history
<1>4. ASSUME NEW p \in Procs, NEW e \in Events, StartEvent(p, e) PROVE TypeOK'
  <2> DEFINE rows == EnsureDeliveries(p, tdl[e])
  <2>1. rows \in [Handlers -> Delivery]
    BY EnsureType DEF TypeOK
  <2>2. DueDeliveries(rows) \in SUBSET Handlers
    BY DueSubset
  <2>3. /\ tdl' = [tdl EXCEPT ![e] = rows]
        /\ plan' = [plan EXCEPT ![p] = DueDeliveries(rows)]
    BY <1>4 DEF StartEvent
  <2> HIDE DEF rows
  <2>4. tdl' \in [Events -> [Handlers -> Delivery]] /\ plan' \in [Procs -> SUBSET Handlers]
    BY <2>1, <2>2, <2>3 DEF TypeOK
  <2>5. todo' \in [Procs -> SUBSET Events] /\ cur' \in [Procs -> Events \cup {None}]
        /\ stage' \in [Procs -> Stage]
    BY <1>4 DEF TypeOK, StartEvent, Stage
  <2>6. ASSUME NEW q \in Procs
        PROVE  /\ stage'[q] \in {"event", "call"} => cur'[q] \in Events
               /\ stage'[q] = "call" => sub'[q] \in Handlers
    BY <1>4 DEF TypeOK, StartEvent
  <2>7. QED
    BY <1>4, <2>4, <2>5, <2>6 DEF TypeOK, StartEvent, tables, history
<1>5. ASSUME NEW p \in Procs, NEW h \in Handlers, Unregistered(p, h) PROVE TypeOK'
  <2>1. cur[p] \in Events
    BY <1>5 DEF TypeOK, Unregistered
  <2>2. [tdl[cur[p]] EXCEPT ![h] = Terminal] \in [Handlers -> Delivery]
    BY <2>1, RowTypes DEF TypeOK
  <2>3. tdl' = [tdl EXCEPT ![cur[p]] = [tdl[cur[p]] EXCEPT ![h] = Terminal]]
    BY <1>5 DEF Unregistered
  <2>4. tdl' \in [Events -> [Handlers -> Delivery]]
    BY <2>1, <2>2, <2>3 DEF TypeOK
  <2>5. plan' \in [Procs -> SUBSET Handlers]
    BY <1>5 DEF TypeOK, Unregistered
  <2>6. QED
    BY <1>5, <2>4, <2>5 DEF TypeOK, Unregistered, tables, history
<1>6. ASSUME NEW p \in Procs, NEW h \in Handlers, CallHandler(p, h) PROVE TypeOK'
  <2>1. cur[p] \in Events
    BY <1>6 DEF TypeOK, CallHandler
  <2>2. calls' \in [Events -> [Handlers -> Nat]]
    BY <1>6, <2>1 DEF TypeOK, CallHandler
  <2>3. tried' \in [Events -> SUBSET Handlers] /\ plan' \in [Procs -> SUBSET Handlers]
    BY <1>6, <2>1 DEF TypeOK, CallHandler
  <2>4. sub' \in [Procs -> Handlers \cup {None}] /\ stage' \in [Procs -> Stage]
    BY <1>6 DEF TypeOK, CallHandler, Stage
  <2>5. ASSUME NEW q \in Procs
        PROVE  /\ stage'[q] \in {"event", "call"} => cur'[q] \in Events
               /\ stage'[q] = "call" => sub'[q] \in Handlers
    BY <1>6, <2>1 DEF TypeOK, CallHandler
  <2>6. QED
    BY <1>6, <2>2, <2>3, <2>4, <2>5 DEF TypeOK, CallHandler, tables, view
<1>7. ASSUME NEW p \in Procs, HandlerOk(p) PROVE TypeOK'
  <2>1. cur[p] \in Events /\ sub[p] \in Handlers
    BY <1>7 DEF TypeOK, HandlerOk, Record
  <2>2. tdl[cur[p]][sub[p]] \in Delivery
    BY <2>1 DEF TypeOK
  <2>3. oks' \in [Events -> SUBSET Handlers]
    BY <1>7, <2>1 DEF TypeOK, HandlerOk
  <2>4. [tdl[cur[p]][sub[p]] EXCEPT !.status = "delivered"] \in Delivery
    BY <2>2, DeliveredType
  <2>5. QED
    BY <1>7, <2>3, <2>4, RecordType DEF HandlerOk
<1>8. ASSUME NEW p \in Procs, HandlerErr(p) PROVE TypeOK'
  <2>1. cur[p] \in Events /\ sub[p] \in Handlers
    BY <1>8 DEF TypeOK, HandlerErr, Record
  <2>2. tdl[cur[p]][sub[p]] \in Delivery
    BY <2>1 DEF TypeOK
  <2>3. RetryPlan(tdl[cur[p]][sub[p]]) \in Delivery
    BY <2>2, RetryPlanType
  <2>4. QED
    BY <1>8, <2>3, RecordType DEF HandlerErr, TypeOK
<1>9. ASSUME NEW p \in Procs, HandlerPanics(p) PROVE TypeOK'
  BY <1>9, RowTypes, RecordType DEF HandlerPanics, TypeOK
<1>10. ASSUME NEW p \in Procs, FinishEvent(p) PROVE TypeOK'
  <2> DEFINE e == cur[p]
  <2>1. e \in Events
    BY <1>10 DEF TypeOK, FinishEvent
  <2>2. PICK n \in {tdl[e][h].next : h \in Handlers} \cup {Never} :
          tev' = [tev EXCEPT ![e] = [status |-> Aggregate(tdl[e]), next |-> n, old |-> 0]]
    BY <1>10 DEF FinishEvent
  <2>3. n \in When
    BY <2>1 DEF TypeOK, Delivery, When
  <2>4. Aggregate(tdl[e]) \in EventStatus
    BY DEF Aggregate, EventStatus
  <2>5. [status |-> Aggregate(tdl[e]), next |-> n, old |-> 0] \in Event
    BY <2>3, <2>4 DEF Event
  <2>6. tev' \in [Events -> Event]
    BY <2>2, <2>5 DEF TypeOK
  <2>7. cur' \in [Procs -> Events \cup {None}] /\ stage' \in [Procs -> Stage]
    BY <1>10 DEF TypeOK, FinishEvent, Stage
  <2>8. ASSUME NEW q \in Procs
        PROVE  /\ stage'[q] \in {"event", "call"} => cur'[q] \in Events
               /\ stage'[q] = "call" => sub'[q] \in Handlers
    BY <1>10 DEF TypeOK, FinishEvent
  <2>9. QED
    BY <1>10, <2>6, <2>7, <2>8 DEF TypeOK, FinishEvent, tables, history
<1>11. ASSUME NEW p \in Procs, Commit(p) PROVE TypeOK'
  <2>1. \A e \in Events : AgedEvent(tev[e], age[p]) \in Event
                         /\ AgedDeliveries(tdl[e], age[p]) \in [Handlers -> Delivery]
    BY AgedEventType, AgedDeliveriesType DEF TypeOK
  <2>2. ev' \in [Events -> Event] /\ dl' \in [Events -> [Handlers -> Delivery]]
    BY <1>11, <2>1 DEF TypeOK, Commit
  <2>3. QED
    BY <1>11, <2>2, ReleaseType DEF Commit, TypeOK
<1>12. ASSUME NEW p \in Procs, NEW s \in {"idle", "down"}, Disturb, Rollback(p, s) PROVE TypeOK'
  <2>1. lost' \in [Events -> [Handlers -> Nat]]
    BY <1>12 DEF TypeOK, Rollback
  <2>2. faults' \in Nat
    BY <1>12 DEF TypeOK, Disturb
  <2>3. ev' \in [Events -> Event] /\ dl' \in [Events -> [Handlers -> Delivery]]
    BY <1>12 DEF TypeOK, Rollback, tables
  <2>4. Release(p, s) /\ UNCHANGED <<calls, oks>>
    BY <1>12 DEF Rollback
  <2>5. QED
    BY <2>1, <2>2, <2>3, <2>4, ReleaseType
<1>13. ASSUME NEW p \in Procs, Start(p) PROVE TypeOK'
  BY <1>13 DEF TypeOK, Start, Stage, tables, view, history
<1>14. ASSUME DeleteDelivered PROVE TypeOK'
  <2>1. [NoEvent EXCEPT !.status = "deleted"] \in Event
    BY DEF NoEvent, Event, EventStatus, When, Never
  <2>2. ev' \in [Events -> Event] /\ dl' \in [Events -> [Handlers -> Delivery]]
    BY <1>14, <2>1, RowTypes DEF TypeOK, DeleteDelivered
  <2>3. QED
    BY <1>14, <2>2 DEF TypeOK, DeleteDelivered, view, dispatcher, history
<1>15. ASSUME Tick PROVE TypeOK'
  <2>1. \A e \in Events : AgedEvent(ev[e], 1) \in Event
                         /\ AgedDeliveries(dl[e], 1) \in [Handlers -> Delivery]
    BY AgedEventType, AgedDeliveriesType DEF TypeOK
  <2>2. ev' \in [Events -> Event] /\ dl' \in [Events -> [Handlers -> Delivery]]
    BY <1>15, <2>1 DEF Tick
  <2>3. age' \in [Procs -> Nat]
    BY <1>15 DEF Tick, TypeOK, Min2, Max2, Horizon
  <2>4. QED
    BY <1>15, <2>2, <2>3 DEF TypeOK, Tick, view, history
<1>16. ASSUME UNCHANGED vars PROVE TypeOK'
  BY <1>16 DEF TypeOK, vars, tables, view, dispatcher, history
<1>17. QED
  BY <1>1, <1>2, <1>3, <1>4, <1>5, <1>6, <1>7, <1>8, <1>9, <1>10, <1>11, <1>12, <1>13, <1>14,
     <1>15, <1>16 DEF Next, Dispatch, CycleFails, Stop

LEMMA InitType == Init => TypeOK
BY RowTypes DEF Init, TypeOK, Stage

\* In every reachable state the tables are well formed, and no open delivery
\* is out of attempts or without a due time: what RetryPlan::from_failure and
\* ensure_deliveries write is always fetched again.
THEOREM EventTypeCorrect == Spec => []TypeOK
<1>1. Init => TypeOK
  BY InitType
<1>2. TypeOK /\ [Next]_vars => TypeOK'
  BY StepType
<1>3. QED
  BY <1>1, <1>2, PTL DEF Spec

-----------------------------------------------------------------------------
(* Ownership: what a dispatcher works on is locked by its transaction.     *)

\* A step that leaves q and the events of q alone keeps Owned(q).
LEMMA OwnedFrame ==
    ASSUME TypeOK, NEW q \in Procs, Owned(q),
           stage'[q] = stage[q], todo'[q] = todo[q], cur'[q] = cur[q],
           plan'[q] = plan[q], sub'[q] = sub[q],
           \A e \in Events : (lock'[e] = q) <=> (lock[e] = q),
           \A e \in Events : lock[e] = q =>
              tev'[e] = tev[e] /\ tdl'[e] = tdl[e] /\ tried'[e] = tried[e]
    PROVE  Owned(q)'
<1>1. todo[q] \subseteq Events
  BY DEF TypeOK
<1>2. stage[q] \in {"event", "call"} => cur[q] \in Events
  BY DEF TypeOK
<1>3. CASE stage[q] \in {"event", "call"}
  <2>1. lock[cur[q]] = q /\ cur[q] \in Events
    BY <1>2, <1>3 DEF Owned
  <2>2. tev'[cur[q]] = tev[cur[q]] /\ tdl'[cur[q]] = tdl[cur[q]] /\ tried'[cur[q]] = tried[cur[q]]
        /\ lock'[cur[q]] = q
    BY <2>1
  <2>3. QED
    BY <1>1, <1>3, <2>1, <2>2 DEF Owned, HasRows
<1>4. CASE stage[q] \notin {"event", "call"}
  BY <1>1, <1>4 DEF Owned
<1>5. QED
  BY <1>3, <1>4

\* The end of a transaction.
LEMMA ReleaseOwned ==
    ASSUME TypeOK, \A q \in Procs : Owned(q),
           NEW p \in Procs, NEW s \in {"idle", "down"}, Release(p, s)
    PROVE  \A q \in Procs : Owned(q)'
<1>1. Owned(p)'
  BY DEF TypeOK, Release, Owned
<1>2. ASSUME NEW q \in Procs, q # p PROVE Owned(q)'
  <2>1. /\ stage'[q] = stage[q] /\ todo'[q] = todo[q] /\ cur'[q] = cur[q]
        /\ plan'[q] = plan[q] /\ sub'[q] = sub[q]
    BY <1>2 DEF TypeOK, Release
  <2>2. \A e \in Events : /\ (lock'[e] = q) <=> (lock[e] = q)
                          /\ lock[e] = q =>
                               tev'[e] = tev[e] /\ tdl'[e] = tdl[e] /\ tried'[e] = tried[e]
    BY <1>2 DEF TypeOK, Release
  <2>3. QED
    BY <2>1, <2>2, OwnedFrame
<1>3. QED
  BY <1>1, <1>2

\* A step of p that writes the row of one of its deliveries.
LEMMA WriteFrame ==
    ASSUME TypeOK, \A q \in Procs : Owned(q),
           NEW p \in Procs, stage[p] \in {"event", "call"}, NEW h \in Handlers, NEW row,
           tdl' = [tdl EXCEPT ![cur[p]][h] = row]
    PROVE  /\ tdl'[cur[p]] = [tdl[cur[p]] EXCEPT ![h] = row]
           /\ \A e \in Events : e # cur[p] => tdl'[e] = tdl[e]
           /\ \A q \in Procs : q # p => \A e \in Events : lock[e] = q => e # cur[p]
<1>1. cur[p] \in Events /\ lock[cur[p]] = p
  BY DEF TypeOK, Owned
<1>2. QED
  BY <1>1 DEF TypeOK

LEMMA RecordOwned ==
    ASSUME TypeOK, \A q \in Procs : Owned(q), NEW p \in Procs, NEW row, row.status # "none",
           Record(p, row)
    PROVE  \A q \in Procs : Owned(q)'
<1>1. stage[p] = "call" /\ cur[p] \in Events /\ sub[p] \in Handlers
  BY DEF TypeOK, Record
<1>2. /\ tdl'[cur[p]] = [tdl[cur[p]] EXCEPT ![sub[p]] = row]
      /\ \A e \in Events : e # cur[p] => tdl'[e] = tdl[e]
      /\ \A q \in Procs : q # p => \A e \in Events : lock[e] = q => e # cur[p]
  BY <1>1, WriteFrame DEF Record
<1>3. Owned(p)'
  <2>1. /\ stage'[p] = "event" /\ cur'[p] = cur[p] /\ todo'[p] = todo[p] /\ plan'[p] = plan[p]
        /\ lock' = lock /\ tev' = tev /\ tried' = tried
    BY DEF Record, TypeOK
  <2>2. tdl'[cur[p]][sub[p]] = row
    BY <1>1, <1>2 DEF TypeOK
  <2>3. \A h \in plan[p] : tdl'[cur[p]][h] = tdl[cur[p]][h]
    BY <1>1, <1>2 DEF TypeOK, Owned
  <2>4. HasRows(tdl'[cur[p]])
    BY <1>1, <2>2 DEF HasRows
  <2>5. QED
    BY <1>1, <2>1, <2>2, <2>3, <2>4 DEF Owned
<1>4. ASSUME NEW q \in Procs, q # p PROVE Owned(q)'
  <2>1. /\ stage'[q] = stage[q] /\ todo'[q] = todo[q] /\ cur'[q] = cur[q]
        /\ plan'[q] = plan[q] /\ sub'[q] = sub[q] /\ lock' = lock /\ tev' = tev /\ tried' = tried
    BY <1>4 DEF TypeOK, Record
  <2>2. \A e \in Events : lock[e] = q => tdl'[e] = tdl[e]
    BY <1>2, <1>4
  <2>3. QED
    BY <2>1, <2>2, OwnedFrame
<1>5. QED
  BY <1>3, <1>4

LEMMA EnsureRows ==
    ASSUME NEW p \in Procs, NEW rows \in [Handlers -> Delivery]
    PROVE  /\ \A h \in Handlers : rows[h].status # "none" => EnsureDeliveries(p, rows)[h] = rows[h]
           /\ \A h \in Handlers : rows[h].status = "none" =>
                 EnsureDeliveries(p, rows)[h] \in {rows[h], NewDelivery}
           /\ \A h \in Subs[p] : EnsureDeliveries(p, rows)[h].status # "none"
           /\ Subs[p] # {} => HasRows(EnsureDeliveries(p, rows))
BY DEF EnsureDeliveries, HasRows, NewDelivery

LEMMA StepOwned ==
    ASSUME TypeOK, \A q \in Procs : Owned(q), \A e \in Events : Tracked(e), [Next]_vars
    PROVE  \A q \in Procs : Owned(q)'
<1>1. ASSUME NEW e \in Events, Publish(e) PROVE \A q \in Procs : Owned(q)'
  BY <1>1, OwnedFrame DEF Publish, view, dispatcher, history
<1>2. ASSUME NEW p \in Procs, FetchBatch(p) PROVE \A q \in Procs : Owned(q)'
  <2>1. PICK S \in SUBSET {e \in Events : Fetchable(e)} :
          /\ lock' = [e \in Events |-> IF e \in S THEN p ELSE lock[e]]
          /\ tev' = [e \in Events |-> IF e \in S THEN ev[e] ELSE tev[e]]
          /\ tdl' = [e \in Events |-> IF e \in S THEN dl[e] ELSE tdl[e]]
          /\ todo' = [todo EXCEPT ![p] = S]
    BY <1>2 DEF FetchBatch
  <2>2. \A e \in S : lock[e] = None /\ ev[e].status \in {"pending", "failed"} /\ tried[e] = {}
    <3>1. ASSUME NEW e \in S
          PROVE lock[e] = None /\ ev[e].status \in {"pending", "failed"} /\ tried[e] = {}
      <4>1. e \in Events /\ Fetchable(e) /\ Tracked(e)
        OBVIOUS
      <4>2. ev[e] \in Event
        BY <4>1 DEF TypeOK
      <4>3. ev[e].status # "delivered"
        BY <4>1 DEF Fetchable, Tracked, Sound, DueDeliveries
      <4>4. QED
        BY <4>1, <4>2, <4>3 DEF Fetchable, Tracked, Event, EventStatus
    <3>2. QED
      BY <3>1
  <2>3. Owned(p)'
    BY <1>2, <2>1, <2>2 DEF FetchBatch, TypeOK, Owned, history
  <2>9. ASSUME NEW q \in Procs, q # p PROVE Owned(q)'
    <3>1. /\ stage'[q] = stage[q] /\ todo'[q] = todo[q] /\ cur'[q] = cur[q]
          /\ plan'[q] = plan[q] /\ sub'[q] = sub[q]
      BY <1>2, <2>9 DEF TypeOK, FetchBatch
    <3>2. \A e \in Events : /\ (lock'[e] = q) <=> (lock[e] = q)
                            /\ lock[e] = q =>
                                 tev'[e] = tev[e] /\ tdl'[e] = tdl[e] /\ tried'[e] = tried[e]
      BY <1>2, <2>9, <2>1, <2>2 DEF TypeOK, Owned, FetchBatch, history
    <3>3. QED
      BY <3>1, <3>2, OwnedFrame
  <2>10. QED
    BY <2>3, <2>9
<1>3. ASSUME NEW p \in Procs, NEW e0 \in Events, NoSubscriber(p, e0)
      PROVE \A q \in Procs : Owned(q)'
  <2>1. lock[e0] = p
    BY <1>3 DEF NoSubscriber, Owned
  <2>2. \A e \in Events : e # e0 => tev'[e] = tev[e]
    BY <1>3 DEF NoSubscriber, TypeOK
  <2>3. /\ stage[p] = "batch" /\ stage' = stage /\ cur' = cur /\ todo'[p] = todo[p] \ {e0}
        /\ lock' = lock /\ tried' = tried
    BY <1>3 DEF NoSubscriber, TypeOK, history
  <2>4. todo[p] \subseteq Events /\ Owned(p)
    BY DEF TypeOK
  <2>5. Owned(p)'
    BY <2>2, <2>3, <2>4 DEF Owned
  <2>9. ASSUME NEW q \in Procs, q # p PROVE Owned(q)'
    <3>1. /\ stage'[q] = stage[q] /\ todo'[q] = todo[q] /\ cur'[q] = cur[q]
          /\ plan'[q] = plan[q] /\ sub'[q] = sub[q]
      BY <1>3, <2>9 DEF TypeOK, NoSubscriber
    <3>2. \A e \in Events : /\ (lock'[e] = q) <=> (lock[e] = q)
                            /\ lock[e] = q =>
                                 tev'[e] = tev[e] /\ tdl'[e] = tdl[e] /\ tried'[e] = tried[e]
      BY <1>3, <2>9, <2>1, <2>2 DEF TypeOK, Owned, NoSubscriber, history
    <3>3. QED
      BY <3>1, <3>2, OwnedFrame
  <2>10. QED
    BY <2>5, <2>9
<1>4. ASSUME NEW p \in Procs, NEW e0 \in Events, StartEvent(p, e0)
      PROVE \A q \in Procs : Owned(q)'
  <2> DEFINE rows == EnsureDeliveries(p, tdl[e0])
  <2>1. lock[e0] = p /\ tried[e0] = {} /\ tev[e0].status \in {"pending", "failed"}
    BY <1>4 DEF StartEvent, Owned
  <2>2. tdl' = [tdl EXCEPT ![e0] = rows] /\ plan' = [plan EXCEPT ![p] = DueDeliveries(rows)]
    BY <1>4 DEF StartEvent
  <2>3. HasRows(rows)
    BY <1>4, EnsureRows DEF StartEvent, TypeOK
  <2>4. \A h \in DueDeliveries(rows) : rows[h].status = "pending"
    BY DEF DueDeliveries, Pending
  <2> HIDE DEF rows
  <2>5. tdl'[e0] = rows /\ \A e \in Events : e # e0 => tdl'[e] = tdl[e]
    BY <2>2 DEF TypeOK
  <2>6. plan'[p] = DueDeliveries(rows)
    BY <2>2 DEF TypeOK
  <2>7. /\ stage'[p] = "event" /\ cur'[p] = e0 /\ todo'[p] = todo[p] \ {e0}
        /\ lock' = lock /\ tev' = tev /\ tried' = tried
    BY <1>4 DEF StartEvent, TypeOK, history
  <2>8. Owned(p)'
    BY <2>1, <2>3, <2>4, <2>5, <2>6, <2>7 DEF Owned, TypeOK
  <2>9. ASSUME NEW q \in Procs, q # p PROVE Owned(q)'
    <3>1. /\ stage'[q] = stage[q] /\ todo'[q] = todo[q] /\ cur'[q] = cur[q]
          /\ plan'[q] = plan[q] /\ sub'[q] = sub[q]
      BY <1>4, <2>9 DEF TypeOK, StartEvent
    <3>2. \A e \in Events : /\ (lock'[e] = q) <=> (lock[e] = q)
                            /\ lock[e] = q =>
                                 tev'[e] = tev[e] /\ tdl'[e] = tdl[e] /\ tried'[e] = tried[e]
      BY <1>4, <2>9, <2>1, <2>5 DEF TypeOK, Owned, StartEvent, history
    <3>3. QED
      BY <3>1, <3>2, OwnedFrame
  <2>10. QED
    BY <2>8, <2>9
<1>5. ASSUME NEW p \in Procs, NEW h \in Handlers, Unregistered(p, h)
      PROVE \A q \in Procs : Owned(q)'
  <2>1. stage[p] = "event" /\ cur[p] \in Events
    BY <1>5 DEF Unregistered, TypeOK
  <2>2. /\ tdl'[cur[p]] = [tdl[cur[p]] EXCEPT ![h] = Terminal]
        /\ \A e \in Events : e # cur[p] => tdl'[e] = tdl[e]
        /\ \A q \in Procs : q # p => \A e \in Events : lock[e] = q => e # cur[p]
    BY <1>5, <2>1, WriteFrame DEF Unregistered
  <2>3. /\ stage'[p] = "event" /\ cur'[p] = cur[p] /\ todo'[p] = todo[p] /\ plan'[p] = plan[p] \ {h}
        /\ lock' = lock /\ tev' = tev /\ tried' = tried
    BY <1>5 DEF Unregistered, TypeOK, history
  <2>4. tdl'[cur[p]][h].status = "failed"
    BY <2>1, <2>2 DEF TypeOK, Terminal
  <2>5. \A k \in plan[p] \ {h} : tdl'[cur[p]][k] = tdl[cur[p]][k]
    BY <2>1, <2>2 DEF TypeOK
  <2>6. HasRows(tdl'[cur[p]])
    BY <2>4 DEF HasRows
  <2>7. Owned(p)'
    BY <2>1, <2>3, <2>5, <2>6 DEF Owned
  <2>9. ASSUME NEW q \in Procs, q # p PROVE Owned(q)'
    <3>1. /\ stage'[q] = stage[q] /\ todo'[q] = todo[q] /\ cur'[q] = cur[q]
          /\ plan'[q] = plan[q] /\ sub'[q] = sub[q]
      BY <1>5, <2>9 DEF TypeOK, Unregistered
    <3>2. \A e \in Events : /\ (lock'[e] = q) <=> (lock[e] = q)
                            /\ lock[e] = q =>
                                 tev'[e] = tev[e] /\ tdl'[e] = tdl[e] /\ tried'[e] = tried[e]
      BY <1>5, <2>9, <2>2 DEF TypeOK, Owned, Unregistered, history
    <3>3. QED
      BY <3>1, <3>2, OwnedFrame
  <2>10. QED
    BY <2>7, <2>9
<1>6. ASSUME NEW p \in Procs, NEW h \in Handlers, CallHandler(p, h)
      PROVE \A q \in Procs : Owned(q)'
  <2>1. stage[p] = "event" /\ cur[p] \in Events /\ lock[cur[p]] = p
    BY <1>6 DEF CallHandler, TypeOK, Owned
  <2>2. /\ stage'[p] = "call" /\ cur'[p] = cur[p] /\ todo'[p] = todo[p]
        /\ plan'[p] = plan[p] \ {h} /\ sub'[p] = h
        /\ lock' = lock /\ tev' = tev /\ tdl' = tdl
    BY <1>6 DEF CallHandler, TypeOK, view
  <2>3. tried'[cur[p]] = tried[cur[p]] \cup {h} /\ \A e \in Events : e # cur[p] => tried'[e] = tried[e]
    BY <1>6, <2>1 DEF CallHandler, TypeOK
  <2>4. h \in plan[p]
    BY <1>6 DEF CallHandler
  <2>5. todo[p] \subseteq Events /\ Owned(p)
    BY DEF TypeOK
  <2>6. \A e \in todo[p] : e # cur[p]
    BY <2>1, <2>5 DEF Owned
  <2>7. tdl[cur[p]][h].status = "pending" /\ HasRows(tdl[cur[p]])
    BY <2>1, <2>4, <2>5 DEF Owned
  <2>8. Owned(p)'
    BY <2>1, <2>2, <2>3, <2>5, <2>6, <2>7 DEF Owned
  <2>9. ASSUME NEW q \in Procs, q # p PROVE Owned(q)'
    <3>1. /\ stage'[q] = stage[q] /\ todo'[q] = todo[q] /\ cur'[q] = cur[q]
          /\ plan'[q] = plan[q] /\ sub'[q] = sub[q]
      BY <1>6, <2>9 DEF TypeOK, CallHandler
    <3>2. \A e \in Events : /\ (lock'[e] = q) <=> (lock[e] = q)
                            /\ lock[e] = q =>
                                 tev'[e] = tev[e] /\ tdl'[e] = tdl[e] /\ tried'[e] = tried[e]
      BY <1>6, <2>9, <2>1, <2>3 DEF TypeOK, Owned, CallHandler, view
    <3>3. QED
      BY <3>1, <3>2, OwnedFrame
  <2>10. QED
    BY <2>8, <2>9
<1>7. ASSUME NEW p \in Procs, HandlerOk(p) \/ HandlerErr(p) \/ HandlerPanics(p)
      PROVE \A q \in Procs : Owned(q)'
  <2>1. stage[p] = "call" /\ cur[p] \in Events /\ sub[p] \in Handlers
    BY <1>7 DEF HandlerOk, HandlerErr, HandlerPanics, Record, TypeOK
  <2>2. tdl[cur[p]][sub[p]] \in Delivery
    BY <2>1 DEF TypeOK
  <2>3. [tdl[cur[p]][sub[p]] EXCEPT !.status = "delivered"].status # "none"
    BY <2>2 DEF Delivery
  <2>4. RetryPlan(tdl[cur[p]][sub[p]]).status # "none" /\ Terminal.status # "none"
    BY DEF RetryPlan, Terminal
  <2>5. QED
    BY <1>7, <2>3, <2>4, RecordOwned DEF HandlerOk, HandlerErr, HandlerPanics
<1>8. ASSUME NEW p \in Procs, FinishEvent(p) PROVE \A q \in Procs : Owned(q)'
  <2>1. stage[p] = "event" /\ cur[p] \in Events /\ lock[cur[p]] = p /\ cur[p] \notin todo[p]
    BY <1>8 DEF FinishEvent, TypeOK, Owned
  <2>2. \A e \in Events : e # cur[p] => tev'[e] = tev[e]
    BY <1>8 DEF FinishEvent, TypeOK
  <2>3. /\ stage'[p] = "batch" /\ cur'[p] = None /\ todo'[p] = todo[p]
        /\ lock' = lock /\ tried' = tried
    BY <1>8 DEF FinishEvent, TypeOK, history
  <2>4. todo[p] \subseteq Events /\ Owned(p)
    BY DEF TypeOK
  <2>5. \A e \in todo[p] : e # cur[p]
    BY <2>1
  <2>6. Owned(p)'
    BY <2>1, <2>2, <2>3, <2>4, <2>5 DEF Owned
  <2>9. ASSUME NEW q \in Procs, q # p PROVE Owned(q)'
    <3>1. /\ stage'[q] = stage[q] /\ todo'[q] = todo[q] /\ cur'[q] = cur[q]
          /\ plan'[q] = plan[q] /\ sub'[q] = sub[q]
      BY <1>8, <2>9 DEF TypeOK, FinishEvent
    <3>2. \A e \in Events : /\ (lock'[e] = q) <=> (lock[e] = q)
                            /\ lock[e] = q =>
                                 tev'[e] = tev[e] /\ tdl'[e] = tdl[e] /\ tried'[e] = tried[e]
      BY <1>8, <2>9, <2>1, <2>2 DEF TypeOK, Owned, FinishEvent, history
    <3>3. QED
      BY <3>1, <3>2, OwnedFrame
  <2>10. QED
    BY <2>6, <2>9
<1>9. ASSUME NEW p \in Procs, Commit(p) PROVE \A q \in Procs : Owned(q)'
  BY <1>9, ReleaseOwned DEF Commit
<1>10. ASSUME NEW p \in Procs, NEW s \in {"idle", "down"}, Rollback(p, s)
       PROVE \A q \in Procs : Owned(q)'
  BY <1>10, ReleaseOwned DEF Rollback
<1>11. ASSUME NEW p \in Procs, Start(p) PROVE \A q \in Procs : Owned(q)'
  <2>1. Owned(p)'
    BY <1>11 DEF Start, Owned, TypeOK, view, history
  <2>9. ASSUME NEW q \in Procs, q # p PROVE Owned(q)'
    <3>1. /\ stage'[q] = stage[q] /\ todo'[q] = todo[q] /\ cur'[q] = cur[q]
          /\ plan'[q] = plan[q] /\ sub'[q] = sub[q]
      BY <1>11, <2>9 DEF TypeOK, Start
    <3>2. \A e \in Events : /\ (lock'[e] = q) <=> (lock[e] = q)
                            /\ lock[e] = q =>
                                 tev'[e] = tev[e] /\ tdl'[e] = tdl[e] /\ tried'[e] = tried[e]
      BY <1>11, <2>9 DEF TypeOK, Owned, Start, view, history
    <3>3. QED
      BY <3>1, <3>2, OwnedFrame
  <2>10. QED
    BY <2>1, <2>9
<1>12. ASSUME DeleteDelivered \/ Tick \/ UNCHANGED vars PROVE \A q \in Procs : Owned(q)'
  BY <1>12, OwnedFrame DEF DeleteDelivered, Tick, vars, view, dispatcher, history
<1>13. QED
  BY <1>1, <1>2, <1>3, <1>4, <1>5, <1>6, <1>7, <1>8, <1>9, <1>10, <1>11, <1>12
     DEF Next, Dispatch, CycleFails, Stop

-----------------------------------------------------------------------------
(* Tracking: the rows of an event, committed and not, and its calls.       *)

LEMMA BookedType ==
    ASSUME NEW d \in Delivery
    PROVE  /\ Booked(d) \in Nat
           /\ (d.status = "delivered" => d.attempts < MaxAttempts) => Booked(d) <= MaxAttempts
           /\ d.status = "pending" => Booked(d) < MaxAttempts
BY DEF Booked, Delivery

LEMMA BookedRows ==
    /\ Booked(NewDelivery) = 0
    /\ Booked(NoDelivery) = 0
    /\ Booked(Terminal) = MaxAttempts
BY DEF Booked, NewDelivery, NoDelivery, Terminal

\* Sound depends on statuses and attempts only, and on who has handled.
LEMMA SoundSame ==
    ASSUME NEW ok, NEW ok2 \in SUBSET Handlers, ok \subseteq ok2,
           NEW r, NEW r2, r2.status = r.status,
           NEW rows, NEW rows2,
           \A h \in Handlers : rows2[h].status = rows[h].status /\ rows2[h].attempts = rows[h].attempts,
           Sound(ok, r, rows)
    PROVE  Sound(ok2, r2, rows2)
<1>1. HasRows(rows2) <=> HasRows(rows)
  BY DEF HasRows
<1>2. Pending(rows2) = Pending(rows) /\ Failed(rows2) = Failed(rows)
  BY DEF Pending, Failed
<1>3. QED
  BY <1>1, <1>2 DEF Sound

\* A row that is not yet delivered is overwritten.
LEMMA SoundWrite ==
    ASSUME NEW ok, NEW ok2 \in SUBSET Handlers, ok \subseteq ok2,
           NEW r, r.status \in {"pending", "failed"},
           NEW rows \in [Handlers -> Delivery], NEW h \in Handlers, NEW row,
           row.status # "none",
           row.status = "delivered" => h \in ok2 /\ row.attempts < MaxAttempts,
           rows[h].status # "none",
           Sound(ok, r, rows)
    PROVE  Sound(ok2, r, [rows EXCEPT ![h] = row])
<1> DEFINE rows2 == [rows EXCEPT ![h] = row]
<1>1. rows2[h] = row /\ \A k \in Handlers : k # h => rows2[k] = rows[k]
  OBVIOUS
<1>2. HasRows(rows)
  BY DEF HasRows
<1> HIDE DEF rows2
<1>3. Uniform => \A k \in Handlers : rows2[k].status # "none"
  BY <1>1, <1>2 DEF Sound
<1>4. \A k \in Handlers : rows2[k].status = "delivered" => k \in ok2 /\ rows2[k].attempts < MaxAttempts
  BY <1>1 DEF Sound
<1>5. Sound(ok2, r, rows2)
  BY <1>3, <1>4 DEF Sound
<1>6. QED
  BY <1>5 DEF rows2

\* A step that leaves an event and the calls for it alone.
LEMMA TrackedFrame ==
    ASSUME TypeOK, NEW e \in Events, Tracked(e),
           ev'[e] = ev[e], dl'[e] = dl[e], lock'[e] = lock[e], tev'[e] = tev[e], tdl'[e] = tdl[e],
           calls'[e] = calls[e], tried'[e] = tried[e], lost'[e] = lost[e], oks'[e] = oks[e],
           \A h \in Handlers : InCall(e, h) => InCall(e, h)'
    PROVE  Tracked(e)'
<1>1. Kept(e) => Kept(e)'
  BY DEF Kept
<1>2. Counted(e)'
  <2>1. ASSUME NEW h \in Handlers, lock[e] # None
        PROVE  calls[e][h] <= lost[e][h] + Booked(tdl[e][h]) + (IF InCall(e, h)' THEN 1 ELSE 0)
    <3>1. calls[e][h] \in Nat /\ lost[e][h] \in Nat /\ tdl[e][h] \in Delivery
      BY DEF TypeOK
    <3>2. Booked(tdl[e][h]) \in Nat
      BY <3>1, BookedType
    <3>3. calls[e][h] <= lost[e][h] + Booked(tdl[e][h]) + (IF InCall(e, h) THEN 1 ELSE 0)
      BY <2>1 DEF Tracked, Counted
    <3>4. InCall(e, h) => InCall(e, h)'
      OBVIOUS
    <3>5. QED
      BY <3>1, <3>2, <3>3, <3>4
  <2>2. QED
    BY <2>1 DEF Tracked, Counted
<1>3. QED
  BY <1>1, <1>2 DEF Tracked

\* The outcome of a call is written to its delivery row.
LEMMA RecordTracked ==
    ASSUME TypeOK, TypeOK', \A q \in Procs : Owned(q), \A e \in Events : Tracked(e),
           NEW p \in Procs, NEW row \in Delivery, Record(p, row),
           row.status # "none",
           Booked(tdl[cur[p]][sub[p]]) < Booked(row),
           row.status = "delivered" => sub[p] \in oks'[cur[p]] /\ row.attempts < MaxAttempts,
           oks[cur[p]] \subseteq oks'[cur[p]],
           \A e \in Events : e # cur[p] => oks'[e] = oks[e]
    PROVE  \A e \in Events : Tracked(e)'
<1>c. PICK c \in Events : c = cur[p]
  BY DEF Record, TypeOK
<1>h. PICK h0 \in Handlers : h0 = sub[p]
  BY DEF Record, TypeOK
<1>1. /\ stage[p] = "call"
      /\ lock[c] = p /\ tdl[c][h0].status = "pending" /\ tev[c].status \in {"pending", "failed"}
  BY <1>c, <1>h DEF Record, TypeOK, Owned
<1>2. /\ ev' = ev /\ dl' = dl /\ lock' = lock /\ tev' = tev /\ calls' = calls /\ tried' = tried
      /\ lost' = lost /\ cur' = cur
  BY DEF Record, tables
<1>3. /\ tdl'[c] = [tdl[c] EXCEPT ![h0] = row]
      /\ \A e \in Events : e # c => tdl'[e] = tdl[e]
  <2>1. tdl' = [tdl EXCEPT ![c][h0] = row]
    BY <1>c, <1>h DEF Record
  <2>2. QED
    BY <2>1 DEF TypeOK
<1>4. tdl'[c][h0] = row /\ \A k \in Handlers : k # h0 => tdl'[c][k] = tdl[c][k]
  BY <1>1, <1>3 DEF TypeOK
<1>5. ASSUME NEW e \in Events, e # c PROVE Tracked(e)'
  <2>1. \A h \in Handlers : InCall(e, h) => InCall(e, h)'
    <3>1. ASSUME NEW h \in Handlers, InCall(e, h) PROVE InCall(e, h)'
      <4>1. lock[e] # p /\ lock[e] \in Procs
        BY <1>c, <1>5, <3>1 DEF InCall, TypeOK
      <4>2. stage'[lock[e]] = stage[lock[e]] /\ sub'[lock[e]] = sub[lock[e]]
        BY <4>1 DEF Record, TypeOK
      <4>3. QED
        BY <1>2, <3>1, <4>2 DEF InCall
    <3>2. QED
      BY <3>1
  <2>2. QED
    BY <1>c, <1>2, <1>3, <1>5, <2>1, TrackedFrame
<1>6. Tracked(c)'
  <2>1. Tracked(c)
    BY <1>1
  <2>2. Kept(c)'
    <3>1. dl[c][h0].status \notin {"delivered", "failed"}
      BY <1>1, <2>1 DEF Tracked, Kept
    <3>2. QED
      BY <1>1, <1>2, <1>4, <2>1, <3>1 DEF Tracked, Kept
  <2>3. Counted(c)'
    <3>1. ASSUME NEW h \in Handlers
          PROVE  calls[c][h] <= lost[c][h] + Booked(tdl'[c][h]) + (IF InCall(c, h)' THEN 1 ELSE 0)
      <4>1. calls[c][h] \in Nat /\ lost[c][h] \in Nat /\ tdl[c][h] \in Delivery
        BY <1>1 DEF TypeOK
      <4>2. Booked(tdl[c][h]) \in Nat /\ Booked(row) \in Nat
        BY <4>1, BookedType
      <4>3. calls[c][h] <= lost[c][h] + Booked(tdl[c][h]) + (IF InCall(c, h) THEN 1 ELSE 0)
        BY <1>1, <2>1 DEF Tracked, Counted
      <4>4. CASE h = h0
        BY <1>c, <1>h, <1>4, <4>1, <4>2, <4>3, <4>4
      <4>5. CASE h # h0
        <5>1. ~InCall(c, h)
          BY <1>h, <1>1, <4>5 DEF InCall
        <5>2. QED
          BY <1>4, <4>1, <4>2, <4>3, <4>5, <5>1
      <4>6. QED
        BY <4>4, <4>5
    <3>2. \A h \in Handlers :
            calls[c][h] <= lost[c][h] +
             (IF ev[c].status = "deleted" THEN MaxAttempts
              ELSE Booked(dl[c][h]) + (IF h \in tried[c] THEN 1 ELSE 0))
      BY <2>1 DEF Tracked, Counted
    <3>3. QED
      BY <1>2, <3>1, <3>2 DEF Counted
  <2>4. oks'[c] \in SUBSET Handlers
    BY <1>1 DEF TypeOK
  <2>5. Sound(oks'[c], ev[c], dl[c])
    BY <1>c, <2>1, <2>4, SoundSame DEF Tracked
  <2>6. Sound(oks'[c], tev[c], tdl'[c])
    <3>1. tdl[c] \in [Handlers -> Delivery] /\ tdl[c][h0].status # "none"
      BY <1>1 DEF TypeOK
    <3>2. Sound(oks[c], tev[c], tdl[c])
      BY <2>1 DEF Tracked
    <3>3. Sound(oks'[c], tev[c], [tdl[c] EXCEPT ![h0] = row])
      BY <1>c, <1>h, <1>1, <2>4, <3>1, <3>2, SoundWrite
    <3>4. QED
      BY <1>3, <3>3
  <2>7. QED
    BY <1>1, <1>2, <2>1, <2>2, <2>3, <2>5, <2>6 DEF Tracked
<1>7. QED
  BY <1>5, <1>6

\* The end of a transaction, for the events it had not locked.
LEMMA ReleaseTracked ==
    ASSUME TypeOK, NEW p \in Procs, NEW s \in {"idle", "down"}, Release(p, s),
           NEW e \in Events, lock[e] # p, Tracked(e),
           ev'[e] = ev[e], dl'[e] = dl[e], calls'[e] = calls[e], lost'[e] = lost[e], oks'[e] = oks[e]
    PROVE  Tracked(e)'
<1>1. lock'[e] = lock[e] /\ tev'[e] = tev[e] /\ tdl'[e] = tdl[e] /\ tried'[e] = tried[e]
  BY DEF Release
<1>2. ASSUME NEW h \in Handlers, InCall(e, h) PROVE InCall(e, h)'
  <2>1. lock[e] # p /\ lock[e] \in Procs
    BY <1>2 DEF InCall, TypeOK
  <2>2. /\ stage'[lock[e]] = stage[lock[e]] /\ cur'[lock[e]] = cur[lock[e]]
        /\ sub'[lock[e]] = sub[lock[e]]
    BY <2>1 DEF Release, TypeOK
  <2>3. QED
    BY <1>1, <1>2, <2>2 DEF InCall
<1>3. QED
  BY <1>1, <1>2, TrackedFrame

\* The rows of an event that is not locked any more, if nothing is deleted.
LEMMA UnlockedTracked ==
    ASSUME TypeOK', NEW e \in Events, lock'[e] = None, tried'[e] = {},
           ev'[e].status # "deleted",
           \A h \in Handlers : calls'[e][h] <= lost'[e][h] + Booked(dl'[e][h]),
           Sound(oks'[e], ev'[e], dl'[e]), Sound(oks'[e], tev'[e], tdl'[e])
    PROVE  Tracked(e)'
<1>1. \A h \in Handlers : Booked(dl'[e][h]) \in Nat
  BY BookedType DEF TypeOK
<1>2. Counted(e)'
  BY <1>1 DEF Counted, TypeOK
<1>3. QED
  BY <1>2 DEF Tracked

LEMMA SoundNone ==
    ASSUME NEW ok
    PROVE  Sound(ok, NoEvent, NoDeliveries)
BY DEF Sound, NoEvent, NoDeliveries, NoDelivery, HasRows

LEMMA CommitTracked ==
    ASSUME TypeOK, TypeOK', \A q \in Procs : Owned(q), \A e \in Events : Tracked(e),
           NEW p \in Procs, Commit(p)
    PROVE  \A e \in Events : Tracked(e)'
<1>1. ASSUME NEW e \in Events, lock[e] # p PROVE Tracked(e)'
  <2>1. ev'[e] = ev[e] /\ dl'[e] = dl[e] /\ calls' = calls /\ lost' = lost /\ oks' = oks
        /\ Release(p, "idle")
    BY <1>1 DEF Commit
  <2>2. QED
    BY <1>1, <2>1, ReleaseTracked
<1>2. ASSUME NEW e \in Events, lock[e] = p PROVE Tracked(e)'
  <2>1. /\ lock'[e] = None /\ tried'[e] = {} /\ tev'[e] = NoEvent /\ tdl'[e] = NoDeliveries
        /\ calls' = calls /\ lost' = lost /\ oks' = oks
    BY <1>2 DEF Commit, Release
  <2>2. ev'[e] = AgedEvent(tev[e], age[p]) /\ dl'[e] = AgedDeliveries(tdl[e], age[p])
    BY <1>2 DEF Commit
  <2>3. tev[e] \in Event /\ tdl[e] \in [Handlers -> Delivery] /\ age[p] \in Nat /\ p # None
    BY DEF TypeOK
  <2>4. ev'[e].status = tev[e].status
    BY <2>2, <2>3, AgedEventType
  <2>5. \A h \in Handlers : /\ dl'[e][h].status = tdl[e][h].status
                            /\ dl'[e][h].attempts = tdl[e][h].attempts
    BY <2>2, <2>3, AgedDeliveriesType
  <2>6. Tracked(e) /\ oks[e] \in SUBSET Handlers
    BY DEF TypeOK
  <2>7. Sound(oks[e], tev[e], tdl[e]) /\ tev[e].status # "deleted"
    BY <1>2, <2>3, <2>6 DEF Tracked
  <2>8. Sound(oks[e], ev'[e], dl'[e])
    BY <2>4, <2>5, <2>6, <2>7, SoundSame
  <2>9. ASSUME NEW h \in Handlers PROVE calls[e][h] <= lost[e][h] + Booked(dl'[e][h])
    <3>1. ~InCall(e, h)
      BY <1>2 DEF InCall, Commit
    <3>2. calls[e][h] <= lost[e][h] + Booked(tdl[e][h]) + (IF InCall(e, h) THEN 1 ELSE 0)
      BY <1>2, <2>3, <2>6 DEF Tracked, Counted
    <3>3. Booked(dl'[e][h]) = Booked(tdl[e][h])
      BY <2>5 DEF Booked
    <3>4. calls[e][h] \in Nat /\ lost[e][h] \in Nat /\ Booked(tdl[e][h]) \in Nat
      BY <2>3, BookedType DEF TypeOK
    <3>5. QED
      BY <3>1, <3>2, <3>3, <3>4
  <2>10. QED
    BY <2>1, <2>4, <2>7, <2>8, <2>9, SoundNone, UnlockedTracked
<1>3. QED
  BY <1>1, <1>2

LEMMA RollbackTracked ==
    ASSUME TypeOK, TypeOK', \A e \in Events : Tracked(e),
           NEW p \in Procs, NEW s \in {"idle", "down"}, Rollback(p, s)
    PROVE  \A e \in Events : Tracked(e)'
<1>1. Release(p, s) /\ ev' = ev /\ dl' = dl /\ calls' = calls /\ oks' = oks
  BY DEF Rollback, tables
<1>2. ASSUME NEW e \in Events, lock[e] # p PROVE Tracked(e)'
  <2>1. lost'[e] = lost[e]
    BY <1>2 DEF Rollback, TypeOK
  <2>2. QED
    BY <1>1, <1>2, <2>1, ReleaseTracked
<1>3. ASSUME NEW e \in Events, lock[e] = p PROVE Tracked(e)'
  <2>1. lock'[e] = None /\ tried'[e] = {} /\ tev'[e] = NoEvent /\ tdl'[e] = NoDeliveries
    BY <1>1, <1>3 DEF Release
  <2>2. Tracked(e) /\ lock[e] # None
    BY <1>3
  <2>3. ev[e].status # "deleted" /\ Sound(oks[e], ev[e], dl[e])
    BY <2>2 DEF Tracked
  <2>4. ASSUME NEW h \in Handlers PROVE calls[e][h] <= lost'[e][h] + Booked(dl[e][h])
    <3>1. calls[e][h] <= lost[e][h] + (Booked(dl[e][h]) + (IF h \in tried[e] THEN 1 ELSE 0))
      BY <2>2, <2>3 DEF Tracked, Counted
    <3>2. lost'[e][h] = IF h \in tried[e] THEN lost[e][h] + 1 ELSE lost[e][h]
      BY <1>3 DEF Rollback
    <3>3. calls[e][h] \in Nat /\ lost[e][h] \in Nat /\ Booked(dl[e][h]) \in Nat
      BY BookedType DEF TypeOK
    <3>4. QED
      BY <3>1, <3>2, <3>3
  <2>5. QED
    BY <1>1, <2>1, <2>3, <2>4, SoundNone, UnlockedTracked
<1>4. QED
  BY <1>2, <1>3

LEMMA DeleteTracked ==
    ASSUME TypeOK, TypeOK', \A e \in Events : Tracked(e), DeleteDelivered
    PROVE  \A e \in Events : Tracked(e)'
<1>1. view' = view /\ dispatcher' = dispatcher /\ history' = history
  BY DEF DeleteDelivered
<1>2. /\ lock' = lock /\ tev' = tev /\ tdl' = tdl /\ stage' = stage /\ cur' = cur /\ sub' = sub
      /\ calls' = calls /\ tried' = tried /\ lost' = lost /\ oks' = oks
  BY <1>1 DEF view, dispatcher, history
<1>3. ASSUME NEW e \in Events, e \notin Expired PROVE Tracked(e)'
  <2>1. ev'[e] = ev[e] /\ dl'[e] = dl[e]
    BY <1>3 DEF DeleteDelivered
  <2>2. \A h \in Handlers : InCall(e, h) => InCall(e, h)'
    BY <1>2 DEF InCall
  <2>3. QED
    BY <1>2, <2>1, <2>2, TrackedFrame
<1>4. ASSUME NEW e \in Events, e \in Expired PROVE Tracked(e)'
  <2>1. ev'[e].status = "deleted" /\ dl'[e] = NoDeliveries
    BY <1>4 DEF DeleteDelivered, NoEvent
  <2>2. ev[e].status = "delivered" /\ Tracked(e)
    BY <1>4 DEF Expired
  <2>3. lock[e] = None /\ tried[e] = {} /\ Sound(oks[e], ev[e], dl[e]) /\ Sound(oks[e], tev[e], tdl[e])
    BY <2>2 DEF Tracked
  <2>4. ASSUME NEW h \in Handlers PROVE calls[e][h] <= lost[e][h] + MaxAttempts
    <3>1. calls[e][h] <= lost[e][h] + (Booked(dl[e][h]) + (IF h \in tried[e] THEN 1 ELSE 0))
      BY <2>2 DEF Tracked, Counted
    <3>2. dl[e][h] \in Delivery /\ calls[e][h] \in Nat /\ lost[e][h] \in Nat
      BY DEF TypeOK
    <3>3. Booked(dl[e][h]) \in Nat /\ Booked(dl[e][h]) <= MaxAttempts
      BY <2>3, <3>2, BookedType DEF Sound
    <3>4. QED
      BY <2>3, <3>1, <3>2, <3>3
  <2>5. Counted(e)'
    BY <1>2, <2>1, <2>3, <2>4 DEF Counted
  <2>6. Uniform => oks[e] = Handlers
    <3>1. ASSUME Uniform, NEW h \in Handlers PROVE h \in oks[e]
      <4>1. dl[e][h].status \notin {"none", "pending", "failed"}
        BY <2>2, <2>3, <3>1 DEF Sound, Pending, Failed
      <4>2. dl[e][h].status \in DeliveryStatus
        BY DEF TypeOK, Delivery
      <4>3. QED
        BY <2>3, <4>1, <4>2 DEF Sound, DeliveryStatus
    <3>2. oks[e] \subseteq Handlers
      BY DEF TypeOK
    <3>3. QED
      BY <3>1, <3>2
  <2>7. Sound(oks[e], ev'[e], dl'[e])
    BY <2>1, <2>6 DEF Sound, NoDeliveries, NoDelivery, HasRows
  <2>8. QED
    BY <1>2, <2>3, <2>5, <2>7 DEF Tracked
<1>5. QED
  BY <1>3, <1>4

LEMMA TickTracked ==
    ASSUME TypeOK, \A e \in Events : Tracked(e), Tick
    PROVE  \A e \in Events : Tracked(e)'
<1>1. /\ lock' = lock /\ tev' = tev /\ tdl' = tdl /\ stage' = stage /\ cur' = cur /\ sub' = sub
      /\ calls' = calls /\ tried' = tried /\ lost' = lost /\ oks' = oks
  BY DEF Tick, view, history
<1>2. ASSUME NEW e \in Events PROVE Tracked(e)'
  <2>1. ev[e] \in Event /\ dl[e] \in [Handlers -> Delivery] /\ oks[e] \in SUBSET Handlers /\ Tracked(e)
    BY DEF TypeOK
  <2>2. ev'[e].status = ev[e].status
    BY <2>1, AgedEventType DEF Tick
  <2>3. \A h \in Handlers : dl'[e][h].status = dl[e][h].status /\ dl'[e][h].attempts = dl[e][h].attempts
    BY <2>1, AgedDeliveriesType DEF Tick
  <2>4. Sound(oks[e], ev'[e], dl'[e])
    BY <2>1, <2>2, <2>3, SoundSame DEF Tracked
  <2>5. \A h \in Handlers : Booked(dl'[e][h]) = Booked(dl[e][h]) /\ InCall(e, h)' = InCall(e, h)
    BY <1>1, <2>3 DEF Booked, InCall
  <2>6. Counted(e)'
    BY <1>1, <2>1, <2>2, <2>5 DEF Tracked, Counted
  <2>7. lock[e] # None => Kept(e)'
    BY <1>1, <2>1, <2>3 DEF Tracked, Kept
  <2>8. QED
    BY <1>1, <2>1, <2>2, <2>4, <2>6, <2>7 DEF Tracked
<1>3. QED
  BY <1>2
\* Calls in progress, seen from a step of a dispatcher that is in no call.
LEMMA CallFrame ==
    ASSUME TypeOK, NEW p \in Procs, stage[p] # "call",
           \A q \in Procs : q # p => stage'[q] = stage[q] /\ cur'[q] = cur[q] /\ sub'[q] = sub[q],
           NEW e \in Events, lock'[e] = lock[e]
    PROVE  \A h \in Handlers : InCall(e, h) => InCall(e, h)'
<1>1. ASSUME NEW h \in Handlers, InCall(e, h) PROVE InCall(e, h)'
  <2>1. lock[e] # p /\ lock[e] \in Procs
    BY <1>1 DEF InCall, TypeOK
  <2>2. QED
    BY <1>1, <2>1 DEF InCall
<1>2. QED
  BY <1>1

\* A transaction works on an event it has locked.
LEMMA WorkTracked ==
    ASSUME NEW e \in Events, Tracked(e), lock[e] # None,
           ev'[e] = ev[e], dl'[e] = dl[e], lock'[e] = lock[e], oks'[e] = oks[e],
           calls'[e] = calls[e], tried'[e] = tried[e], lost'[e] = lost[e],
           tev'[e].status \in {"pending", "failed", "delivered"},
           Kept(e)',
           \A h \in Handlers :
              calls[e][h] <= lost[e][h] + Booked(tdl'[e][h]) + (IF InCall(e, h)' THEN 1 ELSE 0),
           Sound(oks[e], tev'[e], tdl'[e])
    PROVE  Tracked(e)'
<1>1. Counted(e)'
  BY DEF Tracked, Counted
<1>2. QED
  BY <1>1 DEF Tracked

LEMMA PublishTracked ==
    ASSUME TypeOK, \A e \in Events : Tracked(e), NEW e0 \in Events, Publish(e0)
    PROVE  \A e \in Events : Tracked(e)'
<1>1. /\ dl' = dl /\ lock' = lock /\ tev' = tev /\ tdl' = tdl /\ stage' = stage /\ cur' = cur
      /\ sub' = sub /\ calls' = calls /\ tried' = tried /\ lost' = lost /\ oks' = oks
  BY DEF Publish, view, dispatcher, history
<1>2. \A e \in Events, h \in Handlers : InCall(e, h)' = InCall(e, h)
  BY <1>1 DEF InCall
<1>3. ASSUME NEW e \in Events, e # e0 PROVE Tracked(e)'
  <2>1. ev'[e] = ev[e]
    BY <1>3 DEF Publish, TypeOK
  <2>2. QED
    BY <1>1, <1>2, <2>1, TrackedFrame
<1>4. Tracked(e0)'
  <2>1. ev[e0].status = "absent" /\ ev'[e0].status = "pending" /\ Tracked(e0)
    BY DEF Publish, TypeOK
  <2>2. lock[e0] = None
    BY <2>1 DEF Tracked
  <2>3. Sound(oks[e0], ev'[e0], dl[e0])
    BY <2>1 DEF Tracked, Sound
  <2>4. Counted(e0)'
    BY <1>1, <2>1, <2>2 DEF Tracked, Counted
  <2>5. QED
    BY <1>1, <2>1, <2>2, <2>3, <2>4 DEF Tracked
<1>5. QED
  BY <1>3, <1>4

LEMMA FetchTracked ==
    ASSUME TypeOK, \A q \in Procs : Owned(q), \A e \in Events : Tracked(e),
           NEW p \in Procs, FetchBatch(p)
    PROVE  \A e \in Events : Tracked(e)'
<1>1. PICK S \in SUBSET {e \in Events : Fetchable(e)} :
        /\ lock' = [e \in Events |-> IF e \in S THEN p ELSE lock[e]]
        /\ tev' = [e \in Events |-> IF e \in S THEN ev[e] ELSE tev[e]]
        /\ tdl' = [e \in Events |-> IF e \in S THEN dl[e] ELSE tdl[e]]
        /\ todo' = [todo EXCEPT ![p] = S]
  BY DEF FetchBatch
<1>2. /\ stage[p] = "idle" /\ ev' = ev /\ dl' = dl /\ cur' = cur /\ sub' = sub
      /\ calls' = calls /\ tried' = tried /\ lost' = lost /\ oks' = oks
  BY DEF FetchBatch, tables, history
<1>3. \A q \in Procs : q # p => stage'[q] = stage[q] /\ cur'[q] = cur[q] /\ sub'[q] = sub[q]
  BY <1>2 DEF FetchBatch, TypeOK
<1>4. ASSUME NEW e \in Events, e \notin S PROVE Tracked(e)'
  <2>1. lock'[e] = lock[e] /\ tev'[e] = tev[e] /\ tdl'[e] = tdl[e]
    BY <1>1, <1>4
  <2>2. \A h \in Handlers : InCall(e, h) => InCall(e, h)'
    BY <1>2, <1>3, <2>1, CallFrame
  <2>3. QED
    BY <1>2, <2>1, <2>2, TrackedFrame
<1>5. ASSUME NEW e \in Events, e \in S PROVE Tracked(e)'
  <2>1. lock'[e] = p /\ tev'[e] = ev[e] /\ tdl'[e] = dl[e]
    BY <1>1, <1>5
  <2>2. Fetchable(e) /\ Tracked(e) /\ lock[e] = None
    BY <1>5 DEF Fetchable
  <2>3. ev[e].status \in {"pending", "failed"} /\ tried[e] = {} /\ Sound(oks[e], ev[e], dl[e])
    <3>1. ev[e] \in Event
      BY DEF TypeOK
    <3>2. ev[e].status # "delivered"
      BY <2>2 DEF Fetchable, Tracked, Sound, DueDeliveries
    <3>3. QED
      BY <2>2, <3>1, <3>2 DEF Fetchable, Tracked, Event, EventStatus
  <2>4. Kept(e)'
    BY <1>2, <2>1, <2>3 DEF Kept
  <2>5. ASSUME NEW h \in Handlers
        PROVE  calls[e][h] <= lost[e][h] + Booked(dl[e][h]) + (IF InCall(e, h)' THEN 1 ELSE 0)
    <3>1. calls[e][h] <= lost[e][h] + (Booked(dl[e][h]) + (IF h \in tried[e] THEN 1 ELSE 0))
      BY <2>2, <2>3 DEF Tracked, Counted
    <3>2. dl[e][h] \in Delivery /\ calls[e][h] \in Nat /\ lost[e][h] \in Nat
      BY DEF TypeOK
    <3>3. Booked(dl[e][h]) \in Nat
      BY <3>2, BookedType
    <3>4. QED
      BY <2>3, <3>1, <3>2, <3>3
  <2>6. Counted(e)'
    BY <1>2, <2>1, <2>2, <2>5 DEF Tracked, Counted
  <2>7. QED
    BY <1>2, <2>1, <2>3, <2>4, <2>6 DEF Tracked
<1>6. QED
  BY <1>4, <1>5

LEMMA NoSubscriberTracked ==
    ASSUME TypeOK, \A q \in Procs : Owned(q), \A e \in Events : Tracked(e),
           NEW p \in Procs, NEW e0 \in Events, NoSubscriber(p, e0)
    PROVE  \A e \in Events : Tracked(e)'
<1>1. /\ stage[p] = "batch" /\ ev' = ev /\ dl' = dl /\ lock' = lock /\ tdl' = tdl
      /\ stage' = stage /\ cur' = cur /\ sub' = sub
      /\ calls' = calls /\ tried' = tried /\ lost' = lost /\ oks' = oks
  BY DEF NoSubscriber, tables, history
<1>2. lock[e0] = p
  BY DEF NoSubscriber, Owned
<1>3. tev'[e0].status = "failed" /\ \A e \in Events : e # e0 => tev'[e] = tev[e]
  <2>1. tev[e0] \in Event
    BY DEF TypeOK
  <2>2. tev'[e0] = [tev[e0] EXCEPT !.status = "failed", !.next = Never]
    BY DEF NoSubscriber, TypeOK
  <2>3. QED
    BY <2>1, <2>2 DEF NoSubscriber, TypeOK, Event
<1>4. \A e \in Events, h \in Handlers : InCall(e, h)' = InCall(e, h)
  BY <1>1 DEF InCall
<1>5. ASSUME NEW e \in Events, e # e0 PROVE Tracked(e)'
  BY <1>1, <1>3, <1>4, <1>5, TrackedFrame
<1>6. Tracked(e0)'
  <2>1. Tracked(e0) /\ lock[e0] # None
    BY <1>2
  <2>2. Kept(e0)'
    BY <1>1, <2>1 DEF Tracked, Kept
  <2>3. Sound(oks[e0], tev'[e0], tdl[e0])
    BY <1>3, <2>1 DEF Tracked, Sound
  <2>4. \A h \in Handlers :
          calls[e0][h] <= lost[e0][h] + Booked(tdl[e0][h]) + (IF InCall(e0, h)' THEN 1 ELSE 0)
    BY <1>4, <2>1 DEF Tracked, Counted
  <2>5. QED
    BY <1>1, <1>3, <2>1, <2>2, <2>3, <2>4, WorkTracked
<1>7. QED
  BY <1>5, <1>6

LEMMA StartEventTracked ==
    ASSUME TypeOK, \A q \in Procs : Owned(q), \A e \in Events : Tracked(e),
           NEW p \in Procs, NEW e0 \in Events, StartEvent(p, e0)
    PROVE  \A e \in Events : Tracked(e)'
<1>1. /\ stage[p] = "batch" /\ ev' = ev /\ dl' = dl /\ lock' = lock /\ tev' = tev
      /\ calls' = calls /\ tried' = tried /\ lost' = lost /\ oks' = oks
  BY DEF StartEvent, tables, history
<1>2. lock[e0] = p /\ tev[e0].status \in {"pending", "failed"}
  BY DEF StartEvent, Owned
<1>3. \A q \in Procs : q # p => stage'[q] = stage[q] /\ cur'[q] = cur[q] /\ sub'[q] = sub[q]
  BY DEF StartEvent, TypeOK
<1>4. PICK rows \in [Handlers -> Delivery] : rows = tdl[e0]
  BY DEF TypeOK
<1>5. PICK rows2 : rows2 = EnsureDeliveries(p, rows)
  OBVIOUS
<1>6. tdl'[e0] = rows2 /\ \A e \in Events : e # e0 => tdl'[e] = tdl[e]
  BY <1>4, <1>5 DEF StartEvent, TypeOK
<1>7. /\ \A h \in Handlers : rows[h].status # "none" => rows2[h] = rows[h]
      /\ \A h \in Handlers : rows[h].status = "none" => rows2[h] \in {rows[h], NewDelivery}
      /\ \A h \in Subs[p] : rows2[h].status # "none"
  BY <1>5, EnsureRows
<1>8. ASSUME NEW e \in Events, e # e0 PROVE Tracked(e)'
  <2>1. \A h \in Handlers : InCall(e, h) => InCall(e, h)'
    BY <1>1, <1>3, CallFrame
  <2>2. QED
    BY <1>1, <1>6, <1>8, <2>1, TrackedFrame
<1>9. Tracked(e0)'
  <2>1. Tracked(e0) /\ lock[e0] # None
    BY <1>2
  <2>2. Kept(e0)'
    BY <1>1, <1>4, <1>6, <1>7, <2>1 DEF Tracked, Kept
  <2>3. Sound(oks[e0], tev[e0], rows2)
    <3>1. Sound(oks[e0], tev[e0], rows)
      BY <1>4, <2>1 DEF Tracked
    <3>2. Uniform => \A h \in Handlers : rows2[h].status # "none"
      BY <1>7 DEF Uniform
    <3>3. \A h \in Handlers : rows2[h].status = "delivered" =>
             h \in oks[e0] /\ rows2[h].attempts < MaxAttempts
      BY <1>7, <3>1 DEF Sound, NewDelivery
    <3>4. QED
      BY <1>2, <3>2, <3>3 DEF Sound
  <2>4. ASSUME NEW h \in Handlers
        PROVE  calls[e0][h] <= lost[e0][h] + Booked(rows2[h]) + (IF InCall(e0, h)' THEN 1 ELSE 0)
    <3>1. calls[e0][h] <= lost[e0][h] + Booked(rows[h]) + (IF InCall(e0, h) THEN 1 ELSE 0)
      BY <1>4, <2>1 DEF Tracked, Counted
    <3>2. ~InCall(e0, h)
      BY <1>1, <1>2 DEF InCall
    <3>3. calls[e0][h] \in Nat /\ lost[e0][h] \in Nat
      BY DEF TypeOK
    <3>4. Booked(rows[h]) \in Nat
      BY <1>4, BookedType
    <3>5. Booked(rows2[h]) = Booked(rows[h])
      BY <1>7, BookedRows DEF Booked
    <3>6. QED
      BY <3>1, <3>2, <3>3, <3>4, <3>5
  <2>5. QED
    BY <1>1, <1>2, <1>6, <2>1, <2>2, <2>3, <2>4, WorkTracked
<1>10. QED
  BY <1>8, <1>9

LEMMA UnregisteredTracked ==
    ASSUME TypeOK, \A q \in Procs : Owned(q), \A e \in Events : Tracked(e),
           NEW p \in Procs, NEW h0 \in Handlers, Unregistered(p, h0)
    PROVE  \A e \in Events : Tracked(e)'
<1>c. PICK c \in Events : c = cur[p]
  BY DEF Unregistered, TypeOK
<1>1. /\ stage[p] = "event" /\ ev' = ev /\ dl' = dl /\ lock' = lock /\ tev' = tev
      /\ stage' = stage /\ cur' = cur /\ sub' = sub
      /\ calls' = calls /\ tried' = tried /\ lost' = lost /\ oks' = oks
  BY DEF Unregistered, tables, history
<1>2. lock[c] = p /\ tdl[c][h0].status = "pending" /\ tev[c].status \in {"pending", "failed"}
  BY <1>c, <1>1 DEF Unregistered, Owned
<1>3. /\ tdl'[c] = [tdl[c] EXCEPT ![h0] = Terminal]
      /\ \A e \in Events : e # c => tdl'[e] = tdl[e]
  BY <1>c DEF Unregistered, TypeOK
<1>4. tdl'[c][h0] = Terminal /\ \A k \in Handlers : k # h0 => tdl'[c][k] = tdl[c][k]
  BY <1>3 DEF TypeOK
<1>5. \A e \in Events, h \in Handlers : InCall(e, h)' = InCall(e, h)
  BY <1>1 DEF InCall
<1>6. ASSUME NEW e \in Events, e # c PROVE Tracked(e)'
  BY <1>1, <1>3, <1>5, <1>6, TrackedFrame
<1>7. Tracked(c)'
  <2>1. Tracked(c) /\ lock[c] # None
    BY <1>2
  <2>2. Kept(c)'
    <3>1. dl[c][h0].status \notin {"delivered", "failed"}
      BY <1>2, <2>1 DEF Tracked, Kept
    <3>2. QED
      BY <1>1, <1>4, <2>1, <3>1 DEF Tracked, Kept
  <2>3. Sound(oks[c], tev[c], tdl'[c])
    <3>1. Sound(oks[c], tev[c], tdl[c]) /\ tdl[c] \in [Handlers -> Delivery]
          /\ oks[c] \in SUBSET Handlers
      BY <2>1 DEF Tracked, TypeOK
    <3>2. Terminal.status = "failed"
      BY DEF Terminal
    <3>3. Sound(oks[c], tev[c], [tdl[c] EXCEPT ![h0] = Terminal])
      BY <1>2, <3>1, <3>2, SoundWrite
    <3>4. QED
      BY <1>3, <3>3
  <2>4. ASSUME NEW h \in Handlers
        PROVE  calls[c][h] <= lost[c][h] + Booked(tdl'[c][h]) + (IF InCall(c, h)' THEN 1 ELSE 0)
    <3>1. calls[c][h] <= lost[c][h] + Booked(tdl[c][h]) + (IF InCall(c, h) THEN 1 ELSE 0)
      BY <2>1 DEF Tracked, Counted
    <3>2. calls[c][h] \in Nat /\ lost[c][h] \in Nat /\ tdl[c][h] \in Delivery
      BY DEF TypeOK
    <3>3. Booked(tdl[c][h]) \in Nat /\ (h = h0 => Booked(tdl[c][h]) < MaxAttempts)
      BY <1>2, <3>2, BookedType
    <3>4. Booked(tdl'[c][h]) = IF h = h0 THEN MaxAttempts ELSE Booked(tdl[c][h])
      BY <1>4, BookedRows
    <3>5. ~InCall(c, h)
      BY <1>1, <1>2 DEF InCall
    <3>6. QED
      BY <1>5, <3>1, <3>2, <3>3, <3>4, <3>5
  <2>5. QED
    BY <1>1, <1>2, <2>1, <2>2, <2>3, <2>4, WorkTracked
<1>8. QED
  BY <1>6, <1>7

LEMMA CallTracked ==
    ASSUME TypeOK, \A q \in Procs : Owned(q), \A e \in Events : Tracked(e),
           NEW p \in Procs, NEW h0 \in Handlers, CallHandler(p, h0)
    PROVE  \A e \in Events : Tracked(e)'
<1>c. PICK c \in Events : c = cur[p]
  BY DEF CallHandler, TypeOK
<1>1. /\ stage[p] = "event" /\ ev' = ev /\ dl' = dl /\ lock' = lock /\ tev' = tev /\ tdl' = tdl
      /\ cur' = cur /\ lost' = lost /\ oks' = oks
  BY DEF CallHandler, tables, view
<1>2. /\ lock[c] = p /\ tdl[c][h0].status = "pending" /\ h0 \notin tried[c]
  BY <1>c, <1>1 DEF CallHandler, Owned
<1>3. /\ tried'[c] = tried[c] \cup {h0} /\ calls'[c] = [calls[c] EXCEPT ![h0] = @ + 1]
      /\ \A e \in Events : e # c => tried'[e] = tried[e] /\ calls'[e] = calls[e]
  BY <1>c DEF CallHandler, TypeOK
<1>4. stage'[p] = "call" /\ sub'[p] = h0
  BY DEF CallHandler, TypeOK
<1>5. \A q \in Procs : q # p => stage'[q] = stage[q] /\ cur'[q] = cur[q] /\ sub'[q] = sub[q]
  BY DEF CallHandler, TypeOK
<1>6. ASSUME NEW e \in Events, e # c PROVE Tracked(e)'
  <2>1. \A h \in Handlers : InCall(e, h) => InCall(e, h)'
    BY <1>1, <1>5, CallFrame
  <2>2. QED
    BY <1>1, <1>3, <1>6, <2>1, TrackedFrame
<1>7. Tracked(c)'
  <2>1. Tracked(c) /\ lock[c] # None
    BY <1>2
  <2>2. ev[c].status # "deleted" /\ dl[c][h0].status \notin {"delivered", "failed"}
    BY <1>2, <2>1 DEF Tracked, Kept
  <2>3. Kept(c)'
    BY <1>1, <1>3, <2>1, <2>2 DEF Tracked, Kept
  <2>4. ASSUME NEW h \in Handlers
        PROVE  /\ calls'[c][h] <= lost[c][h] + Booked(dl[c][h]) + (IF h \in tried'[c] THEN 1 ELSE 0)
               /\ calls'[c][h] <= lost[c][h] + Booked(tdl[c][h]) + (IF InCall(c, h)' THEN 1 ELSE 0)
    <3>1. /\ calls[c][h] <= lost[c][h] + (Booked(dl[c][h]) + (IF h \in tried[c] THEN 1 ELSE 0))
          /\ calls[c][h] <= lost[c][h] + Booked(tdl[c][h]) + (IF InCall(c, h) THEN 1 ELSE 0)
      BY <2>1, <2>2 DEF Tracked, Counted
    <3>2. calls[c][h] \in Nat /\ lost[c][h] \in Nat /\ tdl[c][h] \in Delivery /\ dl[c][h] \in Delivery
      BY DEF TypeOK
    <3>3. Booked(tdl[c][h]) \in Nat /\ Booked(dl[c][h]) \in Nat
      BY <3>2, BookedType
    <3>4. ~InCall(c, h) /\ (InCall(c, h)' <=> h = h0)
      BY <1>c, <1>1, <1>2, <1>4 DEF InCall
    <3>5. calls'[c][h] = IF h = h0 THEN calls[c][h] + 1 ELSE calls[c][h]
      BY <1>3 DEF TypeOK
    <3>6. QED
      BY <1>2, <1>3, <3>1, <3>2, <3>3, <3>4, <3>5
  <2>5. Counted(c)'
    <3>1. \A h \in Handlers : Booked(dl[c][h]) \in Nat /\ lost[c][h] \in Nat
      BY BookedType DEF TypeOK
    <3>2. QED
      BY <1>1, <2>2, <2>4, <3>1 DEF Counted
  <2>6. QED
    BY <1>1, <1>2, <2>1, <2>3, <2>5 DEF Tracked
<1>8. QED
  BY <1>6, <1>7

\* Ok, Err and panic all account for the call they end.
LEMMA HandlerTracked ==
    ASSUME TypeOK, TypeOK', \A q \in Procs : Owned(q), \A e \in Events : Tracked(e),
           NEW p \in Procs, HandlerOk(p) \/ HandlerErr(p) \/ HandlerPanics(p)
    PROVE  \A e \in Events : Tracked(e)'
<1>c. PICK c \in Events : c = cur[p]
  BY DEF HandlerOk, HandlerErr, HandlerPanics, Record, TypeOK
<1>h. PICK h0 \in Handlers : h0 = sub[p]
  BY DEF HandlerOk, HandlerErr, HandlerPanics, Record, TypeOK
<1>d. PICK d \in Delivery : d = tdl[c][h0]
  BY DEF TypeOK
<1>1. d.status = "pending" /\ d.attempts < MaxAttempts /\ d.attempts \in Nat
  <2>1. stage[p] = "call"
    BY DEF HandlerOk, HandlerErr, HandlerPanics, Record
  <2>2. QED
    BY <1>c, <1>h, <1>d, <2>1 DEF Owned, Delivery
<1>2. Booked(d) = d.attempts
  BY <1>1 DEF Booked
<1>3. CASE HandlerOk(p)
  <2>1. PICK row \in Delivery : row = [d EXCEPT !.status = "delivered"]
    BY DeliveredType
  <2>2. row.status = "delivered" /\ row.attempts = d.attempts
    BY <2>1 DEF Delivery
  <2>3. Booked(d) < Booked(row)
    BY <1>1, <1>2, <2>2 DEF Booked
  <2>4. Record(p, row) /\ oks' = [oks EXCEPT ![c] = @ \cup {h0}]
    BY <1>c, <1>h, <1>d, <1>3, <2>1 DEF HandlerOk
  <2>5. /\ h0 \in oks'[c] /\ oks[c] \subseteq oks'[c]
        /\ \A e \in Events : e # c => oks'[e] = oks[e]
    BY <2>4 DEF TypeOK
  <2>6. QED
    BY <1>c, <1>h, <1>d, <1>1, <2>2, <2>3, <2>4, <2>5, RecordTracked
<1>4. CASE HandlerErr(p)
  <2>1. PICK row \in Delivery : row = RetryPlan(d)
    BY RetryPlanType
  <2>2. row.status \in {"pending", "failed"}
    BY <2>1 DEF RetryPlan, Terminal
  <2>3. Booked(d) < Booked(row)
    BY <1>1, <1>2, <2>1 DEF Booked, RetryPlan, Terminal
  <2>4. Record(p, row) /\ oks' = oks
    BY <1>c, <1>h, <1>d, <1>4, <2>1 DEF HandlerErr
  <2>5. QED
    BY <1>c, <1>h, <1>d, <2>2, <2>3, <2>4, RecordTracked
<1>5. CASE HandlerPanics(p)
  <2>1. Terminal \in Delivery /\ Terminal.status = "failed"
    BY RowTypes DEF Terminal
  <2>2. Booked(d) < Booked(Terminal)
    BY <1>1, <1>2, BookedRows
  <2>3. Record(p, Terminal) /\ oks' = oks
    BY <1>5 DEF HandlerPanics
  <2>4. QED
    BY <1>c, <1>h, <1>d, <2>1, <2>2, <2>3, RecordTracked
<1>6. QED
  BY <1>3, <1>4, <1>5

LEMMA FinishTracked ==
    ASSUME TypeOK, \A q \in Procs : Owned(q), \A e \in Events : Tracked(e),
           NEW p \in Procs, FinishEvent(p)
    PROVE  \A e \in Events : Tracked(e)'
<1>c. PICK c \in Events : c = cur[p]
  BY DEF FinishEvent, TypeOK
<1>1. /\ stage[p] = "event" /\ ev' = ev /\ dl' = dl /\ lock' = lock /\ tdl' = tdl /\ sub' = sub
      /\ calls' = calls /\ tried' = tried /\ lost' = lost /\ oks' = oks
  BY DEF FinishEvent, tables, history
<1>2. lock[c] = p /\ HasRows(tdl[c])
  BY <1>c, <1>1 DEF Owned
<1>3. tev'[c].status = Aggregate(tdl[c]) /\ \A e \in Events : e # c => tev'[e] = tev[e]
  BY <1>c DEF FinishEvent, TypeOK
<1>4. \A q \in Procs : q # p => stage'[q] = stage[q] /\ cur'[q] = cur[q] /\ sub'[q] = sub[q]
  BY DEF FinishEvent, TypeOK
<1>5. \A e \in Events, h \in Handlers : InCall(e, h) => InCall(e, h)'
  BY <1>1, <1>4, CallFrame
<1>6. ASSUME NEW e \in Events, e # c PROVE Tracked(e)'
  BY <1>1, <1>3, <1>5, <1>6, TrackedFrame
<1>7. Tracked(c)'
  <2>1. Tracked(c) /\ lock[c] # None
    BY <1>2
  <2>2. Kept(c)'
    BY <1>1, <2>1 DEF Tracked, Kept
  <2>3. /\ tev'[c].status \in {"pending", "failed", "delivered"}
        /\ tev'[c].status = "delivered" => Pending(tdl[c]) = {} /\ Failed(tdl[c]) = {}
    BY <1>3 DEF Aggregate
  <2>4. Sound(oks[c], tev'[c], tdl[c])
    BY <1>2, <2>1, <2>3 DEF Tracked, Sound
  <2>5. ASSUME NEW h \in Handlers
        PROVE  calls[c][h] <= lost[c][h] + Booked(tdl[c][h]) + (IF InCall(c, h)' THEN 1 ELSE 0)
    <3>1. calls[c][h] <= lost[c][h] + Booked(tdl[c][h]) + (IF InCall(c, h) THEN 1 ELSE 0)
      BY <2>1 DEF Tracked, Counted
    <3>2. ~InCall(c, h)
      BY <1>1, <1>2 DEF InCall
    <3>3. calls[c][h] \in Nat /\ lost[c][h] \in Nat /\ Booked(tdl[c][h]) \in Nat
      BY BookedType DEF TypeOK
    <3>4. QED
      BY <3>1, <3>2, <3>3
  <2>6. QED
    BY <1>1, <2>1, <2>2, <2>3, <2>4, <2>5, WorkTracked
<1>8. QED
  BY <1>6, <1>7

LEMMA StepTracked ==
    ASSUME TypeOK, TypeOK', \A q \in Procs : Owned(q), \A e \in Events : Tracked(e), [Next]_vars
    PROVE  \A e \in Events : Tracked(e)'
<1>1. ASSUME NEW p \in Procs, Start(p) PROVE \A e \in Events : Tracked(e)'
  <2>1. /\ stage[p] = "down" /\ ev' = ev /\ dl' = dl /\ lock' = lock /\ tev' = tev /\ tdl' = tdl
        /\ cur' = cur /\ sub' = sub /\ calls' = calls /\ tried' = tried /\ lost' = lost /\ oks' = oks
    BY <1>1 DEF Start, tables, view, history
  <2>2. \A q \in Procs : q # p => stage'[q] = stage[q]
    BY <1>1 DEF Start, TypeOK
  <2>3. \A e \in Events, h \in Handlers : InCall(e, h) => InCall(e, h)'
    BY <2>1, <2>2, CallFrame
  <2>4. QED
    BY <2>1, <2>3, TrackedFrame
<1>2. ASSUME UNCHANGED vars PROVE \A e \in Events : Tracked(e)'
  <2>1. /\ ev' = ev /\ dl' = dl /\ lock' = lock /\ tev' = tev /\ tdl' = tdl /\ stage' = stage
        /\ cur' = cur /\ sub' = sub /\ calls' = calls /\ tried' = tried /\ lost' = lost /\ oks' = oks
    BY <1>2 DEF vars, tables, view, dispatcher, history
  <2>2. \A e \in Events, h \in Handlers : InCall(e, h) => InCall(e, h)'
    BY <2>1 DEF InCall
  <2>3. QED
    BY <2>1, <2>2, TrackedFrame
<1>3. QED
  BY <1>1, <1>2, PublishTracked, FetchTracked, NoSubscriberTracked, StartEventTracked,
     UnregisteredTracked, CallTracked, HandlerTracked, FinishTracked, CommitTracked,
     RollbackTracked, DeleteTracked, TickTracked
     DEF Next, Dispatch, CycleFails, Stop

LEMMA InitIInv == Init => IInv
<1>1. SUFFICES ASSUME Init PROVE IInv
  OBVIOUS
<1>2. TypeOK
  BY <1>1, InitType
<1>3. \A p \in Procs : Owned(p)
  BY <1>1 DEF Init, Owned
<1>4. ASSUME NEW e \in Events PROVE Tracked(e)
  <2>1. /\ lock[e] = None /\ tried[e] = {} /\ ev[e] = NoEvent /\ tev[e] = NoEvent
        /\ dl[e] = NoDeliveries /\ tdl[e] = NoDeliveries
        /\ \A h \in Handlers : calls[e][h] = 0 /\ lost[e][h] = 0
    BY <1>1 DEF Init
  <2>2. \A h \in Handlers : Booked(dl[e][h]) \in Nat
    BY <1>2, BookedType DEF TypeOK
  <2>3. Counted(e)
    BY <2>1, <2>2 DEF Counted
  <2>4. QED
    BY <2>1, <2>3, SoundNone DEF Tracked
<1>5. QED
  BY <1>2, <1>3, <1>4 DEF IInv

LEMMA StepIInv == IInv /\ [Next]_vars => IInv'
<1>1. SUFFICES ASSUME IInv, [Next]_vars PROVE IInv'
  OBVIOUS
<1>2. TypeOK /\ (\A p \in Procs : Owned(p)) /\ (\A e \in Events : Tracked(e))
  BY <1>1 DEF IInv
<1>3. TypeOK'
  BY <1>1, <1>2, StepType
<1>4. \A p \in Procs : Owned(p)'
  BY <1>1, <1>2, StepOwned
<1>5. \A e \in Events : Tracked(e)'
  BY <1>1, <1>2, <1>3, StepTracked
<1>6. QED
  BY <1>3, <1>4, <1>5 DEF IInv

\* Whatever the registries of the processes, a dispatcher works only on events
\* its transaction has locked, and every call of a subscriber is accounted for
\* by a delivery row, a rolled back transaction or the call in progress.
THEOREM EventInvariant == Spec => []IInv
BY InitIInv, StepIInv, PTL DEF Spec

-----------------------------------------------------------------------------
(* What follows from the invariant.                                        *)

\* FOR UPDATE SKIP LOCKED keeps two dispatchers from calling subscribers for
\* one event at the same time, for any number of processes and events.
THEOREM OneDispatcherHolds == Spec => []OneDispatcher
<1>1. IInv => OneDispatcher
  BY DEF IInv, Owned, OneDispatcher
<1>2. QED
  BY <1>1, EventInvariant, PTL

\* At-least-once delivery: the bus never records a delivery whose subscriber
\* did not return Ok, and with one release running everywhere an event that is
\* delivered or collected was handled by all of its subscribers.
THEOREM DeliveredMeansHandledHolds == Spec => []DeliveredMeansHandled
<1>1. ASSUME IInv PROVE DeliveredMeansHandled
  <2>1. TypeOK /\ \A e \in Events : Sound(oks[e], ev[e], dl[e])
    BY <1>1 DEF IInv, Tracked
  <2>2. \A e \in Events : \A h \in Handlers : dl[e][h].status = "delivered" => h \in oks[e]
    BY <2>1 DEF Sound
  <2>3. ASSUME Uniform, NEW e \in Events, ev[e].status = "delivered" PROVE oks[e] = Handlers
    <3>1. ASSUME NEW h \in Handlers PROVE h \in oks[e]
      <4>1. dl[e][h].status \notin {"none", "pending", "failed"}
        BY <2>1, <2>3 DEF Sound, Pending, Failed
      <4>2. dl[e][h].status \in DeliveryStatus
        BY <2>1 DEF TypeOK, Delivery
      <4>3. QED
        BY <2>2, <4>1, <4>2 DEF DeliveryStatus
    <3>2. QED
      BY <2>1, <3>1 DEF TypeOK
  <2>4. ASSUME Uniform, NEW e \in Events, ev[e].status = "deleted" PROVE oks[e] = Handlers
    BY <2>1, <2>4 DEF Sound
  <2>5. QED
    BY <2>2, <2>3, <2>4 DEF DeliveredMeansHandled
<1>2. QED
  BY <1>1, EventInvariant, PTL

\* max_attempts bounds the calls of a subscriber for an event, but for one
\* more for each transaction that was rolled back after calling it.
THEOREM CallsBoundedHolds == Spec => []CallsBounded
<1>1. ASSUME IInv PROVE CallsBounded
  <2>1. SUFFICES ASSUME NEW e \in Events, NEW h \in Handlers
                 PROVE  calls[e][h] <= MaxAttempts + lost[e][h]
    BY DEF CallsBounded
  <2>2. TypeOK /\ Tracked(e) /\ \A q \in Procs : Owned(q)
    BY <1>1 DEF IInv
  <2>3. calls[e][h] \in Nat /\ lost[e][h] \in Nat /\ dl[e][h] \in Delivery /\ tdl[e][h] \in Delivery
    BY <2>2 DEF TypeOK
  <2>4. Booked(dl[e][h]) \in Nat /\ Booked(tdl[e][h]) \in Nat
    BY <2>3, BookedType
  <2>5. Booked(dl[e][h]) <= MaxAttempts /\ Booked(tdl[e][h]) <= MaxAttempts
    <3>1. /\ dl[e][h].status = "delivered" => dl[e][h].attempts < MaxAttempts
          /\ tdl[e][h].status = "delivered" => tdl[e][h].attempts < MaxAttempts
      BY <2>2 DEF Tracked, Sound
    <3>2. QED
      BY <2>3, <3>1, BookedType
  <2>6. CASE lock[e] = None
    <3>1. calls[e][h] <= lost[e][h] + MaxAttempts \/ calls[e][h] <= lost[e][h] + (Booked(dl[e][h]) + 0)
      BY <2>2, <2>6 DEF Tracked, Counted
    <3>2. QED
      BY <2>3, <2>4, <2>5, <3>1
  <2>7. CASE lock[e] # None
    <3>1. calls[e][h] <= lost[e][h] + Booked(tdl[e][h]) + (IF InCall(e, h) THEN 1 ELSE 0)
      BY <2>2, <2>7 DEF Tracked, Counted
    <3>2. InCall(e, h) => Booked(tdl[e][h]) < MaxAttempts
      <4>1. ASSUME InCall(e, h) PROVE tdl[e][h].status = "pending"
        <5>1. lock[e] \in Procs
          BY <2>2, <2>7 DEF TypeOK
        <5>2. Owned(lock[e])
          BY <2>2, <5>1
        <5>3. QED
          BY <4>1, <5>2 DEF InCall, Owned
      <4>2. QED
        BY <2>3, <4>1, BookedType
    <3>3. QED
      BY <2>3, <2>4, <2>5, <3>1, <3>2
  <2>8. QED
    BY <2>6, <2>7
<1>2. QED
  BY <1>1, EventInvariant, PTL

\* No process, whatever its registry, and no retry, rollback or panic changes
\* a delivery that is final: it leaves the table with its collected event.
THEOREM SettledStaysHolds == Spec => SettledStays
<1>1. ASSUME IInv, [Next]_vars
      PROVE  \A e \in Events : \A h \in Handlers :
                dl[e][h].status \in {"delivered", "failed"} =>
                   \/ dl'[e][h].status = dl[e][h].status /\ dl'[e][h].attempts = dl[e][h].attempts
                   \/ ev[e].status = "delivered" /\ ev'[e].status = "deleted"
  <2>1. SUFFICES ASSUME NEW e \in Events, NEW h \in Handlers,
                        dl[e][h].status \in {"delivered", "failed"}
                 PROVE  \/ /\ dl'[e][h].status = dl[e][h].status
                           /\ dl'[e][h].attempts = dl[e][h].attempts
                        \/ ev[e].status = "delivered" /\ ev'[e].status = "deleted"
    OBVIOUS
  <2>2. TypeOK /\ Tracked(e)
    BY <1>1 DEF IInv
  <2>3. ASSUME NEW p \in Procs, Commit(p), lock[e] = p
        PROVE  dl'[e][h].status = dl[e][h].status /\ dl'[e][h].attempts = dl[e][h].attempts
    <3>1. tdl[e][h].status = dl[e][h].status /\ tdl[e][h].attempts = dl[e][h].attempts
      BY <2>1, <2>2, <2>3 DEF Tracked, Kept
    <3>2. tdl[e] \in [Handlers -> Delivery] /\ age[p] \in Nat
      BY <2>2 DEF TypeOK
    <3>3. dl'[e] = AgedDeliveries(tdl[e], age[p])
      BY <2>3 DEF Commit
    <3>4. QED
      BY <3>1, <3>2, <3>3, AgedDeliveriesType
  <2>4. ASSUME NEW p \in Procs, Commit(p), lock[e] # p PROVE dl'[e] = dl[e]
    BY <2>4 DEF Commit
  <2>5. ASSUME Tick
        PROVE  dl'[e][h].status = dl[e][h].status /\ dl'[e][h].attempts = dl[e][h].attempts
    <3>1. dl[e] \in [Handlers -> Delivery] /\ dl'[e] = AgedDeliveries(dl[e], 1)
      BY <2>2, <2>5 DEF TypeOK, Tick
    <3>2. QED
      BY <3>1, AgedDeliveriesType
  <2>6. ASSUME DeleteDelivered, e \in Expired
        PROVE  ev[e].status = "delivered" /\ ev'[e].status = "deleted"
    BY <2>6 DEF DeleteDelivered, Expired, NoEvent
  <2>7. ASSUME DeleteDelivered, e \notin Expired PROVE dl'[e] = dl[e]
    BY <2>7 DEF DeleteDelivered
  <2>8. CASE dl' = dl
    BY <2>8
  <2>9. QED
    BY <1>1, <2>3, <2>4, <2>5, <2>6, <2>7, <2>8
       DEF Next, Publish, Dispatch, FetchBatch, NoSubscriber, StartEvent, Unregistered, CallHandler,
           HandlerOk, HandlerErr, HandlerPanics, Record, FinishEvent, CycleFails, Stop, Rollback,
           Start, vars, tables
<1>2. QED
  BY <1>1, EventInvariant, PTL DEF Spec, SettledStays

-----------------------------------------------------------------------------
(* Agreement of the event row with its delivery rows, with Served.         *)

LEMMA AgreesAged ==
    ASSUME NEW r \in Event, NEW rows \in [Handlers -> Delivery], NEW n \in Nat, Agrees(r, rows)
    PROVE  Agrees(AgedEvent(r, n), AgedDeliveries(rows, n))
<1>1. PICK r2 : r2 = AgedEvent(r, n)
  OBVIOUS
<1>2. PICK rows2 : rows2 = AgedDeliveries(rows, n)
  OBVIOUS
<1>3. r2.status = r.status /\ r2.next = Later(r.next, n)
  BY <1>1, AgedEventType
<1>4. \A h \in Handlers : rows2[h].status = rows[h].status /\ rows2[h].next = Later(rows[h].next, n)
  BY <1>2, AgedDeliveriesType
<1>5. Pending(rows2) = Pending(rows) /\ Failed(rows2) = Failed(rows) /\ (HasRows(rows2) <=> HasRows(rows))
  BY <1>4 DEF Pending, Failed, HasRows
<1>6. r.next \in When /\ \A h \in Handlers : rows[h].next \in When
  BY DEF Event, Delivery
<1>7. (r2.next = Never) <=> (r.next = Never)
  BY <1>3, <1>6, LaterType
<1>8. ASSUME NEW h \in Pending(rows), r.next # Never, r.next <= rows[h].next
      PROVE  r2.next <= rows2[h].next
  <2>1. h \in Handlers /\ rows[h].next \in When /\ r.next \in When
    BY <1>6 DEF Pending
  <2>2. Later(r.next, n) <= Later(rows[h].next, n)
    BY <1>8, <2>1 DEF Later, Max2, When, Never
  <2>3. QED
    BY <1>3, <1>4, <2>1, <2>2
<1>9. Agrees(r2, rows2)
  BY <1>3, <1>5, <1>7, <1>8 DEF Agrees
<1>10. QED
  BY <1>1, <1>2, <1>9

\* What refresh_message_state writes.
LEMMA AgreesFinish ==
    ASSUME NEW rows \in [Handlers -> Delivery], HasRows(rows), NEW n, Earliest(rows, n),
           NEW r, r.status = Aggregate(rows), r.next = n
    PROVE  Agrees(r, rows)
<1>1. /\ r.status \in {"pending", "delivered", "failed"}
      /\ r.status = "failed" <=> Failed(rows) # {}
      /\ r.status = "delivered" <=> Failed(rows) = {} /\ Pending(rows) = {}
  BY DEF Aggregate
<1>2. \A h \in Pending(rows) : rows[h].next \in When /\ rows[h].next # Never
  BY DEF Pending, Delivery
<1>3. Pending(rows) = {} => n = Never
  BY DEF Earliest
<1>4. \A h \in Pending(rows) : n # Never /\ n <= rows[h].next
  BY <1>2 DEF Earliest
<1>5. QED
  BY <1>1, <1>3, <1>4 DEF Agrees

\* A step after which nothing new has to agree.
LEMMA InStepFrame ==
    ASSUME NEW e \in Events, InStepAt(e), ev'[e] = ev[e], dl'[e] = dl[e],
           lock'[e] # None /\ cur'[lock'[e]] # e =>
              /\ lock[e] # None /\ cur[lock[e]] # e
              /\ tev'[e] = tev[e] /\ tdl'[e] = tdl[e]
    PROVE  InStepAt(e)'
BY DEF InStepAt

LEMMA StepInStep ==
    ASSUME Served, IInv, InStep, [Next]_vars
    PROVE  InStep'
<1>t. TypeOK /\ (\A p \in Procs : Owned(p)) /\ (\A e \in Events : Tracked(e)) /\ \A e \in Events : InStepAt(e)
  BY DEF IInv, InStep
<1> SUFFICES ASSUME NEW e \in Events PROVE InStepAt(e)'
  BY DEF InStep
<1>1. ASSUME NEW e0 \in Events, Publish(e0) PROVE InStepAt(e)'
  <2>1. dl' = dl /\ lock' = lock /\ tev' = tev /\ tdl' = tdl /\ cur' = cur
    BY <1>1 DEF Publish, view, dispatcher
  <2>2. CASE e # e0
    <3>1. ev'[e] = ev[e]
      BY <1>1, <1>t, <2>2 DEF Publish, TypeOK
    <3>2. QED
      BY <1>t, <2>1, <3>1, InStepFrame
  <2>3. CASE e = e0
    <3>1. PICK delay \in 0..MaxDelay : ev'[e] = [status |-> "pending", next |-> delay, old |-> 0]
      BY <1>1, <1>t, <2>3 DEF Publish, TypeOK
    <3>2. ev[e].status = "absent"
      BY <1>1, <2>3 DEF Publish
    <3>3. ~HasRows(dl[e]) /\ lock[e] = None
      BY <1>t, <3>2 DEF InStepAt, Agrees, Tracked
    <3>4. Agrees(ev'[e], dl'[e])
      BY <2>1, <3>1, <3>3 DEF Agrees, Never
    <3>5. QED
      BY <2>1, <3>3, <3>4 DEF InStepAt
  <2>4. QED
    BY <2>2, <2>3
<1>2. ASSUME NEW p \in Procs, FetchBatch(p) PROVE InStepAt(e)'
  <2>1. PICK S \in SUBSET {x \in Events : Fetchable(x)} :
          /\ lock' = [x \in Events |-> IF x \in S THEN p ELSE lock[x]]
          /\ tev' = [x \in Events |-> IF x \in S THEN ev[x] ELSE tev[x]]
          /\ tdl' = [x \in Events |-> IF x \in S THEN dl[x] ELSE tdl[x]]
    BY <1>2 DEF FetchBatch
  <2>2. ev' = ev /\ dl' = dl /\ cur' = cur
    BY <1>2 DEF FetchBatch, tables
  <2>3. CASE e \in S
    <3>1. tev'[e] = ev[e] /\ tdl'[e] = dl[e]
      BY <2>1, <2>3
    <3>2. QED
      BY <1>t, <2>2, <3>1 DEF InStepAt
  <2>4. CASE e \notin S
    <3>1. tev'[e] = tev[e] /\ tdl'[e] = tdl[e] /\ lock'[e] = lock[e]
      BY <2>1, <2>4
    <3>2. QED
      BY <1>t, <2>2, <3>1, InStepFrame
  <2>5. QED
    BY <2>3, <2>4
<1>3. ASSUME NEW p \in Procs, NEW e0 \in Events, NoSubscriber(p, e0) PROVE InStepAt(e)'
  BY <1>3 DEF Served, NoSubscriber
<1>4. ASSUME NEW p \in Procs, NEW e0 \in Events, StartEvent(p, e0) PROVE InStepAt(e)'
  <2>1. ev' = ev /\ dl' = dl /\ lock' = lock /\ tev' = tev /\ cur[p] = None
    BY <1>4, <1>t DEF StartEvent, tables, Owned
  <2>2. cur'[p] = e0 /\ \A q \in Procs : q # p => cur'[q] = cur[q]
    BY <1>4, <1>t DEF StartEvent, TypeOK
  <2>3. lock[e0] = p /\ \A x \in Events : x # e0 => tdl'[x] = tdl[x]
    BY <1>4, <1>t DEF StartEvent, TypeOK, Owned
  <2>4. lock[e] # None => lock[e] \in Procs
    BY <1>t DEF TypeOK
  <2>5. QED
    BY <1>t, <2>1, <2>2, <2>3, <2>4, InStepFrame
<1>5. ASSUME NEW p \in Procs, stage[p] \in {"event", "call"}, NEW h \in Handlers, NEW row,
             tdl' = [tdl EXCEPT ![cur[p]][h] = row],
             ev' = ev, dl' = dl, lock' = lock, tev' = tev, cur' = cur
      PROVE InStepAt(e)'
  <2>1. lock[cur[p]] = p /\ \A x \in Events : x # cur[p] => tdl'[x] = tdl[x]
    BY <1>5, <1>t DEF Owned, TypeOK
  <2>2. QED
    BY <1>5, <1>t, <2>1, InStepFrame
<1>6. ASSUME NEW p \in Procs, NEW h \in Handlers, Unregistered(p, h) PROVE InStepAt(e)'
  BY <1>5, <1>6 DEF Unregistered, tables
<1>7. ASSUME NEW p \in Procs, NEW row, Record(p, row) PROVE InStepAt(e)'
  BY <1>5, <1>7, <1>t DEF Record, tables, TypeOK
<1>8. ASSUME NEW p \in Procs, FinishEvent(p) PROVE InStepAt(e)'
  <2>1. PICK c \in Events : c = cur[p]
    BY <1>8, <1>t DEF FinishEvent, TypeOK
  <2>2. ev' = ev /\ dl' = dl /\ lock' = lock /\ tdl' = tdl
    BY <1>8 DEF FinishEvent, tables
  <2>3. lock[c] = p /\ HasRows(tdl[c]) /\ tdl[c] \in [Handlers -> Delivery]
    BY <1>8, <1>t, <2>1 DEF FinishEvent, Owned, TypeOK
  <2>4. PICK n : Earliest(tdl[c], n)
                 /\ tev' = [tev EXCEPT ![c] = [status |-> Aggregate(tdl[c]), next |-> n, old |-> 0]]
    BY <1>8, <2>1 DEF FinishEvent
  <2>5. CASE e = c
    <3>1. tev'[c].status = Aggregate(tdl[c]) /\ tev'[c].next = n
      BY <1>t, <2>4 DEF TypeOK
    <3>2. Agrees(tev'[c], tdl[c])
      BY <2>3, <2>4, <3>1, AgreesFinish
    <3>3. QED
      BY <1>t, <2>2, <2>5, <3>2 DEF InStepAt
  <2>6. CASE e # c
    <3>1. tev'[e] = tev[e] /\ \A q \in Procs : q # p => cur'[q] = cur[q]
      BY <1>8, <1>t, <2>4, <2>6 DEF FinishEvent, TypeOK
    <3>2. lock[e] # None => lock[e] \in Procs
      BY <1>t DEF TypeOK
    <3>3. QED
      BY <1>t, <2>1, <2>2, <2>6, <3>1, <3>2, InStepFrame
  <2>7. QED
    BY <2>5, <2>6
<1>9. ASSUME NEW p \in Procs, NEW s, Release(p, s), lock[e] # p, ev'[e] = ev[e], dl'[e] = dl[e]
      PROVE InStepAt(e)'
  <2>1. lock'[e] = lock[e] /\ tev'[e] = tev[e] /\ tdl'[e] = tdl[e]
    BY <1>9 DEF Release
  <2>2. lock[e] # None => lock[e] \in Procs
    BY <1>t DEF TypeOK
  <2>3. lock[e] # None => cur'[lock[e]] = cur[lock[e]]
    BY <1>9, <1>t, <2>2 DEF Release, TypeOK
  <2>4. QED
    BY <1>9, <1>t, <2>1, <2>3, InStepFrame
<1>10. ASSUME NEW p \in Procs, Commit(p) PROVE InStepAt(e)'
  <2>1. CASE lock[e] = p
    <3>1. lock'[e] = None
      BY <1>10, <2>1 DEF Commit, Release
    <3>2. ev'[e] = AgedEvent(tev[e], age[p]) /\ dl'[e] = AgedDeliveries(tdl[e], age[p])
      BY <1>10, <2>1 DEF Commit
    <3>3. cur[p] = None
      BY <1>10, <1>t DEF Commit, Owned
    <3>4. Agrees(tev[e], tdl[e])
      BY <1>t, <2>1, <3>3 DEF InStepAt
    <3>5. tev[e] \in Event /\ tdl[e] \in [Handlers -> Delivery] /\ age[p] \in Nat
      BY <1>t DEF TypeOK
    <3>6. Agrees(ev'[e], dl'[e])
      BY <3>2, <3>4, <3>5, AgreesAged
    <3>7. QED
      BY <3>1, <3>6 DEF InStepAt
  <2>2. CASE lock[e] # p
    BY <1>9, <1>10, <2>2 DEF Commit
  <2>3. QED
    BY <2>1, <2>2
<1>11. ASSUME NEW p \in Procs, NEW s, Rollback(p, s) PROVE InStepAt(e)'
  <2>1. Release(p, s) /\ ev' = ev /\ dl' = dl
    BY <1>11 DEF Rollback, tables
  <2>2. CASE lock[e] = p
    <3>1. lock'[e] = None
      BY <2>1, <2>2 DEF Release
    <3>2. QED
      BY <1>t, <2>1, <3>1, InStepFrame
  <2>3. CASE lock[e] # p
    BY <1>9, <2>1, <2>3
  <2>4. QED
    BY <2>2, <2>3
<1>12. ASSUME DeleteDelivered PROVE InStepAt(e)'
  <2>1. lock' = lock /\ tev' = tev /\ tdl' = tdl /\ cur' = cur
    BY <1>12 DEF DeleteDelivered, view, dispatcher
  <2>2. CASE e \in Expired
    <3>1. ev'[e].status = "deleted" /\ dl'[e] = NoDeliveries /\ ev[e].status = "delivered"
      BY <1>12, <2>2 DEF DeleteDelivered, Expired, NoEvent
    <3>2. lock[e] = None
      BY <1>t, <3>1 DEF Tracked
    <3>3. Agrees(ev'[e], dl'[e])
      BY <3>1 DEF Agrees, HasRows, NoDeliveries, NoDelivery
    <3>4. QED
      BY <2>1, <3>2, <3>3 DEF InStepAt
  <2>3. CASE e \notin Expired
    <3>1. ev'[e] = ev[e] /\ dl'[e] = dl[e]
      BY <1>12, <2>3 DEF DeleteDelivered
    <3>2. QED
      BY <1>t, <2>1, <3>1, InStepFrame
  <2>4. QED
    BY <2>2, <2>3
<1>13. ASSUME Tick PROVE InStepAt(e)'
  <2>1. lock' = lock /\ tev' = tev /\ tdl' = tdl /\ cur' = cur
    BY <1>13 DEF Tick, view
  <2>2. ev'[e] = AgedEvent(ev[e], 1) /\ dl'[e] = AgedDeliveries(dl[e], 1)
    BY <1>13 DEF Tick
  <2>3. ev[e] \in Event /\ dl[e] \in [Handlers -> Delivery] /\ Agrees(ev[e], dl[e])
    BY <1>t DEF TypeOK, InStepAt
  <2>4. Agrees(ev'[e], dl'[e])
    BY <2>2, <2>3, AgreesAged
  <2>5. QED
    BY <1>t, <2>1, <2>4 DEF InStepAt
<1>14. ASSUME ev' = ev, dl' = dl, lock' = lock, tev' = tev, tdl' = tdl, cur' = cur PROVE InStepAt(e)'
  BY <1>14, <1>t, InStepFrame
<1>15. ASSUME NEW p \in Procs, (\E h \in Handlers : CallHandler(p, h)) \/ Start(p) PROVE InStepAt(e)'
  BY <1>14, <1>15 DEF CallHandler, Start, tables, view
<1>16. ASSUME UNCHANGED vars PROVE InStepAt(e)'
  BY <1>14, <1>16 DEF vars, tables, view, dispatcher
<1>17. QED
  BY <1>1, <1>2, <1>3, <1>4, <1>6, <1>7, <1>8, <1>10, <1>11, <1>12, <1>13, <1>15, <1>16
     DEF Next, Dispatch, HandlerOk, HandlerErr, HandlerPanics, CycleFails, Stop

\* If every process has a subscriber for the topic, the event row agrees with
\* its deliveries in the tables, and in every transaction for the events it
\* has finished or not begun.
THEOREM InStepHolds == Served /\ Spec => []InStep
<1> SUFFICES ASSUME Served PROVE Spec => []InStep
  OBVIOUS
<1>1. Init => InStep
  BY DEF Init, InStep, InStepAt, Agrees, HasRows, NoDeliveries, NoDelivery, NoEvent
<1>2. IInv /\ InStep /\ [Next]_vars => InStep'
  BY StepInStep
<1>3. QED
  BY <1>1, <1>2, EventInvariant, PTL DEF Spec

\* Under the same condition no open delivery is stranded: its event row is
\* due no later than it is, and the event is failed or delivered exactly when
\* its deliveries say so.
THEOREM AggregatedHolds == Served /\ Spec => []Aggregated
<1>1. InStep => Aggregated
  BY DEF InStep, InStepAt, Aggregated
<1>2. QED
  BY <1>1, InStepHolds, PTL

=============================================================================
