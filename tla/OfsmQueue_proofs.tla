--------------------------- MODULE OfsmQueue_proofs --------------------------
(***************************************************************************)
(* Proofs about the event queue between its producers and the main loop,   *)
(* for every queue size and every set of event codes and data.             *)
(***************************************************************************)
EXTENDS OfsmQueue, OfsmRing_proofs

-----------------------------------------------------------------------------
(* The queue between producers and main loop *)

IndInv ==
    /\ group \in Ring(QueueSize, Event)
    /\ eventQueued \in BOOLEAN
    /\ pc \in {"pass", "dequeue", "decide", "asleep"}
    /\ PendingIsSignalled

\* The declared queue satisfies the invariant.
LEMMA InitIndInv == Init => IndInv
<1> SUFFICES ASSUME Init PROVE IndInv
  OBVIOUS
<1>1. zeroEvent \in Event
  BY EventAssumption DEF Event, zeroEvent
<1>2. group \in Ring(QueueSize, Event)
  BY <1>1, QueueSizeAssumption DEF Init, EmptyRing, Ring, RingType, RingConsistent
<1>3. QED
  BY <1>2 DEF Init, IndInv, PendingIsSignalled, IsEmpty, EmptyRing

\* So does the queue after every step of a producer or of the main loop.
LEMMA StepIndInv == IndInv /\ [Next]_vars => IndInv'
<1> SUFFICES ASSUME IndInv, [Next]_vars PROVE IndInv'
  OBVIOUS
<1> USE QueueSizeAssumption
<1>1. ASSUME NEW force \in BOOLEAN, NEW e \in Event, QueueGroupEvent(force, e)
      PROVE  IndInv'
  <2>1. group' \in Ring(QueueSize, Event)
    BY <1>1, EnqueueKeepsRing DEF IndInv, QueueGroupEvent
  <2>2. eventQueued' \in BOOLEAN /\ pc' = pc
    BY <1>1 DEF IndInv, QueueGroupEvent, TakesSlot
  <2>3. PendingIsSignalled'
    <3>1. CASE IsEmpty(group)
      BY <1>1, <3>1, EnqueueLeavesEvent DEF IndInv, QueueGroupEvent, PendingIsSignalled
    <3>2. CASE ~IsEmpty(group)
      BY <1>1, <3>2 DEF IndInv, QueueGroupEvent, PendingIsSignalled
    <3>3. QED
      BY <3>1, <3>2
  <2>4. QED
    BY <2>1, <2>2, <2>3 DEF IndInv
<1>2. CASE StartPass
  BY <1>2 DEF IndInv, StartPass, PendingIsSignalled
<1>3. CASE TakeEvent
  <2>1. CASE IsEmpty(group) /\ UNCHANGED << group, eventQueued >>
    BY <1>3, <2>1 DEF IndInv, TakeEvent, PendingIsSignalled
  <2>2. CASE ~IsEmpty(group) /\ group' = Dequeue(group)
    <3>1. group' \in Ring(QueueSize, Event)
      BY <2>2, DequeueKeepsRing DEF IndInv
    <3>2. eventQueued' = (eventQueued \/ MorePending(group'))
      BY <1>3, <2>2 DEF TakeEvent
    <3>3. ~IsEmpty(group') => eventQueued'
      BY <2>2, <3>2, DequeueEmpties DEF IndInv
    <3>4. QED
      BY <1>3, <3>1, <3>2, <3>3 DEF IndInv, TakeEvent, PendingIsSignalled
  <2>3. QED
    BY <1>3, <2>1, <2>2 DEF TakeEvent
<1>4. CASE Decide
  BY <1>4 DEF IndInv, Decide, PendingIsSignalled
<1>5. CASE WakeUp
  BY <1>5 DEF IndInv, WakeUp, PendingIsSignalled
<1>6. CASE UNCHANGED vars
  BY <1>6 DEF IndInv, vars, PendingIsSignalled
<1>7. QED
  BY <1>1, <1>2, <1>3, <1>4, <1>5, <1>6 DEF Next, MainLoop

\* The inductive invariant holds throughout.
LEMMA IndInvHolds == Spec => []IndInv
BY InitIndInv, StepIndInv, PTL DEF Spec

\* Type correctness of the queue and its two flags.
THEOREM QueueTypeCorrect == Spec => []TypeOK
<1>1. IndInv => TypeOK
  BY DEF IndInv, TypeOK, Ring
<1>2. QED
  BY <1>1, IndInvHolds, PTL

\* A pending event is never out of sight of the main loop: EVENT_QUEUED is
\* raised whenever the loop could decide to sleep, for every interleaving of
\* queueing calls with the steps of the loop.
THEOREM PendingAlwaysSignalled == Spec => []PendingIsSignalled
<1>1. IndInv => PendingIsSignalled
  BY DEF IndInv
<1>2. QED
  BY <1>1, IndInvHolds, PTL

-----------------------------------------------------------------------------
(* The ring implements the bounded FIFO *)

\* What Enqueue does to the pending events: a Put of the event, unless the
\* event misses the buffer.
LEMMA EnqueueIsPut ==
    ASSUME NEW force \in BOOLEAN, NEW e \in Event,
           group \in Ring(QueueSize, Event), group' = Enqueue(group, force, e)
    PROVE  IF Misses(group, force, e) THEN Fifo!PutAny ELSE Fifo!Put(force, e)
<1>1. Compresses(group, force, e) <=> Fifo!Overwrites(force, e)
  BY CompressesYoungest, QueueSizeAssumption DEF Fifo!Overwrites
<1>2. QED
  BY <1>1, EnqueuePending, QueueSizeAssumption DEF Fifo!Put, Fifo!PutAny

\* A removal takes the oldest pending event.
LEMMA TakeIsGet ==
    ASSUME group \in Ring(QueueSize, Event), TakeEvent, ~IsEmpty(group)
    PROVE  Fifo!Get
<1>1. group' = Dequeue(group)
  BY DEF TakeEvent
<1>2. Pending(group) # << >> /\ Pending(group') = Tail(Pending(group))
  BY <1>1, DequeueIsTail, QueueSizeAssumption
<1>3. QED
  BY <1>2 DEF Fifo!Get

\* Every step of the queue is a step of the weak FIFO, or none.
LEMMA StepIsFifoStep ==
    IndInv /\ [Next]_vars => [Fifo!Next \/ Fifo!PutAny]_(Pending(group))
<1> SUFFICES ASSUME IndInv, [Next]_vars
             PROVE  [Fifo!Next \/ Fifo!PutAny]_(Pending(group))
  OBVIOUS
<1>1. group \in Ring(QueueSize, Event)
  BY DEF IndInv
<1>2. ASSUME NEW force \in BOOLEAN, NEW e \in Event, QueueGroupEvent(force, e)
      PROVE  Fifo!Next \/ Fifo!PutAny
  BY <1>1, <1>2, EnqueueIsPut DEF QueueGroupEvent, Fifo!Next
<1>3. CASE TakeEvent /\ ~IsEmpty(group)
  BY <1>1, <1>3, TakeIsGet DEF Fifo!Next
<1>4. CASE UNCHANGED group
  BY <1>4
<1>5. QED
  BY <1>2, <1>3, <1>4 DEF Next, MainLoop, StartPass, TakeEvent, Decide, WakeUp, vars

\* Every behaviour of the ring between its producers and the main loop is a
\* behaviour of a bounded FIFO in which an event may come out as another one:
\* order is kept, only the youngest pending event is ever overwritten, and
\* only a full queue drops.
THEOREM RingImplementsWeakFifo == Spec => ImplementsWeakFifo
<1>1. Init => Fifo!Init
  <2> SUFFICES ASSUME Init PROVE Pending(group) = << >>
    BY DEF Fifo!Init
  <2>1. PendingEventCount(group) = 0
    BY QueueSizeAssumption DEF Init, EmptyRing, PendingEventCount
  <2>2. QED
    BY <2>1 DEF Pending
<1>2. QED
  BY <1>1, StepIsFifoStep, IndInvHolds, PTL DEF Spec, ImplementsWeakFifo, Fifo!WeakSpec

\* The write past the end of the buffer is the only way for a queueing call to
\* be anything but a Put of its own event; a removal always is a Get.
THEOREM OnlyMissesBreakTheFifo == Spec => CallsArePutsUnlessMissed
<1> DEFINE A == /\ \A force \in BOOLEAN, e \in Event :
                      QueueGroupEvent(force, e) =>
                          IF Misses(group, force, e) THEN Fifo!PutAny
                          ELSE Fifo!Put(force, e)
                /\ TakeEvent /\ ~IsEmpty(group) => Fifo!Get
<1>1. IndInv => A
  BY EnqueueIsPut, TakeIsGet DEF IndInv, QueueGroupEvent
<1>2. IndInv /\ [Next]_vars => [A]_vars
  BY <1>1
<1>3. QED
  BY <1>2, IndInvHolds, PTL DEF Spec, CallsArePutsUnlessMissed
=============================================================================
