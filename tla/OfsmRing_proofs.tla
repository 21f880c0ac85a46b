--------------------------- MODULE OfsmRing_proofs ---------------------------
(***************************************************************************)
(* Lemmas about the circular buffer, for every size and every set of       *)
(* events: its operators keep it a ring, and on the sequence of pending    *)
(* events they are Append, an update of the last element, and Tail.        *)
(***************************************************************************)
EXTENDS OfsmRing, SequenceTheorems, TLAPS

-----------------------------------------------------------------------------
(* The ring *)

\* A ring of the right type whose overflow flag is raised only when full.
Ring(size, E) == {q \in RingType(size, E) : RingConsistent(q)}

\* The fields of a ring, one by one.
LEMMA RingFields ==
    ASSUME NEW size \in Nat \ {0}, NEW E, NEW q \in Ring(size, E)
    PROVE  /\ q.eventQueue \in [0 .. size - 1 -> E]
           /\ q.eventQueueSize = size
           /\ q.nextEventIndex \in 0 .. size - 1
           /\ q.currentEventIndex \in 0 .. size - 1
           /\ q.overflow \in BOOLEAN
           /\ q.overflow => q.nextEventIndex = q.currentEventIndex
BY DEF Ring, RingType, RingConsistent

\* The neighbours of a slot are slots.
LEMMA SlotsInRange ==
    ASSUME NEW size \in Nat \ {0}, NEW E, NEW q \in Ring(size, E),
           NEW i \in 0 .. size - 1
    PROVE  /\ NextSlot(q, i) \in 0 .. size - 1
           /\ PreviousSlot(q, i) \in 0 .. size - 1
BY DEF Ring, RingType, NextSlot, PreviousSlot

\* _ofsm_queue_group_event leaves a ring, even when its write goes past the end.
LEMMA EnqueueKeepsRing ==
    ASSUME NEW size \in Nat \ {0}, NEW E, NEW q \in Ring(size, E),
           NEW force \in BOOLEAN, NEW e \in E
    PROVE  Enqueue(q, force, e) \in Ring(size, E)
<1> DEFINE next == q.nextEventIndex
<1>1. next \in 0 .. size - 1
  BY DEF Ring, RingType
<1>2. /\ NextSlot(q, next) \in 0 .. size - 1
      /\ PreviousSlot(q, next) \in 0 .. size - 1
  BY <1>1, SlotsInRange
<1>3. Update(q, e) \in Ring(size, E)
  BY <1>2 DEF Ring, RingType, RingConsistent, Update
<1>4. \A slot \in Nat : Store(q, slot, e) \in Ring(size, E)
  BY <1>1, <1>2 DEF Ring, RingType, RingConsistent, Store
<1>5. StoreSlot(q, force, e) \in Nat
  BY <1>1 DEF StoreSlot, Ring, RingType
<1>6. QED
  BY <1>3, <1>4, <1>5 DEF Enqueue

\* A write from the queue before this one in memory stays inside the ring.
LEMMA TrampleKeepsRing ==
    ASSUME NEW size \in Nat \ {0}, NEW E, NEW q \in Ring(size, E), NEW e \in E
    PROVE  /\ Trample(q, e) \in Ring(size, E)
           /\ IsEmpty(Trample(q, e)) <=> IsEmpty(q)
<1>1. 0 \in 0 .. size - 1
  OBVIOUS
<1>2. QED
  BY <1>1 DEF Ring, RingType, RingConsistent, Trample, IsEmpty

\* The removal in _ofsm_group_process_pending_event leaves a ring.
LEMMA DequeueKeepsRing ==
    ASSUME NEW size \in Nat \ {0}, NEW E, NEW q \in Ring(size, E)
    PROVE  Dequeue(q) \in Ring(size, E)
<1>1. NextSlot(q, q.currentEventIndex) \in 0 .. size - 1
  BY SlotsInRange DEF Ring, RingType
<1>2. QED
  BY <1>1 DEF Ring, RingType, RingConsistent, Dequeue

\* Queueing never leaves a ring empty, and never empties one.
LEMMA EnqueueLeavesEvent ==
    ASSUME NEW size \in Nat \ {0}, NEW E, NEW q \in Ring(size, E),
           NEW force \in BOOLEAN, NEW e \in E
    PROVE  /\ ~IsEmpty(Enqueue(q, force, e))
           /\ IsEmpty(q) => TakesSlot(q, force, e)
<1>1. IsEmpty(q) => TakesSlot(q, force, e)
  BY DEF IsEmpty, TakesSlot, Compresses, Forced
<1>2. ~IsEmpty(Enqueue(q, force, e))
  <2>1. CASE Compresses(q, force, e)
    BY <2>1 DEF Compresses, Forced, Enqueue, Update, IsEmpty, Ring, RingType
  <2>2. CASE ~Compresses(q, force, e) /\ q.overflow
    BY <2>2 DEF Enqueue, IsEmpty
  <2>3. CASE ~Compresses(q, force, e) /\ ~q.overflow
    BY <2>3 DEF Enqueue, Store, IsEmpty, Ring, RingType
  <2>4. QED
    BY <2>1, <2>2, <2>3
<1>3. QED
  BY <1>1, <1>2

\* After a removal the ring is empty exactly when the indices meet.
LEMMA DequeueEmpties ==
    ASSUME NEW size \in Nat \ {0}, NEW E, NEW q \in Ring(size, E)
    PROVE  IsEmpty(Dequeue(q)) <=>
               ~MorePending(Dequeue(q))
BY DEF Ring, RingType, Dequeue, IsEmpty, MorePending

-----------------------------------------------------------------------------
(* The pending events of a ring, as a sequence *)

\* The pending events of a ring: how many, and in which slots.
LEMMA PendingCount ==
    ASSUME NEW size \in Nat \ {0}, NEW E, NEW q \in Ring(size, E)
    PROVE  /\ PendingEventCount(q) \in 0 .. size
           /\ q.overflow => PendingEventCount(q) = size
           /\ ~q.overflow => PendingEventCount(q) < size
           /\ PendingEventCount(q) = 0 <=> IsEmpty(q)
           /\ \A k \in 1 .. size : PendingSlot(q, k) \in 0 .. size - 1
BY RingFields DEF PendingEventCount, PendingSlot, IsEmpty

\* The pending events are a sequence of events.
LEMMA PendingIsSeq ==
    ASSUME NEW size \in Nat \ {0}, NEW E, NEW q \in Ring(size, E)
    PROVE  /\ Pending(q) \in Seq(E)
           /\ Len(Pending(q)) = PendingEventCount(q)
<1>1. PendingEventCount(q) \in 0 .. size
  BY PendingCount
<1>2. \A k \in 1 .. PendingEventCount(q) : q.eventQueue[PendingSlot(q, k)] \in E
  <2> SUFFICES ASSUME NEW k \in 1 .. PendingEventCount(q)
               PROVE  q.eventQueue[PendingSlot(q, k)] \in E
    OBVIOUS
  <2>1. k \in 1 .. size
    BY <1>1
  <2>2. QED
    BY <2>1, PendingCount, RingFields
<1>3. PendingEventCount(q) \in Nat
  BY <1>1
<1>4. QED
  BY <1>2, <1>3 DEF Pending

\* The k-th pending event is the one in its slot.
LEMMA PendingAt ==
    ASSUME NEW size \in Nat \ {0}, NEW E, NEW q \in Ring(size, E),
           NEW k \in 1 .. PendingEventCount(q)
    PROVE  /\ PendingSlot(q, k) \in 0 .. size - 1
           /\ Pending(q)[k] = q.eventQueue[PendingSlot(q, k)]
<1>1. Pending(q)[k] = q.eventQueue[PendingSlot(q, k)]
  BY DEF Pending
<1>2. k \in 1 .. size
  BY PendingCount
<1>3. QED
  BY <1>1, <1>2, PendingCount

\* The youngest pending event is the one in the slot before nextEventIndex.
LEMMA LastPending ==
    ASSUME NEW size \in Nat \ {0}, NEW E, NEW q \in Ring(size, E), ~IsEmpty(q)
    PROVE  /\ Len(Pending(q)) \in 1 .. size
           /\ PendingSlot(q, Len(Pending(q))) = PreviousSlot(q, q.nextEventIndex)
           /\ Pending(q)[Len(Pending(q))]
                 = q.eventQueue[PreviousSlot(q, q.nextEventIndex)]
<1>1. Len(Pending(q)) = PendingEventCount(q) /\ Len(Pending(q)) \in 1 .. size
  BY PendingCount, PendingIsSeq
<1>2. PendingSlot(q, PendingEventCount(q)) = PreviousSlot(q, q.nextEventIndex)
  BY <1>1 DEF Ring, RingType, RingConsistent, PendingEventCount, PendingSlot,
              PreviousSlot, IsEmpty
<1>3. QED
  BY <1>1, <1>2, PendingAt

\* Different pending events sit in different slots.
LEMMA SlotsDiffer ==
    ASSUME NEW size \in Nat \ {0}, NEW E, NEW q \in Ring(size, E),
           NEW j \in 1 .. size, NEW k \in 1 .. size, j # k
    PROVE  PendingSlot(q, j) # PendingSlot(q, k)
BY DEF Ring, RingType, PendingSlot

\* Taking a slot appends: the event itself, or, when it is written past the end,
\* the old event of the slot that it should have taken.
LEMMA StoreAppends ==
    ASSUME NEW size \in Nat \ {0}, NEW E, NEW q \in Ring(size, E),
           NEW e \in E, ~q.overflow, NEW slot \in {q.nextEventIndex, size}
    PROVE  Pending(Store(q, slot, e)) =
               Append(Pending(q), IF slot = size THEN q.eventQueue[q.nextEventIndex]
                                  ELSE e)
<1> DEFINE r == Store(q, slot, e)
           x == IF slot = size THEN q.eventQueue[q.nextEventIndex] ELSE e
           n == PendingEventCount(q)
           next == q.nextEventIndex
<1>1. /\ next \in 0 .. size - 1
      /\ NextSlot(q, next) \in 0 .. size - 1
  BY SlotsInRange DEF Ring, RingType
<1>2. /\ r.currentEventIndex = q.currentEventIndex
      /\ r.eventQueueSize = q.eventQueueSize
      /\ r.nextEventIndex = NextSlot(q, next)
      /\ r.overflow = (NextSlot(q, next) = q.currentEventIndex)
      /\ r.eventQueue = IF slot < size THEN [q.eventQueue EXCEPT ![slot] = e]
                        ELSE q.eventQueue
  BY DEF Ring, RingType, Store
<1>3. r \in Ring(size, E)
  BY <1>1 DEF Ring, RingType, RingConsistent, Store
<1>4. x \in E
  BY RingFields
<1>5. /\ r.eventQueue[next] = x
      /\ \A i \in 0 .. size - 1 : i # next => r.eventQueue[i] = q.eventQueue[i]
  BY <1>1, <1>2, RingFields
<1> HIDE DEF r, x
<1>6. n \in 0 .. size - 1
  BY PendingCount
<1>7. PendingEventCount(r) = n + 1
  <2>1. /\ q.eventQueueSize = size
        /\ q.currentEventIndex \in 0 .. size - 1
    BY RingFields
  <2>2. CASE NextSlot(q, next) = q.currentEventIndex
    <3>1. r.overflow
      BY <1>2, <2>2
    <3>2. PendingEventCount(r) = size
      BY <1>3, <3>1, PendingCount
    <3>3. n = size - 1
      BY <1>1, <2>1, <2>2 DEF PendingEventCount, NextSlot
    <3>4. QED
      BY <3>2, <3>3
  <2>3. CASE NextSlot(q, next) # q.currentEventIndex
    <3>1. ~r.overflow
      BY <1>2, <2>3
    <3>2. QED
      BY <1>1, <1>2, <2>1, <2>3, <3>1 DEF PendingEventCount, NextSlot
  <2>4. QED
    BY <2>2, <2>3
<1>8. PendingSlot(q, n + 1) = next
  BY <1>1 DEF Ring, RingType, RingConsistent, PendingEventCount, PendingSlot
<1>9. \A k \in 1 .. size : PendingSlot(r, k) = PendingSlot(q, k)
  BY <1>2 DEF PendingSlot
<1>10. Pending(r)[n + 1] = x
  <2>1. Pending(r)[n + 1] = r.eventQueue[PendingSlot(r, n + 1)]
    <3>1. \A k \in 1 .. PendingEventCount(r) :
              Pending(r)[k] = r.eventQueue[PendingSlot(r, k)]
      <4> SUFFICES ASSUME NEW k \in 1 .. PendingEventCount(r)
                   PROVE  Pending(r)[k] = r.eventQueue[PendingSlot(r, k)]
        OBVIOUS
      <4>1. QED
        BY <1>3, PendingAt
    <3>2. n + 1 \in 1 .. PendingEventCount(r)
      BY <1>6, <1>7
    <3>3. QED
      BY <3>1, <3>2
  <2>2. PendingSlot(r, n + 1) = next
    BY <1>6, <1>8, <1>9
  <2>3. QED
    BY <1>5, <2>1, <2>2
<1>11. ASSUME NEW k \in 1 .. n PROVE Pending(r)[k] = Pending(q)[k]
  <2>1. /\ Pending(r)[k] = r.eventQueue[PendingSlot(r, k)]
        /\ Pending(q)[k] = q.eventQueue[PendingSlot(q, k)]
        /\ PendingSlot(q, k) \in 0 .. size - 1
    <3>1. k \in 1 .. PendingEventCount(r)
      BY <1>6, <1>7
    <3>2. QED
      BY <1>3, <3>1, PendingAt, RingFields
  <2>2. PendingSlot(q, k) # next
    BY <1>6, <1>8, SlotsDiffer
  <2>3. PendingSlot(r, k) = PendingSlot(q, k)
    BY <1>6, <1>9
  <2>4. QED
    BY <1>5, <2>1, <2>2, <2>3
<1>12. /\ Pending(q) \in Seq(E) /\ Len(Pending(q)) = n
      /\ Pending(r) \in Seq(E) /\ Len(Pending(r)) = n + 1
  BY <1>3, <1>7, PendingIsSeq
<1>13. QED
  <2> HIDE DEF n
  <2>1. n \in Nat
    BY <1>6
  <2>2. Append(Pending(q), x) \in Seq(E) /\ Len(Append(Pending(q), x)) = n + 1
    BY <1>4, <1>12
  <2>3. \A k \in 1 .. n + 1 : Pending(r)[k] = Append(Pending(q), x)[k]
    BY <1>10, <1>11, <1>12, <2>1
  <2>4. QED
    BY <1>12, <2>2, <2>3, SeqEqual DEF r, x

\* Updating the youngest event changes the last element.
LEMMA UpdateOverwrites ==
    ASSUME NEW size \in Nat \ {0}, NEW E, NEW q \in Ring(size, E),
           NEW e \in E, ~IsEmpty(q)
    PROVE  Pending(Update(q, e)) = [Pending(q) EXCEPT ![Len(Pending(q))] = e]
<1> DEFINE r == Update(q, e)
           n == PendingEventCount(q)
           last == PreviousSlot(q, q.nextEventIndex)
<1>1. last \in 0 .. size - 1
  BY SlotsInRange DEF Ring, RingType
<1>2. /\ r \in Ring(size, E)
      /\ r.currentEventIndex = q.currentEventIndex
      /\ r.eventQueueSize = q.eventQueueSize
      /\ r.nextEventIndex = q.nextEventIndex
      /\ r.overflow = q.overflow
      /\ r.eventQueue = [q.eventQueue EXCEPT ![last] = e]
  BY <1>1 DEF Ring, RingType, RingConsistent, Update
<1> HIDE DEF r
<1>3. n \in 1 .. size /\ PendingEventCount(r) = n /\ PendingSlot(q, n) = last
  <2>1. n \in 1 .. size /\ PendingSlot(q, n) = last
    BY LastPending, PendingIsSeq
  <2>2. PendingEventCount(r) = n
    BY <1>2 DEF PendingEventCount
  <2>3. QED
    BY <2>1, <2>2
<1>4. \A k \in 1 .. size : PendingSlot(r, k) = PendingSlot(q, k)
  BY <1>2 DEF PendingSlot
<1>5. ASSUME NEW k \in 1 .. n
      PROVE  Pending(r)[k] = IF k = n THEN e ELSE Pending(q)[k]
  <2>1. /\ Pending(r)[k] = r.eventQueue[PendingSlot(r, k)]
        /\ Pending(q)[k] = q.eventQueue[PendingSlot(q, k)]
        /\ PendingSlot(q, k) \in 0 .. size - 1
    <3>1. k \in 1 .. PendingEventCount(r)
      BY <1>3
    <3>2. QED
      BY <1>2, <3>1, PendingAt, RingFields
  <2>2. PendingSlot(q, k) = last <=> k = n
    BY <1>3, SlotsDiffer
  <2>3. PendingSlot(r, k) = PendingSlot(q, k)
    BY <1>3, <1>4
  <2>4. QED
    BY <1>1, <1>2, <2>1, <2>2, <2>3 DEF Ring, RingType
<1>6. /\ Pending(q) \in Seq(E) /\ Len(Pending(q)) = n
      /\ Pending(r) \in Seq(E) /\ Len(Pending(r)) = n
  BY <1>2, <1>3, PendingIsSeq
<1>7. QED
  <2> HIDE DEF n
  <2> DEFINE s == [Pending(q) EXCEPT ![Len(Pending(q))] = e]
  <2>1. s \in Seq(E) /\ Len(s) = n
    BY <1>3, <1>6
  <2>2. \A k \in 1 .. n : Pending(r)[k] = s[k]
    BY <1>3, <1>5, <1>6
  <2>3. QED
    BY <1>6, <2>1, <2>2, SeqEqual DEF r

\* Taking the current event removes the first element.
LEMMA DequeueIsTail ==
    ASSUME NEW size \in Nat \ {0}, NEW E, NEW q \in Ring(size, E), ~IsEmpty(q)
    PROVE  /\ Pending(q) # << >>
           /\ Pending(Dequeue(q)) = Tail(Pending(q))
<1> DEFINE r == Dequeue(q)
           n == PendingEventCount(q)
<1>1. /\ r \in Ring(size, E)
      /\ r.currentEventIndex = NextSlot(q, q.currentEventIndex)
      /\ r.eventQueueSize = q.eventQueueSize
      /\ r.nextEventIndex = q.nextEventIndex
      /\ r.overflow = FALSE
      /\ r.eventQueue = q.eventQueue
  BY DequeueKeepsRing DEF Ring, RingType, Dequeue
<1> HIDE DEF r
<1>2. n \in 1 .. size
  BY PendingCount
<1>3. PendingEventCount(r) = n - 1
  BY <1>1, <1>2 DEF Ring, RingType, RingConsistent, PendingEventCount, NextSlot, IsEmpty
<1>4. \A k \in 1 .. n - 1 : PendingSlot(r, k) = PendingSlot(q, k + 1)
  BY <1>1, <1>2 DEF Ring, RingType, PendingSlot, NextSlot
<1>5. /\ Pending(q) \in Seq(E) /\ Len(Pending(q)) = n
      /\ Pending(r) \in Seq(E) /\ Len(Pending(r)) = n - 1
  BY <1>1, <1>3, PendingIsSeq
<1>6. ASSUME NEW k \in 1 .. n - 1 PROVE Pending(r)[k] = Pending(q)[k + 1]
  <2>1. Pending(r)[k] = r.eventQueue[PendingSlot(r, k)]
    BY <1>1, <1>3, PendingAt
  <2>2. k + 1 \in 1 .. n
    BY <1>2
  <2>3. Pending(q)[k + 1] = q.eventQueue[PendingSlot(q, k + 1)]
    BY <2>2, PendingAt
  <2>4. QED
    BY <1>1, <1>4, <2>1, <2>3
<1>7. QED
  <2> HIDE DEF n
  <2>1. Pending(q) # << >>
    BY <1>2, <1>5
  <2>2. /\ Tail(Pending(q)) \in Seq(E)
        /\ Len(Tail(Pending(q))) = n - 1
        /\ \A k \in 1 .. n - 1 : Tail(Pending(q))[k] = Pending(q)[k + 1]
    BY <1>2, <1>5, <2>1
  <2>3. QED
    BY <1>5, <1>6, <2>1, <2>2, SeqEqual DEF r

\* An event updates the youngest pending one exactly when it has its code and
\* need not take a slot: not forced, or a TIMEOUT while there is room.
LEMMA CompressesYoungest ==
    ASSUME NEW size \in Nat \ {0}, NEW E, NEW q \in Ring(size, E),
           NEW force \in BOOLEAN, NEW e \in E
    PROVE  Compresses(q, force, e) <=>
               /\ Pending(q) # << >>
               /\ Pending(q)[Len(Pending(q))].code = e.code
               /\ ~force \/ (e.code = TIMEOUT /\ Len(Pending(q)) < size)
<1> DEFINE n == Len(Pending(q))
<1>1. /\ Pending(q) \in Seq(E)
      /\ n = 0 <=> IsEmpty(q)
      /\ n < size <=> ~q.overflow
  BY PendingIsSeq, PendingCount
<1>2. Pending(q) # << >> <=> ~IsEmpty(q)
  BY <1>1
<1>3. ~IsEmpty(q) =>
          Pending(q)[n] = q.eventQueue[PreviousSlot(q, q.nextEventIndex)]
  BY LastPending
<1>4. ~Forced(q, force, e.code) <=>
          ~IsEmpty(q) /\ (~force \/ (e.code = TIMEOUT /\ ~q.overflow))
  BY RingFields DEF Forced, IsEmpty
<1>5. QED
  BY <1>1, <1>2, <1>3, <1>4 DEF Compresses

\* What a queueing call does to the pending events: the youngest is updated, or
\* one is added behind them, another one than e if e misses the ring, or the
\* ring is full and nothing happens.
LEMMA EnqueuePending ==
    ASSUME NEW size \in Nat \ {0}, NEW E, NEW q \in Ring(size, E),
           NEW force \in BOOLEAN, NEW e \in E
    PROVE  \/ /\ Compresses(q, force, e) /\ ~Misses(q, force, e)
              /\ Pending(Enqueue(q, force, e))
                    = [Pending(q) EXCEPT ![Len(Pending(q))] = e]
           \/ /\ ~Compresses(q, force, e) /\ ~Misses(q, force, e)
              /\ Len(Pending(q)) < size
              /\ Pending(Enqueue(q, force, e)) = Append(Pending(q), e)
           \/ /\ Misses(q, force, e)
              /\ Pending(q) # << >> /\ Len(Pending(q)) < size
              /\ \E x \in E : Pending(Enqueue(q, force, e)) = Append(Pending(q), x)
           \/ /\ ~Compresses(q, force, e) /\ ~Misses(q, force, e)
              /\ Len(Pending(q)) = size
              /\ Enqueue(q, force, e) = q
<1> DEFINE slot == StoreSlot(q, force, e)
<1>1. /\ Len(Pending(q)) \in 0 .. size
      /\ Len(Pending(q)) < size <=> ~q.overflow
      /\ Pending(q) = << >> => IsEmpty(q)
  BY PendingIsSeq, PendingCount
<1>2. CASE Compresses(q, force, e)
  <2>1. ~IsEmpty(q)
    BY <1>2 DEF Compresses, Forced, IsEmpty
  <2>2. QED
    BY <1>2, <2>1, UpdateOverwrites DEF Enqueue, Misses, TakesSlot
<1>3. CASE ~Compresses(q, force, e) /\ ~q.overflow
  <2>1. Enqueue(q, force, e) = Store(q, slot, e)
    BY <1>3 DEF Enqueue
  <2>2. /\ q.nextEventIndex \in 0 .. size - 1
        /\ q.eventQueueSize = size
        /\ q.eventQueue[q.nextEventIndex] \in E
    <3>1. q.eventQueue \in [0 .. size - 1 -> E] /\ q.nextEventIndex \in 0 .. size - 1
      BY RingFields
    <3>2. QED
      BY <3>1, RingFields
  <2>3. slot \in {q.nextEventIndex, size}
    BY <2>2 DEF StoreSlot
  <2>4. /\ Misses(q, force, e) <=> slot = size
        /\ slot = size => ~IsEmpty(q)
    BY <1>3, <2>2 DEF Misses, TakesSlot, StoreSlot, Forced, IsEmpty
  <2>5. Pending(Enqueue(q, force, e)) =
            Append(Pending(q), IF slot = size THEN q.eventQueue[q.nextEventIndex] ELSE e)
    BY <1>3, <2>1, <2>3, StoreAppends
  <2> HIDE DEF slot
  <2>6. QED
    BY <1>1, <1>3, <2>2, <2>4, <2>5
<1>4. CASE ~Compresses(q, force, e) /\ q.overflow
  BY <1>1, <1>4 DEF Enqueue, Misses, TakesSlot
<1>5. QED
  BY <1>2, <1>3, <1>4
=============================================================================
