------------------------------ MODULE OfsmRing ------------------------------
(***************************************************************************)
(* The event queue of one OFSMGroup: a circular buffer of eventQueueSize   *)
(* slots with two indices and the BUFFER_OVERFLOW flag that tells a full   *)
(* buffer from an empty one (the indices are equal in both).               *)
(*                                                                         *)
(* This module holds values and operators only; the atomic blocks of       *)
(* _ofsm_queue_group_event and _ofsm_group_process_pending_event are the   *)
(* operators Enqueue and Dequeue.  A slot that was processed keeps its     *)
(* event, as it does in the code: a write that goes past the end of the    *)
(* queue leaves such an old event to be processed again.                   *)
(***************************************************************************)
EXTENDS Naturals, Sequences

\* Event code 0 is reserved for the TIMEOUT / state-entering event.
TIMEOUT == 0

\* The group as OFSM_DECLARE_GROUP_n leaves it: a zeroed event queue.
EmptyRing(size, zeroEvent) ==
    [eventQueue        |-> [i \in 0 .. size - 1 |-> zeroEvent],
     eventQueueSize    |-> size,
     nextEventIndex    |-> 0,
     currentEventIndex |-> 0,
     overflow          |-> FALSE]

RingType(size, Event) ==
    [eventQueue        : [0 .. size - 1 -> Event],
     eventQueueSize    : {size},
     nextEventIndex    : 0 .. size - 1,
     currentEventIndex : 0 .. size - 1,
     overflow          : BOOLEAN]

\* A plausible fault, for the runs to catch: an index one past the end.
NextSlot_late(q, i) == IF i + 1 > q.eventQueueSize THEN 0 ELSE i + 1

NextSlot(q, i) == IF i + 1 >= q.eventQueueSize THEN 0 ELSE i + 1
PreviousSlot(q, i) == IF i = 0 THEN q.eventQueueSize - 1 ELSE i - 1

IsEmpty(q) == q.currentEventIndex = q.nextEventIndex /\ ~q.overflow

\* A plausible fault: the caller decides for a TIMEOUT too.
Forced_asAsked(q, forceNewEvent, eventCode) ==
    forceNewEvent \/ (q.nextEventIndex = q.currentEventIndex /\ ~q.overflow)

\* forceNewEvent after the adjustments at the head of the atomic block: an
\* empty queue always takes a new slot, a TIMEOUT never asks for one.
Forced(q, forceNewEvent, eventCode) ==
    IF q.overflow THEN forceNewEvent
    ELSE \/ q.nextEventIndex = q.currentEventIndex
         \/ forceNewEvent /\ eventCode # TIMEOUT

\* A plausible fault: the youngest event is overwritten whatever its code.
Compresses_anyCode(q, forceNewEvent, e) == ~Forced(q, forceNewEvent, e.code)

\* The event updates the youngest queued event instead of taking a slot.
Compresses(q, forceNewEvent, e) ==
    /\ ~Forced(q, forceNewEvent, e.code)
    /\ q.eventQueue[PreviousSlot(q, q.nextEventIndex)].code = e.code

\* The event takes a slot of its own, and EVENT_QUEUED is raised.
TakesSlot(q, forceNewEvent, e) ==
    ~Compresses(q, forceNewEvent, e) /\ ~q.overflow

\* The slot the event is stored in.  Looking at the youngest event from slot 0
\* turns copyNextEventIndex into eventQueueSize, and there it stays.
StoreSlot(q, forceNewEvent, e) ==
    IF q.nextEventIndex = 0 /\ ~Forced(q, forceNewEvent, e.code)
    THEN q.eventQueueSize ELSE q.nextEventIndex

\* The event is written one slot past the end of the queue.
Misses(q, forceNewEvent, e) ==
    /\ TakesSlot(q, forceNewEvent, e)
    /\ StoreSlot(q, forceNewEvent, e) = q.eventQueueSize

Store(q, slot, e) ==
    [q EXCEPT !.eventQueue = IF slot < q.eventQueueSize
                             THEN [@ EXCEPT ![slot] = e] ELSE @,
              !.nextEventIndex = NextSlot(q, q.nextEventIndex),
              !.overflow = NextSlot(q, q.nextEventIndex) = q.currentEventIndex]

Update(q, e) ==
    [q EXCEPT !.eventQueue[PreviousSlot(q, q.nextEventIndex)] = e]

Enqueue(q, forceNewEvent, e) ==
    IF Compresses(q, forceNewEvent, e) THEN Update(q, e)
    ELSE IF q.overflow THEN q
    ELSE Store(q, StoreSlot(q, forceNewEvent, e), e)

\* What a write past the end of the queue before it in memory does to a queue.
Trample(q, e) == [q EXCEPT !.eventQueue[0] = e]

CurrentEvent(q) == q.eventQueue[q.currentEventIndex]

Dequeue(q) ==
    [q EXCEPT !.currentEventIndex = NextSlot(q, q.currentEventIndex),
              !.overflow = FALSE]

\* A plausible fault: "nextEventIndex points further in the queue" without
\* regard to the wrap.
MorePending_noWrap(q) == q.currentEventIndex < q.nextEventIndex

\* After a removal: other events are pending, EVENT_QUEUED is to be raised.
MorePending(q) == q.currentEventIndex # q.nextEventIndex

\* grpPendingEventCount of the status report.
PendingEventCount(q) ==
    IF q.overflow \/ q.nextEventIndex < q.currentEventIndex
    THEN q.eventQueueSize - (q.currentEventIndex - q.nextEventIndex)
    ELSE q.nextEventIndex - q.currentEventIndex

\* The slot of the k-th pending event, counted from the oldest.
PendingSlot(q, k) ==
    IF q.currentEventIndex + k - 1 >= q.eventQueueSize
    THEN q.currentEventIndex + k - 1 - q.eventQueueSize
    ELSE q.currentEventIndex + k - 1

\* The pending events, oldest first.
Pending(q) == [k \in 1 .. PendingEventCount(q) |-> q.eventQueue[PendingSlot(q, k)]]

\* The overflow flag is exactly "full": raised only with equal indices.
RingConsistent(q) == q.overflow => q.nextEventIndex = q.currentEventIndex
=============================================================================
