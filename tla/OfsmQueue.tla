------------------------------ MODULE OfsmQueue -----------------------------
(***************************************************************************)
(* One group's event queue between those who queue events (interrupt       *)
(* handlers, event handlers, the timeout check) and the main loop that     *)
(* takes them, with the EVENT_QUEUED flag through which they signal.       *)
(*                                                                         *)
(* The main loop is seen from the queue: it lowers EVENT_QUEUED at the     *)
(* head of a pass, takes at most one event during the pass, and then goes  *)
(* by the flag alone to repeat the pass or to sleep.  A queueing call can  *)
(* come between any two of these steps.                                    *)
(***************************************************************************)
EXTENDS OfsmRing

CONSTANTS QueueSize,    \* eventQueueSize of the group
          EventCode,    \* the event codes in use, TIMEOUT among them
          EventData,    \* the event data values
          NoData        \* the data of a zeroed slot

Event == [code : EventCode, data : EventData]

ASSUME QueueSizeAssumption == QueueSize \in Nat \ {0}
ASSUME EventAssumption == TIMEOUT \in EventCode /\ NoData \in EventData

VARIABLES group,        \* the ring of the OFSMGroup
          eventQueued,  \* _OFSM_FLAG_OFSM_EVENT_QUEUED
          pc            \* the main loop: "pass", "dequeue", "decide", "asleep"

vars == << group, eventQueued, pc >>

zeroEvent == [code |-> TIMEOUT, data |-> NoData]

Init ==
    /\ group = EmptyRing(QueueSize, zeroEvent)
    /\ eventQueued = FALSE
    /\ pc = "pass"

\* _ofsm_queue_group_event: one atomic block, whoever calls it.
QueueGroupEvent(forceNewEvent, e) ==
    /\ group' = Enqueue(group, forceNewEvent, e)
    /\ eventQueued' = (eventQueued \/ TakesSlot(group, forceNewEvent, e))
    /\ UNCHANGED pc

\* The atomic block at the head of a pass of _ofsm_start.
StartPass ==
    /\ pc = "pass"
    /\ eventQueued' = FALSE
    /\ pc' = "dequeue"
    /\ UNCHANGED group

\* The atomic block of _ofsm_group_process_pending_event.
TakeEvent ==
    /\ pc = "dequeue"
    /\ \/ IsEmpty(group) /\ UNCHANGED << group, eventQueued >>
       \/ /\ ~IsEmpty(group)
          /\ group' = Dequeue(group)
          /\ eventQueued' = (eventQueued \/ MorePending(group'))
    /\ pc' = "decide"

\* The flag alone decides between another pass and sleep.
Decide ==
    /\ pc = "decide"
    /\ pc' = IF eventQueued THEN "pass" ELSE "asleep"
    /\ UNCHANGED << group, eventQueued >>

\* Sleep ends only for a queued event.
WakeUp ==
    /\ pc = "asleep"
    /\ eventQueued
    /\ pc' = "pass"
    /\ UNCHANGED << group, eventQueued >>

MainLoop == StartPass \/ TakeEvent \/ Decide \/ WakeUp

Next ==
    \/ MainLoop
    \/ \E force \in BOOLEAN, e \in Event : QueueGroupEvent(force, e)

\* The main loop runs whenever it can; nobody has to queue anything.
Spec == Init /\ [][Next]_vars /\ WF_vars(MainLoop)

-----------------------------------------------------------------------------

\* The indices stay inside the buffer and the flags are flags.
TypeOK ==
    /\ group \in RingType(QueueSize, Event)
    /\ eventQueued \in BOOLEAN
    /\ pc \in {"pass", "dequeue", "decide", "asleep"}

\* An event nobody will look at: outside of the stretch between the head of a
\* pass and the queue's turn in it, a pending event always has EVENT_QUEUED
\* raised, whatever was queued, compressed or dropped in the meantime
\* (compressing does not raise the flag, so it must be up already).
PendingIsSignalled ==
    ~IsEmpty(group) => eventQueued \/ pc = "dequeue"

Fifo == INSTANCE OfsmFifo WITH pending <- Pending(group),
                               Capacity <- QueueSize,
                               TimeoutCode <- TIMEOUT

\* The circular buffer keeps the weaker promise of a bounded FIFO: order kept,
\* only the youngest event overwritten, nothing dropped before it is full.
ImplementsWeakFifo == Fifo!WeakSpec

\* Every queueing call is the Put of its own event, except for the calls that
\* write past the end of the buffer; every removal takes the oldest event.
CallsArePutsUnlessMissed ==
    [][ /\ \A force \in BOOLEAN, e \in Event :
              QueueGroupEvent(force, e) =>
                  IF Misses(group, force, e) THEN Fifo!PutAny ELSE Fifo!Put(force, e)
        /\ TakeEvent /\ ~IsEmpty(group) => Fifo!Get ]_vars

\* No event is left behind: whatever is queued behind it, and whenever, the
\* oldest pending event is taken in the end (the current index moves on).
OldestIsTaken ==
    \A i \in 0 .. QueueSize - 1 :
        (group.currentEventIndex = i /\ ~IsEmpty(group))
            ~> group.currentEventIndex # i
=============================================================================
