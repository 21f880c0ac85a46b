-------------------------------- MODULE Ofsm --------------------------------
(***************************************************************************)
(* The orchestra: the main loop of _ofsm_start, the groups and FSMs it     *)
(* drives, the interrupt handlers that queue events and the heartbeat that *)
(* advances time, at the granularity of the code's atomic blocks.          *)
(*                                                                         *)
(* An interrupt or a heartbeat can come between any two steps of the main  *)
(* loop and between any two queueing calls of an event handler.  Event     *)
(* handlers are the application's: their effect on the library (delays,    *)
(* prevention, the events they queue) is chosen from a constant.           *)
(***************************************************************************)
EXTENDS OfsmRing, OfsmTime

CONSTANTS
    Fsm,            \* the state machines
    GroupFsms,      \* per group, the sequence of its FSMs (FSMs may be shared)
    QueueSize,      \* per group, eventQueueSize
    QueueAfter,     \* per group, the group whose event queue comes next in
                    \* memory in this build (0: something else does)
    State,          \* states of all FSMs
    EventCode,      \* event codes, TIMEOUT among them
    EventData,
    NoData,         \* the data of a zeroed slot and of a TIMEOUT
    NoSkip,         \* (uint8_t)-1, the reset value of skipNextEventCode
    NullHandler,    \* a 0 entry of a transition table
    NopHandler,     \* OFSM_NOP_HANDLER
    Table,          \* Table[f][s][e] = [eventHandler, newState]
    InitialState,   \* per FSM
    Effects,        \* per handler, what a run of it may ask of the library
    DefaultDelay,   \* OFSM_CONFIG_DEFAULT_STATE_TRANSITION_DELAY
    InterruptEvents,\* the queueing calls that interrupt handlers make
    MaxInterrupts,  \* bound: queueing calls made by interrupts in a run
    MaxTick,        \* bound: ticks by which one heartbeat advances time
    Horizon         \* bound: ticks in a run

Groups == 1 .. Len(GroupFsms)
OwnGroup == 0   \* target of a call made with fsm_queue_group_event...

Event == [code : EventCode, data : EventData]
TimeoutEvent == [code |-> TIMEOUT, data |-> NoData]

\* One queueing call: ofsm_queue_global_event is one such call per group.
Call == [group : Groups \cup {OwnGroup}, force : BOOLEAN, event : Event,
         exclude : BOOLEAN]

\* What a handler asks for through the fsm_... macros.
Effect == {x \in [prevent : BOOLEAN, infinite : BOOLEAN, deep : BOOLEAN,
                  setDelay : BOOLEAN, delay : 0 .. MaxTime, calls : Seq(Call)] :
              ~x.setDelay => x.delay = 0}

NoEffect == [prevent |-> FALSE, infinite |-> FALSE, deep |-> FALSE,
             setDelay |-> FALSE, delay |-> 0, calls |-> << >>]

\* _OFSM_FLAG_ALL: the flags an FSM, a group and the orchestra have in common.
CommonFlags == {"INFINITE_SLEEP", "SCHEDULED_TIME_OVERFLOW", "ALLOW_DEEP_SLEEP"}
OfsmFlags == CommonFlags \cup
    {"EVENT_QUEUED", "TIMER_OVERFLOW", "FIRST_ITERATION", "IN_PROCESS"}

ASSUME GroupsAssumption ==
    /\ Len(GroupFsms) \in Nat \ {0}
    /\ \A g \in Groups : /\ Len(GroupFsms[g]) \in Nat \ {0}
                         /\ \A i \in 1 .. Len(GroupFsms[g]) : GroupFsms[g][i] \in Fsm
                         /\ QueueSize[g] \in Nat \ {0}
                         /\ QueueAfter[g] \in (Groups \cup {0}) \ {g}
    /\ \A f \in Fsm : \E g \in Groups : \E i \in 1 .. Len(GroupFsms[g]) :
           GroupFsms[g][i] = f
ASSUME EventAssumption ==
    EventCode \subseteq Nat /\ TIMEOUT \in EventCode /\ NoData \in EventData
ASSUME FsmAssumption ==
    /\ NoSkip \notin EventCode
    /\ State # {}
    /\ \A f \in Fsm : InitialState[f] \in State
    /\ \A f \in Fsm, s \in State : TIMEOUT \in DOMAIN Table[f][s]
    /\ \A f \in Fsm, s \in State : \A c \in DOMAIN Table[f][s] :
           /\ Table[f][s][c].newState \in State
           /\ Table[f][s][c].eventHandler \notin {NullHandler, NopHandler}
                  => Effects[Table[f][s][c].eventHandler] \subseteq Effect
ASSUME BoundAssumption ==
    /\ DefaultDelay \in 0 .. MaxTime
    /\ InterruptEvents \subseteq {c \in Call : c.group # OwnGroup /\ ~c.exclude}
    /\ MaxInterrupts \in Nat /\ MaxTick \in Nat /\ Horizon \in Nat

VARIABLES
    queue,      \* per group, its ring of events
    fsm,        \* per FSM: flags, wakeup, currentState, skipNextEventCode
    flags,      \* _ofsmFlags
    wakeupTime, \* _ofsmWakeupTime
    clock,      \* ticks since start; _ofsmTime is Register(clock)
    pc,         \* where the main loop is
    loop,       \* locals of _ofsm_start: group index, accumulated flags and time
    visit,      \* locals of _ofsm_group_process_pending_event
    handling,   \* the event handler being run, and what it has left to do
    interrupts  \* queueing calls interrupts have made (bounded)

mainVars == << queue, fsm, flags, wakeupTime, pc, loop, visit, handling >>
vars == << mainVars, clock, interrupts >>

\* fsm[f].wakeup is the moment fsm->wakeupTime stands for; the code stores
\* Register of it, which is all that the comparisons below look at.

Idle == [newState |-> CHOOSE s \in State : TRUE, now |-> 0, effect |-> NoEffect]
NoVisit == [fsmIndex |-> 1, pending |-> FALSE, event |-> TimeoutEvent,
            flags |-> CommonFlags, earliest |-> MaxTime]
FreshLoop(g) == [group |-> g, flags |-> CommonFlags, earliest |-> MaxTime]

Init ==
    /\ queue = [g \in Groups |-> EmptyRing(QueueSize[g], TimeoutEvent)]
    /\ fsm = [f \in Fsm |-> [flags |-> {"INFINITE_SLEEP"}, wakeup |-> 0,
                             currentState |-> InitialState[f],
                             skipNextEventCode |-> NoSkip]]
    /\ flags = {"INFINITE_SLEEP", "FIRST_ITERATION"}
    /\ wakeupTime = 0
    /\ clock = 0
    /\ pc \in {"pass", "timeout"} \* loop() may queue a global TIMEOUT first
    /\ loop = FreshLoop(1)
    /\ visit = NoVisit
    /\ handling = Idle
    /\ interrupts = 0

-----------------------------------------------------------------------------
(* Queueing *)

Raise(fs, b) == IF b THEN fs \cup {"EVENT_QUEUED"} ELSE fs

\* _ofsm_queue_group_event, one atomic block.  An event that misses its queue
\* is written to the first slot of the queue behind it.
QueueGroupEvent(g, force, e) ==
    /\ queue' = [h \in Groups |->
                    IF h = g THEN Enqueue(queue[g], force, e)
                    ELSE IF h = QueueAfter[g] /\ Misses(queue[g], force, e)
                    THEN Trample(queue[h], e)
                    ELSE queue[h]]
    /\ flags' = Raise(flags, TakesSlot(queue[g], force, e))

\* A TIMEOUT for one of the groups gs misses its queue and hits that of h.
\* (Whether it misses does not depend on what hit slot 0 of its own queue.)
HitFrom(gs, h) ==
    \E g \in gs : QueueAfter[g] = h /\ Misses(queue[g], FALSE, TimeoutEvent)

TrampleIf(b, q) == IF b THEN Trample(q, TimeoutEvent) ELSE q
BeforeTimeout(h) == TrampleIf(HitFrom(1 .. h - 1, h), queue[h])

\* ofsm_queue_global_event(false, 0, 0) inside one atomic block: one group
\* after the other.
QueueGlobalTimeout(fs) ==
    /\ queue' = [h \in Groups |->
                    TrampleIf(HitFrom(h + 1 .. Len(GroupFsms), h),
                              Enqueue(BeforeTimeout(h), FALSE, TimeoutEvent))]
    /\ flags' = Raise(fs, \E h \in Groups :
                              TakesSlot(BeforeTimeout(h), FALSE, TimeoutEvent))

\* An interrupt handler queues an event.
Interrupt ==
    /\ interrupts < MaxInterrupts
    /\ \E c \in InterruptEvents : QueueGroupEvent(c.group, c.force, c.event)
    /\ interrupts' = interrupts + 1
    /\ UNCHANGED << fsm, wakeupTime, clock, pc, loop, visit, handling >>

\* ofsm_heartbeat with _ofsm_check_timeout, one atomic block.
Heartbeat(ticks) ==
    /\ clock + ticks <= Horizon
    /\ clock' = clock + ticks
    /\ LET wrapped == Register(clock') < Register(clock)
           fs == IF wrapped THEN flags \cup {"TIMER_OVERFLOW"} ELSE flags
       IN  IF /\ fs \cap {"IN_PROCESS", "INFINITE_SLEEP"} = {}
              /\ _OFSM_TIME_A_GTE_B(
                     Register(clock'), "TIMER_OVERFLOW" \in fs,
                     wakeupTime, "SCHEDULED_TIME_OVERFLOW" \in fs)
           THEN QueueGlobalTimeout(fs)
           ELSE flags' = fs /\ UNCHANGED queue
    /\ UNCHANGED << fsm, wakeupTime, pc, loop, visit, handling, interrupts >>

-----------------------------------------------------------------------------
(* A pass of the main loop *)

\* The atomic block at the head of the loop.
StartPass ==
    /\ pc = "pass"
    /\ flags' = (flags \cup {"IN_PROCESS"}) \ {"EVENT_QUEUED"}
    /\ loop' = FreshLoop(1)
    /\ pc' = "dequeue"
    /\ UNCHANGED << queue, fsm, wakeupTime, visit, handling, clock, interrupts >>

\* The atomic block of _ofsm_group_process_pending_event.
DequeueEvent ==
    /\ pc = "dequeue"
    /\ LET g == loop.group
           q == queue[g]
       IN  IF IsEmpty(q)
           THEN visit' = NoVisit /\ UNCHANGED << queue, flags >>
           ELSE LET r == Dequeue(q) IN
                /\ queue' = [queue EXCEPT ![g] = r]
                /\ visit' = [NoVisit EXCEPT !.pending = TRUE, !.event = CurrentEvent(q)]
                /\ flags' = Raise(flags, MorePending(r))
    /\ pc' = "fsm"
    /\ UNCHANGED << fsm, wakeupTime, loop, handling, clock, interrupts >>

CurrentFsm == GroupFsms[loop.group][visit.fsmIndex]

\* A plausible fault: the latest wakeup time is kept, not the earliest.
Sooner_swapped(acc, fs, time) ==
    /\ "INFINITE_SLEEP" \notin fs
    /\ _OFSM_TIME_A_GT_B(time, "SCHEDULED_TIME_OVERFLOW" \in fs,
                         acc.earliest, "SCHEDULED_TIME_OVERFLOW" \in acc.flags)

Sooner(acc, fs, time) ==
    /\ "INFINITE_SLEEP" \notin fs
    /\ _OFSM_TIME_A_GT_B(acc.earliest, "SCHEDULED_TIME_OVERFLOW" \in acc.flags,
                         time, "SCHEDULED_TIME_OVERFLOW" \in fs)

\* A plausible fault: the flags of the last one seen are kept.
Collect_lastWins(acc, fs, time) ==
    [acc EXCEPT !.flags = fs, !.earliest = IF Sooner(acc, fs, time) THEN time ELSE @]

\* What the group, and the loop, keep of what they have seen: the earliest
\* wakeup time of those not in infinite sleep, and the flags all agree on.
Collect(acc, fs, time) ==
    [acc EXCEPT !.flags = @ \cap fs,
                !.earliest = IF Sooner(acc, fs, time) THEN time ELSE @]

\* The rest of an FSM's turn: its flags and wakeup time are collected and the
\* turn goes to the next FSM, the next group, or to the end of the pass.
EndTurn(f, newFsm) ==
    LET seen == Collect(visit, newFsm.flags, Register(newFsm.wakeup))
        total == Collect(loop, seen.flags, seen.earliest)
        lastFsm == visit.fsmIndex = Len(GroupFsms[loop.group])
        lastGroup == loop.group = Len(GroupFsms)
    IN  /\ fsm' = [fsm EXCEPT ![f] = newFsm]
        /\ IF ~lastFsm
           THEN /\ visit' = [seen EXCEPT !.fsmIndex = @ + 1]
                /\ pc' = "fsm"
                /\ UNCHANGED loop
           ELSE /\ visit' = NoVisit
                /\ loop' = IF lastGroup THEN total
                           ELSE [total EXCEPT !.group = @ + 1]
                /\ pc' = IF lastGroup THEN "decide" ELSE "dequeue"

AcceptsTimeout(f, s) == Table[f][s][TIMEOUT].eventHandler # NullHandler

\* The flags an FSM is left with by a transition to newState: infinite sleep if
\* that state has no TIMEOUT handler, the overflow flag if the wakeup time
\* that the handler set wraps (the default delay never sets it).
TransitionFlags(f, newState, now, effect) ==
    LET wraps == Register(Register(now) + effect.delay) < Register(now)
    IN  (IF effect.infinite \/ ~AcceptsTimeout(f, newState)
            THEN {"INFINITE_SLEEP"} ELSE {})
        \cup (IF effect.deep THEN {"ALLOW_DEEP_SLEEP"} ELSE {})
        \cup (IF AcceptsTimeout(f, newState) /\ effect.setDelay /\ wraps
                 THEN {"SCHEDULED_TIME_OVERFLOW"} ELSE {})

TransitionWakeup(f, newState, now, effect) ==
    IF ~AcceptsTimeout(f, newState) THEN effect.delay
    ELSE IF effect.setDelay THEN now + effect.delay
    ELSE now + DefaultDelay

\* The transition made after the handler, with the time taken before it.
Transition(f, newState, now, effect) ==
    [fsm[f] EXCEPT
        !.currentState = newState,
        !.flags = TransitionFlags(f, newState, now, effect),
        !.wakeup = TransitionWakeup(f, newState, now, effect)]

\* TIMEOUT is not for an FSM in infinite sleep (except on the first iteration)
\* nor for one whose wakeup time is still ahead.
SleepsThroughTimeout(f) ==
    \/ "INFINITE_SLEEP" \in fsm[f].flags /\ "FIRST_ITERATION" \notin flags
    \/ _OFSM_TIME_A_GT_B(
           Register(fsm[f].wakeup), "SCHEDULED_TIME_OVERFLOW" \in fsm[f].flags,
           Register(clock), "TIMER_OVERFLOW" \in flags)

\* A turn of an FSM in a group that has no event: only collects.
NoEvent(f) == ~visit.pending /\ EndTurn(f, fsm[f])

\* The event the FSM was told to skip: once, then the mark is gone.
SkipEvent(f) ==
    /\ visit.event.code = fsm[f].skipNextEventCode
    /\ EndTurn(f, [fsm[f] EXCEPT !.skipNextEventCode = NoSkip])

Row(f) == Table[f][fsm[f].currentState]

\* No column, no handler, or asleep.
IgnoreEvent(f) ==
    LET c == visit.event.code IN
    /\ \/ c \notin DOMAIN Row(f)
       \/ /\ c \in DOMAIN Row(f) /\ c # fsm[f].skipNextEventCode
          /\ \/ Row(f)[c].eventHandler = NullHandler
             \/ c = TIMEOUT /\ SleepsThroughTimeout(f)
    /\ EndTurn(f, fsm[f])

Accepts(f) ==
    LET c == visit.event.code IN
    /\ c \in DOMAIN Row(f)
    /\ c # fsm[f].skipNextEventCode
    /\ Row(f)[c].eventHandler # NullHandler
    /\ ~(c = TIMEOUT /\ SleepsThroughTimeout(f))

NopTransition(f) ==
    /\ Accepts(f)
    /\ Row(f)[visit.event.code].eventHandler = NopHandler
    /\ EndTurn(f, Transition(f, Row(f)[visit.event.code].newState, clock, NoEffect))

\* _ofsm_fsm_process_event up to the handler, or to its end without one.
ProcessEvent ==
    /\ pc = "fsm"
    /\ LET f == CurrentFsm IN
       \/ NoEvent(f)
       \/ visit.pending /\ visit.event.code \in DOMAIN Row(f) /\ SkipEvent(f)
       \/ visit.pending /\ IgnoreEvent(f)
       \/ visit.pending /\ NopTransition(f)
    /\ UNCHANGED << queue, flags, wakeupTime, handling, clock, interrupts >>

\* The handler starts: the time is taken, what it will ask for is chosen.
CallHandler ==
    /\ pc = "fsm" /\ visit.pending
    /\ LET f == CurrentFsm
           t == Row(f)[visit.event.code]
       IN  /\ Accepts(f)
           /\ t.eventHandler # NopHandler
           /\ \E effect \in Effects[t.eventHandler] :
                 handling' = [newState |-> t.newState, now |-> clock, effect |-> effect]
    /\ pc' = "handler"
    /\ UNCHANGED << queue, fsm, flags, wakeupTime, loop, visit, clock, interrupts >>

\* The handler makes its next queueing call; the exclude-self form marks the
\* event code to be skipped once the call has returned.
HandlerQueues ==
    /\ pc = "handler" /\ handling.effect.calls # << >>
    /\ LET c == Head(handling.effect.calls)
           g == IF c.group = OwnGroup THEN loop.group ELSE c.group
       IN  /\ QueueGroupEvent(g, c.force, c.event)
           /\ IF c.exclude
              THEN fsm' = [fsm EXCEPT ![CurrentFsm].skipNextEventCode = c.event.code]
              ELSE UNCHANGED fsm
    /\ handling' = [handling EXCEPT !.effect.calls = Tail(@)]
    /\ UNCHANGED << wakeupTime, pc, loop, visit, clock, interrupts >>

\* The handler returns: the FSM's flags and wakeup time are put back if it
\* asked to prevent the transition, else the transition is made.
HandlerReturns ==
    /\ pc = "handler" /\ handling.effect.calls = << >>
    /\ LET f == CurrentFsm IN
       EndTurn(f, IF handling.effect.prevent THEN fsm[f]
                  ELSE Transition(f, handling.newState, handling.now, handling.effect))
    /\ handling' = Idle
    /\ UNCHANGED << queue, flags, wakeupTime, clock, interrupts >>

-----------------------------------------------------------------------------
(* The end of a pass, and sleep *)

\* Repeat the pass, queue a timeout, or go to sleep.
Decide ==
    /\ pc = "decide"
    /\ pc' = IF "EVENT_QUEUED" \in flags THEN "pass"
             ELSE IF /\ "INFINITE_SLEEP" \notin loop.flags
                     /\ _OFSM_TIME_A_GTE_B(
                            Register(clock), "TIMER_OVERFLOW" \in flags,
                            loop.earliest, "SCHEDULED_TIME_OVERFLOW" \in loop.flags)
             THEN "timeout"
             ELSE "presleep"
    /\ loop' = IF pc' = "presleep" THEN loop ELSE FreshLoop(1)
    /\ UNCHANGED << queue, fsm, flags, wakeupTime, visit, handling, clock, interrupts >>

\* ofsm_queue_global_event(false, 0, 0), one group per step.
QueueTimeout ==
    /\ pc = "timeout"
    /\ QueueGroupEvent(loop.group, FALSE, TimeoutEvent)
    /\ IF loop.group = Len(GroupFsms)
       THEN loop' = FreshLoop(1) /\ pc' = "pass"
       ELSE loop' = [loop EXCEPT !.group = @ + 1] /\ UNCHANGED pc
    /\ UNCHANGED << fsm, wakeupTime, visit, handling, clock, interrupts >>

\* Plausible faults: an event queued since the loop looked is forgotten; the
\* heartbeat is shut out for good.
ClearedForSleep_event == {"FIRST_ITERATION", "IN_PROCESS", "EVENT_QUEUED"}
ClearedForSleep_busy == {"FIRST_ITERATION"}

ClearedForSleep == {"FIRST_ITERATION", "IN_PROCESS"}

\* The atomic block before sleep.
PrepareSleep ==
    /\ pc = "presleep"
    /\ wakeupTime' = loop.earliest
    /\ LET merged == (flags \ CommonFlags) \cup loop.flags
           bothOverflowed == {"TIMER_OVERFLOW", "SCHEDULED_TIME_OVERFLOW"} \subseteq merged
           timeReset == IF "INFINITE_SLEEP" \in merged \/ bothOverflowed
                        THEN {"TIMER_OVERFLOW", "SCHEDULED_TIME_OVERFLOW"} ELSE {}
       IN  flags' = merged \ (timeReset \cup ClearedForSleep)
    /\ loop' = FreshLoop(1)
    /\ pc' = "asleep"
    /\ UNCHANGED << queue, fsm, visit, handling, clock, interrupts >>

\* The contract of the sleep function on an MCU: it returns, with IN_PROCESS
\* set, when and only when EVENT_QUEUED is up.
WakeUp ==
    /\ pc = "asleep"
    /\ "EVENT_QUEUED" \in flags
    /\ flags' = flags \cup {"IN_PROCESS"}
    /\ pc' = "pass"
    /\ UNCHANGED << queue, fsm, wakeupTime, loop, visit, handling, clock, interrupts >>

MainLoop ==
    \/ StartPass \/ DequeueEvent \/ ProcessEvent
    \/ CallHandler \/ HandlerQueues \/ HandlerReturns
    \/ Decide \/ QueueTimeout \/ PrepareSleep \/ WakeUp

Next == MainLoop \/ Interrupt \/ \E ticks \in 0 .. MaxTick : Heartbeat(ticks)

Spec == Init /\ [][Next]_vars

\* The main loop runs whenever it can; the heartbeat keeps coming, even when
\* it finds the same tick.  No interrupt has to happen.
FairSpec ==
    /\ Spec
    /\ WF_vars(MainLoop)
    /\ WF_vars(\E ticks \in 0 .. MaxTick : Heartbeat(ticks))

-----------------------------------------------------------------------------

\* Indices, flags and times are what their C types and uses allow.
TypeOK ==
    /\ queue = [g \in Groups |-> queue[g]]
    /\ \A g \in Groups : queue[g] \in RingType(QueueSize[g], Event)
    /\ fsm \in [Fsm -> [flags : SUBSET CommonFlags, wakeup : Nat,
                        currentState : State,
                        skipNextEventCode : EventCode \cup {NoSkip}]]
    /\ flags \subseteq OfsmFlags
    /\ wakeupTime \in 0 .. MaxTime
    /\ clock \in 0 .. Horizon
    /\ pc \in {"pass", "dequeue", "fsm", "handler", "decide", "timeout",
               "presleep", "asleep"}
    /\ loop \in [group : Groups, flags : SUBSET CommonFlags, earliest : 0 .. MaxTime]
    /\ visit \in [fsmIndex : Nat, pending : BOOLEAN, event : Event,
                  flags : SUBSET CommonFlags, earliest : 0 .. MaxTime]
    /\ visit.fsmIndex \in 1 .. Len(GroupFsms[loop.group])
    /\ handling \in [newState : State, now : 0 .. Horizon, effect : Effect]
    /\ interrupts \in 0 .. MaxInterrupts

\* The groups whose turn in this pass is still to come.
Unvisited ==
    {g \in Groups : \/ pc = "dequeue" /\ g >= loop.group
                    \/ pc \in {"fsm", "handler"} /\ g > loop.group}

\* No event is out of sight: a group's pending event either has its turn still
\* to come in this pass or EVENT_QUEUED is up, whatever interrupts, heartbeats
\* and handlers queued into whichever group, before or after its turn.
PendingIsSignalled ==
    \A g \in Groups :
        ~IsEmpty(queue[g]) => g \in Unvisited \/ "EVENT_QUEUED" \in flags

Asleep == pc = "asleep"
Finite(f) == "INFINITE_SLEEP" \notin fsm[f].flags
Due(f) == Finite(f) /\ fsm[f].wakeup <= clock

\* The run ends before the time register wraps.
NoWrap ==
    /\ Horizon + DefaultDelay <= MaxTime
    /\ \A f \in Fsm, s \in State : \A c \in DOMAIN Table[f][s] :
           Table[f][s][c].eventHandler \notin {NullHandler, NopHandler} =>
               \A effect \in Effects[Table[f][s][c].eventHandler] :
                   Horizon + effect.delay <= MaxTime

\* What the loop went to sleep with covers every FSM, in every group and of
\* whatever mix of finite and infinite sleeps: none that waits for a time is
\* taken for one in infinite sleep or is due before _ofsmWakeupTime.
WakeupCoversAll ==
    Asleep => \A f \in Fsm :
        Finite(f) => /\ "INFINITE_SLEEP" \notin flags
                     /\ wakeupTime <= fsm[f].wakeup

\* Deep sleep is entered only if every FSM agreed to it in the state it is in.
DeepSleepIsUnanimous ==
    (Asleep /\ "ALLOW_DEEP_SLEEP" \in flags) =>
        \A f \in Fsm : "ALLOW_DEEP_SLEEP" \in fsm[f].flags

\* A heartbeat that finds an FSM due while the loop sleeps leaves an event for
\* the loop to wake up to: no timeout is slept through, even if time moved
\* between the loop's last look at it and its going to sleep.
HeartbeatWakesDue ==
    [][ (Asleep /\ \E ticks \in 0 .. MaxTick : Heartbeat(ticks)) =>
            ((\E f \in Fsm : Due(f)') => "EVENT_QUEUED" \in flags') ]_vars

Fifo(g) == INSTANCE OfsmFifo WITH pending <- Pending(queue[g]),
                                  Capacity <- QueueSize[g],
                                  TimeoutCode <- TIMEOUT

\* An event for the group before g in memory would land in the queue of g.
Exposed(g) ==
    \E h \in Groups : /\ QueueAfter[h] = g
                      /\ \E force \in BOOLEAN, e \in Event : Misses(queue[h], force, e)

\* Between the interrupts, the heartbeat, the handlers and the loop every
\* group's queue stays a bounded FIFO: in whatever order they queue and take,
\* a step removes the oldest event, adds one behind the others, updates the
\* youngest, or drops the new one when the queue is full.  Only a write past
\* the end of a neighbour's queue can do anything else to it.
QueuesAreWeakFifos ==
    [][ \A g \in Groups :
            \/ Exposed(g)
            \/ UNCHANGED Pending(queue[g])
            \/ Fifo(g)!Next \/ Fifo(g)!PutAny ]_vars

\* A wakeup time that has come is acted upon: the FSM gets its TIMEOUT, or
\* another event moves it on, even if the queue was full of other events.
DueIsServed == \A f \in Fsm : Due(f) ~> ~Due(f)

\* Every queue is emptied in the end when the interrupts calm down.
QueuesDrain == \A g \in Groups : ~IsEmpty(queue[g]) ~> IsEmpty(queue[g])
=============================================================================
