----------------------------- MODULE Ofsm_proofs -----------------------------
(***************************************************************************)
(* Proofs about the orchestra, for every set of groups, FSMs, transition   *)
(* tables, queue sizes and handler effects, and for every bound.           *)
(***************************************************************************)
EXTENDS Ofsm, OfsmRing_proofs

-----------------------------------------------------------------------------
(* Constants *)

\* The time register holds values of its width.
LEMMA RegisterRange == \A t \in Nat : Register(t) \in 0 .. MaxTime
BY ModulusAssumption DEF Register, MaxTime

\* The greatest time is a natural number.
LEMMA MaxTimeType == MaxTime \in Nat
BY ModulusAssumption DEF MaxTime

\* A handler may ask for nothing.
LEMMA NoEffectType == NoEffect \in Effect
<1>1. << >> \in Seq(Call)
  OBVIOUS
<1>2. QED
  BY <1>1, MaxTimeType DEF NoEffect, Effect

\* The TIMEOUT that the library queues is an event.
LEMMA TimeoutEventType == TimeoutEvent \in Event
BY EventAssumption DEF TimeoutEvent, Event

\* The record of no handler has the type of one.
LEMMA IdleType ==
    Idle \in [newState : State, now : 0 .. Horizon, effect : Effect]
<1>1. (CHOOSE s \in State : TRUE) \in State
  BY FsmAssumption
<1>2. QED
  BY <1>1, NoEffectType, BoundAssumption DEF Idle

\* The locals of the loop and of a group visit, as they are initialised.
LEMMA FreshLocals ==
    /\ NoVisit \in [fsmIndex : Nat, pending : BOOLEAN, event : Event,
                    flags : SUBSET CommonFlags, earliest : 0 .. MaxTime]
    /\ NoVisit.fsmIndex = 1
    /\ 1 \in Groups
    /\ \A g \in Groups :
          /\ FreshLoop(g) \in [group : Groups, flags : SUBSET CommonFlags,
                               earliest : 0 .. MaxTime]
          /\ FreshLoop(g).group = g
          /\ 1 \in 1 .. Len(GroupFsms[g])
BY TimeoutEventType, MaxTimeType, GroupsAssumption DEF NoVisit, FreshLoop, Groups

-----------------------------------------------------------------------------
(* Queueing *)

QueuesOK ==
    /\ queue = [g \in Groups |-> queue[g]]
    /\ \A g \in Groups : queue[g] \in Ring(QueueSize[g], Event)

\* Whatever is pending after a queueing step was pending before it, or has
\* raised EVENT_QUEUED.
SignalsNew ==
    /\ flags \subseteq flags'
    /\ \A g \in Groups :
          ~IsEmpty(queue'[g]) => ~IsEmpty(queue[g]) \/ "EVENT_QUEUED" \in flags'

\* Queueing keeps the rings, whatever of it misses its ring.
LEMMA QueueGroupEventStep ==
    ASSUME QueuesOK, flags \subseteq OfsmFlags, NEW g \in Groups,
           NEW force \in BOOLEAN, NEW e \in Event, QueueGroupEvent(g, force, e)
    PROVE  QueuesOK' /\ flags' \subseteq OfsmFlags /\ SignalsNew
<1>1. /\ queue' = [h \in Groups |->
                      IF h = g THEN Enqueue(queue[g], force, e)
                      ELSE IF h = QueueAfter[g] /\ Misses(queue[g], force, e)
                      THEN Trample(queue[h], e)
                      ELSE queue[h]]
      /\ flags' = Raise(flags, TakesSlot(queue[g], force, e))
  BY DEF QueueGroupEvent
<1>2. \A h \in Groups : /\ QueueSize[h] \in Nat \ {0}
                        /\ queue[h] \in Ring(QueueSize[h], Event)
  BY GroupsAssumption DEF QueuesOK
<1>3. /\ Enqueue(queue[g], force, e) \in Ring(QueueSize[g], Event)
      /\ IsEmpty(queue[g]) => TakesSlot(queue[g], force, e)
  BY <1>2, EnqueueKeepsRing, EnqueueLeavesEvent
<1>4. ASSUME NEW h \in Groups
      PROVE  /\ queue'[h] \in Ring(QueueSize[h], Event)
             /\ h # g => (IsEmpty(queue'[h]) <=> IsEmpty(queue[h]))
  <2>1. /\ Trample(queue[h], e) \in Ring(QueueSize[h], Event)
        /\ IsEmpty(Trample(queue[h], e)) <=> IsEmpty(queue[h])
    BY <1>2, TrampleKeepsRing
  <2>2. QED
    BY <1>1, <1>2, <1>3, <2>1
<1>5. flags \subseteq flags' /\ flags' \subseteq OfsmFlags
  BY <1>1 DEF Raise, OfsmFlags
<1>6. IsEmpty(queue[g]) => "EVENT_QUEUED" \in flags'
  BY <1>1, <1>3 DEF Raise
<1>7. QED
  BY <1>1, <1>4, <1>5, <1>6 DEF QueuesOK, SignalsNew

\* A neighbour's stray TIMEOUT leaves a ring as empty or not as it was.
LEMMA TrampleIfKeepsRing ==
    ASSUME NEW size \in Nat \ {0}, NEW q \in Ring(size, Event), NEW b
    PROVE  /\ TrampleIf(b, q) \in Ring(size, Event)
           /\ IsEmpty(TrampleIf(b, q)) <=> IsEmpty(q)
BY TimeoutEventType, TrampleKeepsRing DEF TrampleIf

\* The same for the TIMEOUT that a heartbeat queues to all groups at once.
LEMMA QueueGlobalTimeoutStep ==
    ASSUME QueuesOK, NEW fs \in SUBSET OfsmFlags, flags \subseteq fs,
           QueueGlobalTimeout(fs)
    PROVE  QueuesOK' /\ flags' \subseteq OfsmFlags /\ SignalsNew
<1>1. /\ queue' = [h \in Groups |->
                      TrampleIf(HitFrom(h + 1 .. Len(GroupFsms), h),
                                Enqueue(BeforeTimeout(h), FALSE, TimeoutEvent))]
      /\ flags' = Raise(fs, \E h \in Groups :
                                TakesSlot(BeforeTimeout(h), FALSE, TimeoutEvent))
  BY DEF QueueGlobalTimeout
<1>2. ASSUME NEW h \in Groups
      PROVE  /\ queue'[h] \in Ring(QueueSize[h], Event)
             /\ IsEmpty(queue[h]) => "EVENT_QUEUED" \in flags'
  <2>1. QueueSize[h] \in Nat \ {0} /\ queue[h] \in Ring(QueueSize[h], Event)
    BY GroupsAssumption DEF QueuesOK
  <2>2. /\ BeforeTimeout(h) \in Ring(QueueSize[h], Event)
        /\ IsEmpty(BeforeTimeout(h)) <=> IsEmpty(queue[h])
    BY <2>1, TrampleIfKeepsRing DEF BeforeTimeout
  <2>3. /\ Enqueue(BeforeTimeout(h), FALSE, TimeoutEvent) \in Ring(QueueSize[h], Event)
        /\ IsEmpty(queue[h]) => TakesSlot(BeforeTimeout(h), FALSE, TimeoutEvent)
    BY <2>1, <2>2, TimeoutEventType, EnqueueKeepsRing, EnqueueLeavesEvent
  <2>4. queue'[h] \in Ring(QueueSize[h], Event)
    BY <1>1, <2>1, <2>3, TrampleIfKeepsRing
  <2>5. QED
    BY <1>1, <2>3, <2>4 DEF Raise
<1>3. flags \subseteq flags' /\ flags' \subseteq OfsmFlags
  BY <1>1 DEF Raise, OfsmFlags
<1>4. QED
  BY <1>1, <1>2, <1>3 DEF QueuesOK, SignalsNew

-----------------------------------------------------------------------------
(* The turn of an FSM *)

FsmRecord == [flags : SUBSET CommonFlags, wakeup : Nat, currentState : State,
              skipNextEventCode : EventCode \cup {NoSkip}]
LoopRecord == [group : Groups, flags : SUBSET CommonFlags, earliest : 0 .. MaxTime]
VisitRecord == [fsmIndex : Nat, pending : BOOLEAN, event : Event,
                flags : SUBSET CommonFlags, earliest : 0 .. MaxTime]

\* Collecting an FSM into its group's visit.
LEMMA CollectVisit ==
    ASSUME NEW acc \in VisitRecord, NEW fs \in SUBSET CommonFlags,
           NEW time \in 0 .. MaxTime
    PROVE  /\ Collect(acc, fs, time) \in VisitRecord
           /\ Collect(acc, fs, time).fsmIndex = acc.fsmIndex
BY DEF Collect, VisitRecord

\* Collecting a group into the pass.
LEMMA CollectLoop ==
    ASSUME NEW acc \in LoopRecord, NEW fs \in SUBSET CommonFlags,
           NEW time \in 0 .. MaxTime
    PROVE  /\ Collect(acc, fs, time) \in LoopRecord
           /\ Collect(acc, fs, time).group = acc.group
BY DEF Collect, LoopRecord

LocalsOK ==
    /\ fsm \in [Fsm -> FsmRecord]
    /\ loop \in LoopRecord
    /\ visit \in VisitRecord
    /\ visit.fsmIndex \in 1 .. Len(GroupFsms[loop.group])
    /\ pc \notin {"fsm", "handler"} => visit.fsmIndex = 1

\* The FSM at hand is one of the FSMs.
LEMMA CurrentFsmType ==
    ASSUME LocalsOK
    PROVE  CurrentFsm \in Fsm
BY GroupsAssumption DEF LocalsOK, LoopRecord, CurrentFsm

\* A transition leaves an FSM record.
LEMMA TransitionType ==
    ASSUME LocalsOK, NEW f \in Fsm, NEW s \in State, NEW now \in Nat,
           NEW effect \in Effect
    PROVE  Transition(f, s, now, effect) \in FsmRecord
<1>1. effect.delay \in Nat /\ DefaultDelay \in Nat
  BY MaxTimeType, BoundAssumption DEF Effect
<1>2. fsm[f] \in FsmRecord
  BY DEF LocalsOK
<1>3. TransitionFlags(f, s, now, effect) \in SUBSET CommonFlags
  BY DEF TransitionFlags, CommonFlags
<1>4. TransitionWakeup(f, s, now, effect) \in Nat
  BY <1>1 DEF TransitionWakeup
<1>5. QED
  BY <1>2, <1>3, <1>4 DEF Transition, FsmRecord

\* A turn ends in a proper place, and no group that waits for its turn is
\* passed over.
LEMMA EndTurnStep ==
    ASSUME LocalsOK, pc \in {"fsm", "handler"}, NEW f \in Fsm,
           NEW newFsm \in FsmRecord, EndTurn(f, newFsm)
    PROVE  /\ LocalsOK'
           /\ pc' \in {"fsm", "dequeue", "decide"}
           /\ \A g \in Groups : g \in Unvisited => g \in Unvisited'
<1> DEFINE seen == Collect(visit, newFsm.flags, Register(newFsm.wakeup))
           total == Collect(loop, seen.flags, seen.earliest)
           n == Len(GroupFsms[loop.group])
<1>1. /\ seen \in VisitRecord /\ seen.fsmIndex = visit.fsmIndex
      /\ seen.flags \in SUBSET CommonFlags /\ seen.earliest \in 0 .. MaxTime
  <2>1. newFsm.flags \in SUBSET CommonFlags /\ Register(newFsm.wakeup) \in 0 .. MaxTime
    BY RegisterRange DEF FsmRecord
  <2>2. seen \in VisitRecord /\ seen.fsmIndex = visit.fsmIndex
    BY <2>1, CollectVisit DEF LocalsOK
  <2>3. QED
    BY <2>2 DEF VisitRecord
<1>2. total \in LoopRecord /\ total.group = loop.group
  BY <1>1, CollectLoop DEF LocalsOK
<1>3. /\ loop.group \in Groups /\ n \in Nat \ {0} /\ visit.fsmIndex \in 1 .. n
      /\ Len(GroupFsms) \in Nat \ {0}
  BY GroupsAssumption DEF LocalsOK, LoopRecord
<1>4. fsm' \in [Fsm -> FsmRecord]
  BY DEF EndTurn, LocalsOK
<1> HIDE DEF seen, total
<1>5. CASE visit.fsmIndex # n
  <2>1. visit' = [seen EXCEPT !.fsmIndex = seen.fsmIndex + 1]
        /\ pc' = "fsm" /\ loop' = loop
    BY <1>5 DEF EndTurn, seen
  <2>2. visit' \in VisitRecord /\ visit'.fsmIndex \in 1 .. n
    BY <1>1, <1>3, <1>5, <2>1 DEF VisitRecord
  <2>3. QED
    BY <1>4, <2>1, <2>2 DEF LocalsOK, Unvisited
<1>6. CASE visit.fsmIndex = n /\ loop.group # Len(GroupFsms)
  <2>1. /\ visit' = NoVisit /\ pc' = "dequeue"
        /\ loop' = [total EXCEPT !.group = total.group + 1]
    BY <1>6 DEF EndTurn, seen, total
  <2>2. loop.group + 1 \in Groups
    BY <1>3, <1>6 DEF Groups
  <2>3. loop' \in LoopRecord /\ loop'.group = loop.group + 1
    BY <1>2, <2>1, <2>2 DEF LoopRecord
  <2>4. visit' \in VisitRecord /\ visit'.fsmIndex \in 1 .. Len(GroupFsms[loop'.group])
    BY <2>1, <2>2, <2>3, FreshLocals DEF VisitRecord
  <2>5. ASSUME NEW g \in Groups, g > loop.group PROVE g >= loop'.group
    BY <1>3, <2>3, <2>5 DEF Groups
  <2>6. QED
    BY <1>4, <2>1, <2>3, <2>4, <2>5, FreshLocals DEF LocalsOK, Unvisited
<1>7. CASE visit.fsmIndex = n /\ loop.group = Len(GroupFsms)
  <2>1. visit' = NoVisit /\ pc' = "decide" /\ loop' = total
    BY <1>7 DEF EndTurn, seen, total
  <2>2. visit' \in VisitRecord /\ visit'.fsmIndex \in 1 .. Len(GroupFsms[loop'.group])
    BY <1>2, <1>3, <2>1, FreshLocals DEF VisitRecord
  <2>3. \A g \in Groups : ~(g > loop.group)
    BY <1>3, <1>7 DEF Groups
  <2>4. QED
    BY <1>2, <1>4, <2>1, <2>2, <2>3, FreshLocals DEF LocalsOK, Unvisited
<1>8. QED
  BY <1>5, <1>6, <1>7

-----------------------------------------------------------------------------
(* The inductive invariant *)

IndInv ==
    /\ QueuesOK
    /\ LocalsOK
    /\ flags \subseteq OfsmFlags
    /\ wakeupTime \in 0 .. MaxTime
    /\ clock \in 0 .. Horizon
    /\ pc \in {"pass", "dequeue", "fsm", "handler", "decide", "timeout",
               "presleep", "asleep"}
    /\ handling \in [newState : State, now : 0 .. Horizon, effect : Effect]
    /\ interrupts \in 0 .. MaxInterrupts
    /\ PendingIsSignalled

\* A step that signals what it queues, and passes no waiting group over,
\* keeps every pending event in sight.
LEMMA StillSignalled ==
    ASSUME PendingIsSignalled, SignalsNew,
           \A g \in Groups : g \in Unvisited => g \in Unvisited'
    PROVE  PendingIsSignalled'
BY DEF PendingIsSignalled, SignalsNew

\* The declared and set up orchestra satisfies the invariant.
LEMMA InitIndInv == Init => IndInv
<1> SUFFICES ASSUME Init PROVE IndInv
  OBVIOUS
<1>1. ASSUME NEW g \in Groups
      PROVE  queue[g] \in Ring(QueueSize[g], Event) /\ IsEmpty(queue[g])
  <2>1. QueueSize[g] \in Nat \ {0} /\ queue[g] = EmptyRing(QueueSize[g], TimeoutEvent)
    BY GroupsAssumption DEF Init
  <2>2. QED
    BY <2>1, TimeoutEventType DEF EmptyRing, Ring, RingType, RingConsistent, IsEmpty
<1>2. QueuesOK /\ PendingIsSignalled
  BY <1>1 DEF Init, QueuesOK, PendingIsSignalled
<1>3. LocalsOK
  BY FreshLocals, FsmAssumption DEF Init, LocalsOK, LoopRecord, VisitRecord, FsmRecord, CommonFlags
<1>4. flags \subseteq OfsmFlags
  BY DEF Init, OfsmFlags, CommonFlags
<1>5. QED
  BY <1>2, <1>3, <1>4, IdleType, MaxTimeType, BoundAssumption DEF Init, IndInv

\* An interrupt handler's queueing call keeps it.
LEMMA InterruptStep == IndInv /\ Interrupt => IndInv'
<1> SUFFICES ASSUME IndInv, Interrupt PROVE IndInv'
  OBVIOUS
<1>1. PICK c \in InterruptEvents : QueueGroupEvent(c.group, c.force, c.event)
  BY DEF Interrupt
<1>2. c.group \in Groups /\ c.force \in BOOLEAN /\ c.event \in Event
  BY BoundAssumption DEF Call
<1>3. QueuesOK' /\ flags' \subseteq OfsmFlags /\ SignalsNew
  BY <1>1, <1>2, QueueGroupEventStep DEF IndInv
<1>4. /\ UNCHANGED << fsm, wakeupTime, clock, pc, loop, visit, handling >>
      /\ interrupts' \in 0 .. MaxInterrupts
  BY BoundAssumption DEF Interrupt, IndInv
<1>5. LocalsOK' /\ Unvisited' = Unvisited
  BY <1>4 DEF IndInv, LocalsOK, Unvisited
<1>6. PendingIsSignalled'
  BY <1>3, <1>5, StillSignalled DEF IndInv
<1>7. QED
  BY <1>3, <1>4, <1>5, <1>6 DEF IndInv

\* ofsm_heartbeat keeps it.
LEMMA HeartbeatStep ==
    ASSUME IndInv, NEW ticks \in 0 .. MaxTick, Heartbeat(ticks)
    PROVE  IndInv'
<1> DEFINE fs == IF Register(clock') < Register(clock)
                 THEN flags \cup {"TIMER_OVERFLOW"} ELSE flags
<1>1. fs \in SUBSET OfsmFlags /\ flags \subseteq fs
  BY DEF IndInv, OfsmFlags
<1>2. \/ QueueGlobalTimeout(fs)
      \/ flags' = fs /\ UNCHANGED queue
  BY DEF Heartbeat
<1> HIDE DEF fs
<1>3. QueuesOK' /\ flags' \subseteq OfsmFlags /\ SignalsNew
  <2>1. CASE QueueGlobalTimeout(fs)
    BY <1>1, <2>1, QueueGlobalTimeoutStep DEF IndInv
  <2>2. CASE flags' = fs /\ UNCHANGED queue
    BY <1>1, <2>2 DEF IndInv, QueuesOK, SignalsNew
  <2>3. QED
    BY <1>2, <2>1, <2>2
<1>4. /\ UNCHANGED << fsm, wakeupTime, pc, loop, visit, handling, interrupts >>
      /\ clock' \in 0 .. Horizon
  BY BoundAssumption DEF Heartbeat, IndInv
<1>5. LocalsOK' /\ Unvisited' = Unvisited
  BY <1>4 DEF IndInv, LocalsOK, Unvisited
<1>6. PendingIsSignalled'
  BY <1>3, <1>5, StillSignalled DEF IndInv
<1>7. QED
  BY <1>3, <1>4, <1>5, <1>6 DEF IndInv

\* The head of a pass keeps it: every group is still to come.
LEMMA StartPassStep == IndInv /\ StartPass => IndInv'
<1> SUFFICES ASSUME IndInv, StartPass PROVE IndInv'
  OBVIOUS
<1>1. LocalsOK'
  BY FreshLocals DEF IndInv, LocalsOK, StartPass, LoopRecord
<1>2. PendingIsSignalled'
  BY FreshLocals DEF StartPass, PendingIsSignalled, Unvisited, Groups
<1>3. QED
  BY <1>1, <1>2 DEF IndInv, StartPass, QueuesOK, OfsmFlags

\* A group's turn keeps it: what is left in its queue is signalled.
LEMMA DequeueEventStep == IndInv /\ DequeueEvent => IndInv'
<1> SUFFICES ASSUME IndInv, DequeueEvent PROVE IndInv'
  OBVIOUS
<1> DEFINE g == loop.group
           q == queue[g]
           r == Dequeue(q)
<1>1. g \in Groups /\ pc = "dequeue" /\ pc' = "fsm"
  BY DEF IndInv, LocalsOK, LoopRecord, DequeueEvent
<1>2. /\ QueueSize[g] \in Nat \ {0} /\ q \in Ring(QueueSize[g], Event)
      /\ 1 \in 1 .. Len(GroupFsms[g])
  BY <1>1, GroupsAssumption, FreshLocals DEF IndInv, QueuesOK
<1>3. UNCHANGED << fsm, wakeupTime, loop, handling, clock, interrupts >>
  BY DEF DequeueEvent
<1>4. g \notin Unvisited' /\ \A h \in Groups \ {g} : h \in Unvisited => h \in Unvisited'
  BY <1>1, <1>3 DEF Unvisited, Groups
<1>5. CASE IsEmpty(q)
  <2>1. visit' = NoVisit /\ UNCHANGED << queue, flags >>
    BY <1>5 DEF DequeueEvent
  <2>2. LocalsOK'
    BY <1>1, <1>2, <1>3, <2>1, FreshLocals DEF IndInv, LocalsOK, VisitRecord
  <2>3. PendingIsSignalled'
    BY <1>4, <1>5, <2>1 DEF IndInv, PendingIsSignalled
  <2>4. QED
    BY <1>1, <1>3, <2>1, <2>2, <2>3 DEF IndInv, QueuesOK
<1>6. CASE ~IsEmpty(q)
  <2>1. /\ queue' = [queue EXCEPT ![g] = r]
        /\ visit' = [NoVisit EXCEPT !.pending = TRUE, !.event = CurrentEvent(q)]
        /\ flags' = Raise(flags, MorePending(r))
    BY <1>6 DEF DequeueEvent
  <2>2. r \in Ring(QueueSize[g], Event) /\ CurrentEvent(q) \in Event
    BY <1>2, DequeueKeepsRing, RingFields DEF CurrentEvent
  <2>3. IsEmpty(r) <=> ~MorePending(r)
    BY <1>2, DequeueEmpties
  <2> HIDE DEF r
  <2>4. QueuesOK'
    BY <2>1, <2>2 DEF IndInv, QueuesOK
  <2>5. LocalsOK'
    <3>1. visit' \in VisitRecord /\ visit'.fsmIndex = 1
      BY <2>1, <2>2, FreshLocals DEF VisitRecord
    <3>2. QED
      BY <1>1, <1>2, <1>3, <3>1 DEF IndInv, LocalsOK
  <2>6. flags \subseteq flags' /\ flags' \subseteq OfsmFlags
    BY <2>1 DEF Raise, IndInv, OfsmFlags
  <2>7. ~IsEmpty(queue'[g]) => "EVENT_QUEUED" \in flags'
    BY <1>1, <2>1, <2>3 DEF Raise, IndInv, QueuesOK
  <2>8. \A h \in Groups \ {g} : queue'[h] = queue[h]
    BY <2>1 DEF IndInv, QueuesOK
  <2>9. PendingIsSignalled'
    BY <1>4, <2>6, <2>7, <2>8 DEF IndInv, PendingIsSignalled
  <2>10. QED
    BY <1>1, <1>3, <2>4, <2>5, <2>6, <2>9 DEF IndInv
<1>7. QED
  BY <1>5, <1>6

\* A turn that leaves queues and flags alone keeps the invariant.
LEMMA TurnKeepsIndInv ==
    ASSUME IndInv, pc \in {"fsm", "handler"}, NEW f \in Fsm,
           NEW newFsm \in FsmRecord, EndTurn(f, newFsm),
           UNCHANGED << queue, flags, wakeupTime, clock, interrupts >>,
           handling' \in [newState : State, now : 0 .. Horizon, effect : Effect]
    PROVE  IndInv'
<1>1. /\ LocalsOK'
      /\ pc' \in {"fsm", "dequeue", "decide"}
      /\ \A g \in Groups : g \in Unvisited => g \in Unvisited'
  BY EndTurnStep DEF IndInv
<1>2. PendingIsSignalled'
  BY <1>1, StillSignalled DEF IndInv, SignalsNew
<1>3. QED
  BY <1>1, <1>2 DEF IndInv, QueuesOK

\* Whatever becomes of the event, the FSM's turn ends with a proper FSM record.
LEMMA ProcessEventTurn ==
    ASSUME IndInv, ProcessEvent
    PROVE  pc = "fsm" /\ \E newFsm \in FsmRecord : EndTurn(CurrentFsm, newFsm)
<1> DEFINE f == CurrentFsm
<1>1. f \in Fsm /\ fsm[f] \in FsmRecord /\ clock \in Nat
  BY CurrentFsmType, BoundAssumption DEF IndInv, LocalsOK
<1>2. CASE NoEvent(f) \/ IgnoreEvent(f)
  BY <1>1, <1>2 DEF NoEvent, IgnoreEvent, ProcessEvent
<1>3. CASE SkipEvent(f)
  <2>1. [fsm[f] EXCEPT !.skipNextEventCode = NoSkip] \in FsmRecord
    BY <1>1 DEF FsmRecord
  <2>2. QED
    BY <1>3, <2>1 DEF SkipEvent, ProcessEvent
<1>4. CASE NopTransition(f)
  <2>1. Row(f)[visit.event.code].newState \in State
    BY <1>1, <1>4, FsmAssumption DEF NopTransition, Accepts, Row, FsmRecord
  <2>2. QED
    BY <1>1, <1>4, <2>1, NoEffectType, TransitionType
       DEF NopTransition, IndInv, ProcessEvent
<1>5. QED
  BY <1>2, <1>3, <1>4 DEF ProcessEvent

\* A turn without a handler keeps it.
LEMMA ProcessEventStep == IndInv /\ ProcessEvent => IndInv'
<1> SUFFICES ASSUME IndInv, ProcessEvent PROVE IndInv'
  OBVIOUS
<1>1. pc = "fsm" /\ \E newFsm \in FsmRecord : EndTurn(CurrentFsm, newFsm)
  BY ProcessEventTurn
<1>2. UNCHANGED << queue, flags, wakeupTime, handling, clock, interrupts >>
  BY DEF ProcessEvent
<1>3. CurrentFsm \in Fsm
  BY CurrentFsmType DEF IndInv
<1>4. QED
  BY <1>1, <1>2, <1>3, TurnKeepsIndInv DEF IndInv

\* Calling a handler keeps it.
LEMMA CallHandlerStep == IndInv /\ CallHandler => IndInv'
<1> SUFFICES ASSUME IndInv, CallHandler PROVE IndInv'
  OBVIOUS
<1> DEFINE f == CurrentFsm
           t == Row(f)[visit.event.code]
<1>1. f \in Fsm /\ fsm[f] \in FsmRecord
  BY CurrentFsmType DEF IndInv, LocalsOK
<1>2. /\ pc = "fsm" /\ pc' = "handler"
      /\ UNCHANGED << queue, fsm, flags, wakeupTime, loop, visit, clock, interrupts >>
  BY DEF CallHandler
<1>3. /\ visit.event.code \in DOMAIN Row(f)
      /\ t.eventHandler \notin {NullHandler, NopHandler}
      /\ \E effect \in Effects[t.eventHandler] :
            handling' = [newState |-> t.newState, now |-> clock, effect |-> effect]
  BY DEF CallHandler, Accepts
<1>4. t.newState \in State /\ Effects[t.eventHandler] \subseteq Effect
  BY <1>1, <1>3, FsmAssumption DEF Row, FsmRecord
<1>5. handling' \in [newState : State, now : 0 .. Horizon, effect : Effect]
  BY <1>3, <1>4 DEF IndInv
<1>6. LocalsOK' /\ PendingIsSignalled'
  BY <1>2 DEF IndInv, LocalsOK, PendingIsSignalled, Unvisited
<1>7. QED
  BY <1>2, <1>5, <1>6 DEF IndInv, QueuesOK

\* Marking an event code to be skipped touches nothing else of the FSM.
LEMMA MarkKeepsFsm ==
    ASSUME fsm \in [Fsm -> FsmRecord], NEW f \in Fsm, NEW code,
           fsm' = [fsm EXCEPT ![f].skipNextEventCode = code]
    PROVE  /\ code \in EventCode => fsm' \in [Fsm -> FsmRecord]
           /\ \A h \in Fsm : fsm'[h].flags = fsm[h].flags
<1> DEFINE r == [fsm[f] EXCEPT !.skipNextEventCode = code]
<1>1. /\ code \in EventCode => r \in FsmRecord
      /\ r.flags = fsm[f].flags
  BY DEF FsmRecord
<1>2. fsm' = [fsm EXCEPT ![f] = r]
  OBVIOUS
<1> HIDE DEF r
<1>3. QED
  BY <1>1, <1>2

\* A queueing call of a handler keeps it, also into a group already visited.
LEMMA HandlerQueuesStep == IndInv /\ HandlerQueues => IndInv'
<1> SUFFICES ASSUME IndInv, HandlerQueues PROVE IndInv'
  OBVIOUS
<1> DEFINE calls == handling.effect.calls
           c == Head(calls)
           g == IF c.group = OwnGroup THEN loop.group ELSE c.group
<1>1. /\ pc = "handler" /\ calls # << >>
      /\ QueueGroupEvent(g, c.force, c.event)
      /\ IF c.exclude
         THEN fsm' = [fsm EXCEPT ![CurrentFsm].skipNextEventCode = c.event.code]
         ELSE UNCHANGED fsm
      /\ handling' = [handling EXCEPT !.effect.calls = Tail(calls)]
      /\ UNCHANGED << wakeupTime, pc, loop, visit, clock, interrupts >>
  BY DEF HandlerQueues
<1>2. handling.effect \in Effect /\ calls \in Seq(Call)
  BY DEF IndInv, Effect
<1>3. c \in Call /\ Tail(calls) \in Seq(Call)
  BY <1>1, <1>2
<1>4. c.force \in BOOLEAN /\ c.event \in Event /\ c.event.code \in EventCode
  BY <1>3 DEF Call, Event
<1>5. g \in Groups
  BY <1>3 DEF Call, IndInv, LocalsOK, LoopRecord
<1> HIDE DEF c, g
<1>6. QueuesOK' /\ flags' \subseteq OfsmFlags /\ SignalsNew
  BY <1>1, <1>4, <1>5, QueueGroupEventStep DEF IndInv
<1>7. CurrentFsm \in Fsm
  BY CurrentFsmType DEF IndInv
<1>8. fsm' \in [Fsm -> FsmRecord]
  <2>1. fsm \in [Fsm -> FsmRecord]
    BY DEF IndInv, LocalsOK
  <2>2. CASE c.exclude
    BY <1>1, <1>4, <1>7, <2>1, <2>2, MarkKeepsFsm
  <2>3. CASE ~c.exclude
    BY <1>1, <2>1, <2>3
  <2>4. QED
    BY <2>2, <2>3
<1>9. handling' \in [newState : State, now : 0 .. Horizon, effect : Effect]
  <2>1. [handling.effect EXCEPT !.calls = Tail(calls)] \in Effect
    BY <1>2, <1>3 DEF Effect
  <2>2. handling' = [handling EXCEPT !.effect =
                         [handling.effect EXCEPT !.calls = Tail(calls)]]
    BY <1>1
  <2>3. QED
    BY <2>1, <2>2 DEF IndInv
<1>10. LocalsOK' /\ Unvisited' = Unvisited
  BY <1>1, <1>8 DEF IndInv, LocalsOK, Unvisited
<1>11. PendingIsSignalled'
  BY <1>6, <1>10, StillSignalled DEF IndInv
<1>12. QED
  BY <1>1, <1>6, <1>9, <1>10, <1>11 DEF IndInv

\* Prevented or not, the transition leaves a proper FSM record.
LEMMA HandlerReturnsTurn ==
    ASSUME IndInv, HandlerReturns
    PROVE  pc = "handler" /\ \E newFsm \in FsmRecord : EndTurn(CurrentFsm, newFsm)
<1> DEFINE f == CurrentFsm
           newFsm == IF handling.effect.prevent THEN fsm[f]
                     ELSE Transition(f, handling.newState, handling.now,
                                     handling.effect)
<1>1. f \in Fsm /\ fsm[f] \in FsmRecord
  BY CurrentFsmType DEF IndInv, LocalsOK
<1>2. /\ handling.newState \in State /\ handling.now \in Nat
      /\ handling.effect \in Effect
  BY BoundAssumption DEF IndInv
<1>3. newFsm \in FsmRecord
  BY <1>1, <1>2, TransitionType DEF IndInv
<1>4. QED
  BY <1>3 DEF HandlerReturns

\* The return of a handler keeps it.
LEMMA HandlerReturnsStep == IndInv /\ HandlerReturns => IndInv'
<1> SUFFICES ASSUME IndInv, HandlerReturns PROVE IndInv'
  OBVIOUS
<1>1. pc = "handler" /\ \E newFsm \in FsmRecord : EndTurn(CurrentFsm, newFsm)
  BY HandlerReturnsTurn
<1>2. /\ handling' = Idle
      /\ UNCHANGED << queue, flags, wakeupTime, clock, interrupts >>
  BY DEF HandlerReturns
<1>3. CurrentFsm \in Fsm
  BY CurrentFsmType DEF IndInv
<1>4. QED
  BY <1>1, <1>2, <1>3, IdleType, TurnKeepsIndInv

\* The decision at the end of a pass keeps it.
LEMMA DecideStep == IndInv /\ Decide => IndInv'
<1> SUFFICES ASSUME IndInv, Decide PROVE IndInv'
  OBVIOUS
<1>1. /\ pc = "decide" /\ pc' \in {"pass", "timeout", "presleep"}
      /\ loop' \in {loop, FreshLoop(1)}
      /\ UNCHANGED << queue, fsm, flags, wakeupTime, visit, handling, clock, interrupts >>
  BY DEF Decide
<1>2. LocalsOK'
  BY <1>1, FreshLocals DEF IndInv, LocalsOK, LoopRecord
<1>3. PendingIsSignalled'
  BY <1>1 DEF IndInv, PendingIsSignalled, Unvisited
<1>4. QED
  BY <1>1, <1>2, <1>3 DEF IndInv, QueuesOK

\* The timeout that the loop queues keeps it.
LEMMA QueueTimeoutStep == IndInv /\ QueueTimeout => IndInv'
<1> SUFFICES ASSUME IndInv, QueueTimeout PROVE IndInv'
  OBVIOUS
<1>1. /\ pc = "timeout" /\ pc' \in {"timeout", "pass"}
      /\ QueueGroupEvent(loop.group, FALSE, TimeoutEvent)
      /\ UNCHANGED << fsm, wakeupTime, visit, handling, clock, interrupts >>
  BY DEF QueueTimeout
<1>2. loop.group \in Groups
  BY DEF IndInv, LocalsOK, LoopRecord
<1>3. QueuesOK' /\ flags' \subseteq OfsmFlags /\ SignalsNew
  BY <1>1, <1>2, TimeoutEventType, QueueGroupEventStep DEF IndInv
<1>4. loop' \in LoopRecord
  <2>1. loop.group # Len(GroupFsms) => loop.group + 1 \in Groups
    BY <1>2, GroupsAssumption DEF Groups
  <2>2. QED
    BY <2>1, FreshLocals DEF QueueTimeout, IndInv, LocalsOK, LoopRecord
<1>5. visit'.fsmIndex \in 1 .. Len(GroupFsms[loop'.group])
  BY <1>1, <1>4, FreshLocals DEF IndInv, LocalsOK, LoopRecord
<1>6. LocalsOK' /\ Unvisited' = Unvisited
  BY <1>1, <1>4, <1>5 DEF IndInv, LocalsOK, Unvisited
<1>7. PendingIsSignalled'
  BY <1>3, <1>6, StillSignalled DEF IndInv
<1>8. QED
  BY <1>1, <1>3, <1>6, <1>7 DEF IndInv

\* Going to sleep keeps it: EVENT_QUEUED survives the merge of the flags.
LEMMA PrepareSleepStep == IndInv /\ PrepareSleep => IndInv'
<1> SUFFICES ASSUME IndInv, PrepareSleep PROVE IndInv'
  OBVIOUS
<1>1. /\ pc = "presleep" /\ pc' = "asleep"
      /\ wakeupTime' = loop.earliest /\ loop' = FreshLoop(1)
      /\ UNCHANGED << queue, fsm, visit, handling, clock, interrupts >>
  BY DEF PrepareSleep
<1>2. /\ flags' \subseteq OfsmFlags
      /\ "EVENT_QUEUED" \in flags => "EVENT_QUEUED" \in flags'
  BY DEF PrepareSleep, IndInv, LocalsOK, LoopRecord, CommonFlags, OfsmFlags,
         ClearedForSleep
<1>3. LocalsOK' /\ wakeupTime' \in 0 .. MaxTime
  BY <1>1, FreshLocals DEF IndInv, LocalsOK, LoopRecord
<1>4. PendingIsSignalled'
  BY <1>1, <1>2 DEF IndInv, PendingIsSignalled, Unvisited
<1>5. QED
  BY <1>1, <1>2, <1>3, <1>4 DEF IndInv, QueuesOK

\* Waking up keeps it.
LEMMA WakeUpStep == IndInv /\ WakeUp => IndInv'
<1> SUFFICES ASSUME IndInv, WakeUp PROVE IndInv'
  OBVIOUS
<1>1. LocalsOK' /\ PendingIsSignalled'
  BY DEF WakeUp, IndInv, LocalsOK, PendingIsSignalled, Unvisited
<1>2. QED
  BY <1>1 DEF WakeUp, IndInv, QueuesOK, OfsmFlags

\* Every step keeps the invariant.
LEMMA StepIndInv == IndInv /\ [Next]_vars => IndInv'
<1> SUFFICES ASSUME IndInv, [Next]_vars PROVE IndInv'
  OBVIOUS
<1>1. CASE MainLoop
  BY <1>1, StartPassStep, DequeueEventStep, ProcessEventStep, CallHandlerStep,
     HandlerQueuesStep, HandlerReturnsStep, DecideStep, QueueTimeoutStep,
     PrepareSleepStep, WakeUpStep DEF MainLoop
<1>2. CASE Interrupt
  BY <1>2, InterruptStep
<1>3. CASE \E ticks \in 0 .. MaxTick : Heartbeat(ticks)
  BY <1>3, HeartbeatStep
<1>4. CASE UNCHANGED vars
  BY <1>4 DEF vars, mainVars, IndInv, QueuesOK, LocalsOK, PendingIsSignalled, Unvisited
<1>5. QED
  BY <1>1, <1>2, <1>3, <1>4 DEF Next

\* The inductive invariant holds throughout.
LEMMA IndInvHolds == Spec => []IndInv
BY InitIndInv, StepIndInv, PTL DEF Spec

-----------------------------------------------------------------------------
(* Theorems *)

\* Type correctness of the orchestra: indices, flags, times and locals.
THEOREM OfsmTypeCorrect == Spec => []TypeOK
<1>1. IndInv => TypeOK
  BY DEF IndInv, QueuesOK, Ring, LocalsOK, LoopRecord, VisitRecord, FsmRecord, TypeOK
<1>2. QED
  BY <1>1, IndInvHolds, PTL

\* A pending event of any group has its turn still to come or EVENT_QUEUED is up,
\* for every interleaving of interrupts, heartbeats, handlers and the loop.
THEOREM NoEventOutOfSight == Spec => []PendingIsSignalled
<1>1. IndInv => PendingIsSignalled
  BY DEF IndInv
<1>2. QED
  BY <1>1, IndInvHolds, PTL

-----------------------------------------------------------------------------
(* Each group's queue is a weak FIFO *)

FifoStep(g) ==
    \/ UNCHANGED Pending(queue[g])
    \/ Fifo(g)!Next \/ Fifo(g)!PutAny

\* Queueing into a group's own ring is a step of its FIFO.
LEMMA EnqueueIsFifoStep ==
    ASSUME QueuesOK, NEW g \in Groups, NEW force \in BOOLEAN, NEW e \in Event,
           queue'[g] = Enqueue(queue[g], force, e)
    PROVE  FifoStep(g)
<1>1. QueueSize[g] \in Nat \ {0} /\ queue[g] \in Ring(QueueSize[g], Event)
  BY GroupsAssumption DEF QueuesOK
<1>2. Compresses(queue[g], force, e) <=> Fifo(g)!Overwrites(force, e)
  BY <1>1, CompressesYoungest DEF Fifo!Overwrites
<1>3. Fifo(g)!Put(force, e) \/ Fifo(g)!PutAny
  BY <1>1, <1>2, EnqueuePending DEF Fifo!Put, Fifo!PutAny
<1>4. QED
  BY <1>3 DEF FifoStep, Fifo!Next

\* Queueing into one group leaves the other queues alone, but for the one that
\* lies behind it in memory if the event misses.
LEMMA QueueGroupEventFifo ==
    ASSUME QueuesOK, NEW h \in Groups, NEW force \in BOOLEAN, NEW e \in Event,
           QueueGroupEvent(h, force, e), NEW g \in Groups, ~Exposed(g)
    PROVE  FifoStep(g)
<1>1. queue'[g] = IF g = h THEN Enqueue(queue[h], force, e)
                  ELSE IF g = QueueAfter[h] /\ Misses(queue[h], force, e)
                  THEN Trample(queue[g], e)
                  ELSE queue[g]
  BY DEF QueueGroupEvent
<1>2. CASE g = h
  BY <1>1, <1>2, EnqueueIsFifoStep
<1>3. CASE g # h
  <2>1. ~(g = QueueAfter[h] /\ Misses(queue[h], force, e))
    BY DEF Exposed
  <2>2. queue'[g] = queue[g]
    BY <1>1, <1>3, <2>1
  <2>3. QED
    BY <2>2 DEF FifoStep
<1>4. QED
  BY <1>2, <1>3

\* The TIMEOUT that a heartbeat queues to all groups is a step of each FIFO.
LEMMA QueueGlobalTimeoutFifo ==
    ASSUME QueuesOK, NEW fs, QueueGlobalTimeout(fs),
           NEW g \in Groups, ~Exposed(g)
    PROVE  FifoStep(g)
<1>1. queue'[g] = TrampleIf(HitFrom(g + 1 .. Len(GroupFsms), g),
                            Enqueue(BeforeTimeout(g), FALSE, TimeoutEvent))
  BY DEF QueueGlobalTimeout
<1>2. FALSE \in BOOLEAN /\ TimeoutEvent \in Event
  BY TimeoutEventType
<1>3. ASSUME NEW gs \in SUBSET Groups PROVE ~HitFrom(gs, g)
  BY <1>2, Zenon DEF HitFrom, Exposed
<1>4. 1 .. g - 1 \in SUBSET Groups /\ g + 1 .. Len(GroupFsms) \in SUBSET Groups
  BY GroupsAssumption DEF Groups
<1>5. BeforeTimeout(g) = queue[g]
  BY <1>3, <1>4, Zenon DEF BeforeTimeout, TrampleIf
<1>6. queue'[g] = Enqueue(queue[g], FALSE, TimeoutEvent)
  BY <1>1, <1>3, <1>4, <1>5, Zenon DEF TrampleIf
<1>7. QED
  BY <1>2, <1>6, EnqueueIsFifoStep, Zenon

\* The group whose turn it is loses its oldest event, the others nothing.
LEMMA DequeueEventFifo ==
    ASSUME IndInv, DequeueEvent, NEW g \in Groups
    PROVE  FifoStep(g)
<1>1. QueueSize[g] \in Nat \ {0} /\ queue[g] \in Ring(QueueSize[g], Event)
  BY GroupsAssumption DEF IndInv, QueuesOK
<1>2. \/ queue' = queue
      \/ /\ ~IsEmpty(queue[loop.group])
         /\ queue' = [queue EXCEPT ![loop.group] = Dequeue(queue[loop.group])]
  BY DEF DequeueEvent
<1>3. CASE queue'[g] = queue[g]
  BY <1>3 DEF FifoStep
<1>4. CASE ~IsEmpty(queue[g]) /\ queue'[g] = Dequeue(queue[g])
  <2>1. Fifo(g)!Get
    BY <1>1, <1>4, DequeueIsTail DEF Fifo!Get
  <2>2. QED
    BY <2>1 DEF FifoStep, Fifo!Next
<1>5. QED
  BY <1>2, <1>3, <1>4 DEF IndInv, QueuesOK

\* So is every step of the orchestra.
LEMMA StepIsFifoStep ==
    ASSUME IndInv, [Next]_vars, NEW g \in Groups, ~Exposed(g)
    PROVE  FifoStep(g)
<1> USE DEF IndInv
<1>1. CASE Interrupt
  <2>1. PICK c \in InterruptEvents : QueueGroupEvent(c.group, c.force, c.event)
    BY <1>1 DEF Interrupt
  <2>2. c.group \in Groups /\ c.force \in BOOLEAN /\ c.event \in Event
    BY BoundAssumption DEF Call
  <2>3. QED
    BY <2>1, <2>2, QueueGroupEventFifo
<1>2. ASSUME NEW ticks \in 0 .. MaxTick, Heartbeat(ticks)
      PROVE  FifoStep(g)
  <2>1. (\E fs : QueueGlobalTimeout(fs)) \/ queue' = queue
    BY <1>2 DEF Heartbeat
  <2>2. CASE \E fs : QueueGlobalTimeout(fs)
    BY <2>2, QueueGlobalTimeoutFifo
  <2>3. CASE queue' = queue
    BY <2>3 DEF FifoStep
  <2>4. QED
    BY <2>1, <2>2, <2>3
<1>3. CASE HandlerQueues
  <2> DEFINE c == Head(handling.effect.calls)
             h == IF c.group = OwnGroup THEN loop.group ELSE c.group
  <2>1. handling.effect.calls # << >> /\ QueueGroupEvent(h, c.force, c.event)
    BY <1>3 DEF HandlerQueues
  <2>2. handling.effect.calls \in Seq(Call)
    BY DEF Effect
  <2>3. c \in Call
    BY <2>1, <2>2
  <2>4. h \in Groups /\ c.force \in BOOLEAN /\ c.event \in Event
    BY <2>3 DEF Call, LocalsOK, LoopRecord
  <2> HIDE DEF c, h
  <2>5. QED
    BY <2>1, <2>4, QueueGroupEventFifo
<1>4. CASE QueueTimeout
  <2>1. loop.group \in Groups /\ FALSE \in BOOLEAN
    BY DEF LocalsOK, LoopRecord
  <2>2. QueueGroupEvent(loop.group, FALSE, TimeoutEvent)
    BY <1>4 DEF QueueTimeout
  <2>3. QED
    BY <2>1, <2>2, TimeoutEventType, QueueGroupEventFifo, Zenon
<1>5. CASE DequeueEvent
  BY <1>5, DequeueEventFifo
<1>6. CASE \/ StartPass \/ ProcessEvent \/ CallHandler \/ HandlerReturns
           \/ Decide \/ PrepareSleep \/ WakeUp \/ UNCHANGED vars
  <2>1. queue' = queue
    BY <1>6 DEF StartPass, ProcessEvent, CallHandler, HandlerReturns, Decide,
                PrepareSleep, WakeUp, vars, mainVars
  <2>2. QED
    BY <2>1 DEF FifoStep
<1>7. QED
  BY <1>1, <1>2, <1>3, <1>4, <1>5, <1>6 DEF Next, MainLoop

\* In the orchestra, whatever interrupts, heartbeats, handlers and the loop do
\* and in whatever order, every group's queue is a bounded FIFO that only a
\* write past the end of the queue before it in memory can disturb.
THEOREM QueuesStayFifos == Spec => QueuesAreWeakFifos
<1> DEFINE A == \A g \in Groups :
                   \/ Exposed(g)
                   \/ UNCHANGED Pending(queue[g])
                   \/ Fifo(g)!Next \/ Fifo(g)!PutAny
<1>1. IndInv /\ [Next]_vars => [A]_vars
  BY StepIsFifoStep DEF FifoStep
<1>2. QED
  BY <1>1, IndInvHolds, PTL DEF Spec, QueuesAreWeakFifos

-----------------------------------------------------------------------------
(* What the loop has collected so far, every FSM seen so far agrees with *)

\* The FSMs whose last turn in this pass is over.  (An FSM shared between
\* groups has several turns; it may change its flags in each.)
Seen(f) ==
    \/ pc \in {"decide", "presleep"}
    \/ /\ pc \in {"dequeue", "fsm", "handler"}
       /\ \E g \in Groups : \E i \in 1 .. Len(GroupFsms[g]) :
             /\ GroupFsms[g][i] = f
             /\ \/ g < loop.group
                \/ g = loop.group /\ i < visit.fsmIndex

Collected == loop.flags \cap visit.flags

FlagsAgree ==
    /\ pc \notin {"fsm", "handler"} => visit.flags = CommonFlags
    /\ \A f \in Fsm : Seen(f) => Collected \subseteq fsm[f].flags
    /\ DeepSleepIsUnanimous

\* A turn adds only its own FSM to those seen.
LEMMA TurnSees ==
    ASSUME IndInv, pc \in {"fsm", "handler"}, NEW newFsm \in FsmRecord,
           EndTurn(CurrentFsm, newFsm), NEW h \in Fsm, Seen(h)', h # CurrentFsm
    PROVE  Seen(h)
<1> DEFINE f == CurrentFsm
           n == Len(GroupFsms[loop.group])
<1>1. /\ loop.group \in Groups /\ n \in Nat \ {0} /\ visit.fsmIndex \in 1 .. n
      /\ Len(GroupFsms) \in Nat \ {0}
      /\ f \in Fsm /\ fsm \in [Fsm -> FsmRecord]
      /\ loop \in LoopRecord /\ visit \in VisitRecord
      /\ f = GroupFsms[loop.group][visit.fsmIndex]
  BY GroupsAssumption, CurrentFsmType DEF IndInv, LocalsOK, LoopRecord, CurrentFsm
<1>2. CASE visit.fsmIndex # n
  <2>1. pc' = "fsm" /\ loop' = loop /\ visit'.fsmIndex = visit.fsmIndex + 1
    BY <1>1, <1>2 DEF EndTurn, Collect, VisitRecord
  <2>2. PICK g \in Groups : \E i \in 1 .. Len(GroupFsms[g]) :
           /\ GroupFsms[g][i] = h
           /\ \/ g < loop.group
              \/ g = loop.group /\ i < visit.fsmIndex + 1
    BY <2>1 DEF Seen
  <2>3. PICK i \in 1 .. Len(GroupFsms[g]) :
           /\ GroupFsms[g][i] = h
           /\ \/ g < loop.group
              \/ g = loop.group /\ i < visit.fsmIndex + 1
    BY <2>2
  <2>4. g = loop.group => i < visit.fsmIndex
    BY <1>1, <2>3 DEF Groups
  <2>5. QED
    BY <2>3, <2>4 DEF Seen
<1>3. CASE visit.fsmIndex = n /\ loop.group # Len(GroupFsms)
  <2>1. /\ pc' = "dequeue" /\ visit'.fsmIndex = 1
        /\ loop'.group = loop.group + 1
    <3>1. /\ pc' = "dequeue" /\ visit' = NoVisit
          /\ \E fs, t : LET total == Collect(loop, fs, t)
                        IN  loop' = [total EXCEPT !.group = total.group + 1]
      BY <1>3 DEF EndTurn
    <3>2. \A fs, t : /\ Collect(loop, fs, t).group = loop.group
                     /\ "group" \in DOMAIN Collect(loop, fs, t)
      BY <1>1 DEF Collect, LoopRecord
    <3>3. QED
      BY <3>1, <3>2, FreshLocals
  <2>2. PICK g \in Groups : \E i \in 1 .. Len(GroupFsms[g]) :
           /\ GroupFsms[g][i] = h
           /\ \/ g < loop.group + 1
              \/ g = loop.group + 1 /\ i < 1
    BY <2>1 DEF Seen
  <2>3. PICK i \in 1 .. Len(GroupFsms[g]) :
           /\ GroupFsms[g][i] = h
           /\ g < loop.group + 1
    BY <2>2
  <2>4. g < loop.group \/ (g = loop.group /\ i < visit.fsmIndex)
    BY <1>1, <1>3, <2>3 DEF Groups
  <2>5. QED
    BY <2>3, <2>4 DEF Seen
<1>4. CASE visit.fsmIndex = n /\ loop.group = Len(GroupFsms)
  <2>1. PICK g \in Groups : \E i \in 1 .. Len(GroupFsms[g]) : GroupFsms[g][i] = h
    BY GroupsAssumption
  <2>2. PICK i \in 1 .. Len(GroupFsms[g]) : GroupFsms[g][i] = h
    BY <2>1
  <2>3. g < loop.group \/ (g = loop.group /\ i < visit.fsmIndex)
    BY <1>1, <1>4, <2>2 DEF Groups
  <2>4. QED
    BY <2>2, <2>3 DEF Seen
<1>5. QED
  BY <1>2, <1>3, <1>4

\* A turn adds its FSM to those seen, and only flags it has are left.
LEMMA EndTurnAgrees ==
    ASSUME IndInv, FlagsAgree, pc \in {"fsm", "handler"},
           NEW newFsm \in FsmRecord, EndTurn(CurrentFsm, newFsm)
    PROVE  FlagsAgree'
<1> DEFINE f == CurrentFsm
           n == Len(GroupFsms[loop.group])
<1>1. /\ loop.group \in Groups /\ n \in Nat \ {0} /\ visit.fsmIndex \in 1 .. n
      /\ Len(GroupFsms) \in Nat \ {0}
      /\ f \in Fsm /\ fsm \in [Fsm -> FsmRecord]
      /\ loop.flags \subseteq CommonFlags
      /\ loop \in LoopRecord /\ visit \in VisitRecord
      /\ f = GroupFsms[loop.group][visit.fsmIndex]
  BY GroupsAssumption, CurrentFsmType DEF IndInv, LocalsOK, LoopRecord, CurrentFsm
<1>2. fsm' = [fsm EXCEPT ![f] = newFsm]
  BY DEF EndTurn
<1>3. /\ pc' \in {"fsm", "dequeue", "decide"}
      /\ pc' # "fsm" => visit'.flags = CommonFlags
      /\ Collected' \subseteq Collected \cap newFsm.flags
  <2>1. CASE visit.fsmIndex # n
    <3>1. /\ pc' = "fsm" /\ loop' = loop
          /\ visit'.flags = visit.flags \cap newFsm.flags
      BY <1>1, <2>1 DEF EndTurn, Collect, VisitRecord
    <3>2. QED
      BY <3>1 DEF Collected
  <2>2. CASE visit.fsmIndex = n
    <3>1. /\ pc' \in {"dequeue", "decide"} /\ visit' = NoVisit
          /\ loop'.flags = loop.flags \cap (visit.flags \cap newFsm.flags)
      BY <1>1, <2>2 DEF EndTurn, Collect, VisitRecord, LoopRecord
    <3>2. QED
      BY <3>1 DEF Collected, NoVisit
  <2>3. QED
    BY <2>1, <2>2
<1>4. ASSUME NEW h \in Fsm, Seen(h)', h # f
      PROVE  Seen(h)
  BY <1>4, TurnSees
<1>5. ASSUME NEW h \in Fsm, Seen(h)'
      PROVE  Collected' \subseteq fsm'[h].flags
  <2>1. CASE h = f
    BY <1>1, <1>2, <1>3, <2>1
  <2>2. CASE h # f
    BY <1>1, <1>2, <1>3, <1>4, <1>5, <2>2 DEF FlagsAgree
  <2>3. QED
    BY <2>1, <2>2
<1>6. DeepSleepIsUnanimous'
  BY <1>3 DEF DeepSleepIsUnanimous, Asleep
<1>7. QED
  BY <1>3, <1>5, <1>6 DEF FlagsAgree

\* A step that changes no FSM's flags and neither pc nor the locals.
LEMMA QuietStepAgrees ==
    ASSUME FlagsAgree, UNCHANGED << pc, loop, visit >>,
           \A f \in Fsm : fsm'[f].flags = fsm[f].flags,
           "ALLOW_DEEP_SLEEP" \in flags' => "ALLOW_DEEP_SLEEP" \in flags
    PROVE  FlagsAgree'
<1>1. \A f \in Fsm : Seen(f)' <=> Seen(f)
  BY DEF Seen
<1>2. Collected' = Collected
  BY DEF Collected
<1>3. QED
  BY <1>1, <1>2 DEF FlagsAgree, DeepSleepIsUnanimous, Asleep

\* Every step keeps the agreement.
LEMMA StepAgrees == IndInv /\ FlagsAgree /\ [Next]_vars => FlagsAgree'
<1> SUFFICES ASSUME IndInv, FlagsAgree, [Next]_vars PROVE FlagsAgree'
  OBVIOUS
<1>1. /\ CurrentFsm \in Fsm /\ fsm \in [Fsm -> FsmRecord] /\ loop \in LoopRecord
      /\ pc \notin {"fsm", "handler"} => visit.fsmIndex = 1
  BY CurrentFsmType DEF IndInv, LocalsOK
<1>2. CASE StartPass
  <2>1. \A f \in Fsm : ~Seen(f)'
    BY <1>1, <1>2 DEF StartPass, Seen, FreshLoop, Groups
  <2>2. QED
    BY <1>2, <2>1 DEF StartPass, FlagsAgree, DeepSleepIsUnanimous, Asleep
<1>3. CASE DequeueEvent
  <2>1. /\ pc = "dequeue" /\ pc' = "fsm" /\ visit'.fsmIndex = 1
        /\ visit'.flags = CommonFlags /\ UNCHANGED << fsm, loop >>
    <3>1. /\ pc = "dequeue" /\ pc' = "fsm" /\ UNCHANGED << fsm, loop >>
          /\ \/ visit' = NoVisit
             \/ \E e : visit' = [NoVisit EXCEPT !.pending = TRUE, !.event = e]
      BY <1>3 DEF DequeueEvent
    <3>2. \A e : LET v == [NoVisit EXCEPT !.pending = TRUE, !.event = e]
                IN  v.fsmIndex = 1 /\ v.flags = CommonFlags
      BY DEF NoVisit
    <3>3. NoVisit.fsmIndex = 1 /\ NoVisit.flags = CommonFlags
      BY DEF NoVisit
    <3>4. QED
      BY <3>1, <3>2, <3>3
  <2>2. \A f \in Fsm : Seen(f)' <=> Seen(f)
    BY <1>1, <2>1 DEF Seen
  <2>3. QED
    BY <2>1, <2>2 DEF FlagsAgree, Collected, DeepSleepIsUnanimous, Asleep
<1>4. CASE ProcessEvent
  <2>1. pc = "fsm" /\ \E newFsm \in FsmRecord : EndTurn(CurrentFsm, newFsm)
    BY <1>4, ProcessEventTurn
  <2>2. QED
    BY <2>1, EndTurnAgrees
<1>5. CASE CallHandler
  BY <1>5 DEF CallHandler, FlagsAgree, Seen, Collected, DeepSleepIsUnanimous, Asleep
<1>6. CASE HandlerQueues
  <2>1. \A f \in Fsm : fsm'[f].flags = fsm[f].flags
    <3>1. \/ UNCHANGED fsm
          \/ \E code : fsm' = [fsm EXCEPT ![CurrentFsm].skipNextEventCode = code]
      BY <1>6 DEF HandlerQueues
    <3>2. QED
      BY <1>1, <3>1, MarkKeepsFsm
  <2>2. "ALLOW_DEEP_SLEEP" \in flags' => "ALLOW_DEEP_SLEEP" \in flags
    BY <1>6 DEF HandlerQueues, QueueGroupEvent, Raise
  <2>3. QED
    BY <1>6, <2>1, <2>2, QuietStepAgrees DEF HandlerQueues
<1>7. CASE HandlerReturns
  <2>1. pc = "handler" /\ \E newFsm \in FsmRecord : EndTurn(CurrentFsm, newFsm)
    BY <1>7, HandlerReturnsTurn
  <2>2. QED
    BY <2>1, EndTurnAgrees
<1>8. CASE Decide
  <2>1. /\ pc = "decide" /\ pc' \in {"pass", "timeout", "presleep"}
        /\ pc' = "presleep" => loop' = loop
        /\ UNCHANGED << fsm, visit >>
    BY <1>8 DEF Decide
  <2>2. QED
    BY <2>1 DEF FlagsAgree, Seen, Collected, DeepSleepIsUnanimous, Asleep
<1>9. CASE QueueTimeout
  <2>1. pc = "timeout" /\ pc' \in {"timeout", "pass"} /\ UNCHANGED << fsm, visit >>
    BY <1>9 DEF QueueTimeout
  <2>2. QED
    BY <2>1 DEF FlagsAgree, Seen, DeepSleepIsUnanimous, Asleep
<1>10. CASE PrepareSleep
  <2>1. pc = "presleep" /\ pc' = "asleep" /\ UNCHANGED << fsm, visit >>
    BY <1>10 DEF PrepareSleep
  <2>2. "ALLOW_DEEP_SLEEP" \in flags' => "ALLOW_DEEP_SLEEP" \in loop.flags
    BY <1>10 DEF PrepareSleep, CommonFlags
  <2>3. visit.flags = CommonFlags /\ \A f \in Fsm : Collected \subseteq fsm[f].flags
    BY <2>1 DEF FlagsAgree, Seen
  <2>4. QED
    BY <2>1, <2>2, <2>3
       DEF FlagsAgree, Seen, Collected, CommonFlags, DeepSleepIsUnanimous, Asleep
<1>11. CASE WakeUp
  BY <1>11 DEF WakeUp, FlagsAgree, Seen, DeepSleepIsUnanimous, Asleep
<1>12. CASE Interrupt
  <2>1. "ALLOW_DEEP_SLEEP" \in flags' => "ALLOW_DEEP_SLEEP" \in flags
    BY <1>12 DEF Interrupt, QueueGroupEvent, Raise
  <2>2. QED
    BY <1>12, <2>1, QuietStepAgrees DEF Interrupt
<1>13. CASE \E ticks \in 0 .. MaxTick : Heartbeat(ticks)
  <2>1. "ALLOW_DEEP_SLEEP" \in flags' => "ALLOW_DEEP_SLEEP" \in flags
    <3>1. flags' \subseteq flags \cup {"TIMER_OVERFLOW", "EVENT_QUEUED"}
      BY <1>13 DEF Heartbeat, QueueGlobalTimeout, Raise
    <3>2. QED
      BY <3>1
  <2>2. QED
    BY <1>13, <2>1, QuietStepAgrees DEF Heartbeat
<1>14. CASE UNCHANGED vars
  BY <1>14, QuietStepAgrees DEF vars, mainVars
<1>15. QED
  BY <1>2, <1>3, <1>4, <1>5, <1>6, <1>7, <1>8, <1>9, <1>10, <1>11, <1>12, <1>13,
     <1>14 DEF Next, MainLoop

\* Deep sleep, in which the clock stands still until the watchdog, is entered
\* only if every FSM of every group agreed to it in the state it is in, however
\* often the FSMs that groups share changed their minds during the pass.
THEOREM DeepSleepNeedsAll == Spec => []DeepSleepIsUnanimous
<1>1. Init => FlagsAgree
  BY FreshLocals DEF Init, FlagsAgree, Seen, NoVisit, DeepSleepIsUnanimous, Asleep
<1>2. FlagsAgree => DeepSleepIsUnanimous
  BY DEF FlagsAgree
<1>3. QED
  BY <1>1, <1>2, StepAgrees, IndInvHolds, PTL DEF Spec

-----------------------------------------------------------------------------
(* Going to sleep *)

\* Only the atomic block before sleep puts the main loop to sleep; there, only
\* interrupts and heartbeats touch the flags.
LEMMA FallsAsleep ==
    ASSUME [Next]_vars, pc' = "asleep"
    PROVE  \/ PrepareSleep
           \/ /\ pc = "asleep"
              /\ flags' \subseteq flags \cup {"EVENT_QUEUED", "TIMER_OVERFLOW"}
              /\ UNCHANGED << fsm, wakeupTime >>
<1>1. CASE MainLoop
  <2>1. CASE ProcessEvent \/ HandlerReturns
    <3>1. \E f, newFsm : EndTurn(f, newFsm)
      BY <2>1 DEF ProcessEvent, HandlerReturns, NoEvent, SkipEvent, IgnoreEvent,
         NopTransition
    <3>2. QED
      BY <3>1 DEF EndTurn
  <2>2. CASE \/ StartPass \/ DequeueEvent \/ CallHandler \/ HandlerQueues
             \/ Decide \/ QueueTimeout \/ WakeUp
    BY <2>2 DEF StartPass, DequeueEvent, CallHandler, HandlerQueues, Decide,
       QueueTimeout, WakeUp
  <2>3. QED
    BY <1>1, <2>1, <2>2 DEF MainLoop
<1>2. CASE Interrupt
  BY <1>2 DEF Interrupt, QueueGroupEvent, Raise
<1>3. CASE \E ticks \in 0 .. MaxTick : Heartbeat(ticks)
  <2>1. PICK ticks \in 0 .. MaxTick : Heartbeat(ticks)
    BY <1>3
  <2>2. QED
    BY <2>1 DEF Heartbeat, QueueGlobalTimeout, Raise
<1>4. CASE UNCHANGED vars
  BY <1>4 DEF vars, mainVars
<1>5. QED
  BY <1>1, <1>2, <1>3, <1>4 DEF Next

\* Whoever sleeps has told the heartbeat so.
BusyFlagDown == pc = "asleep" => "IN_PROCESS" \notin flags

\* The flag stays down during sleep.
LEMMA StepBusyFlagDown == BusyFlagDown /\ [Next]_vars => BusyFlagDown'
<1> SUFFICES ASSUME BusyFlagDown, [Next]_vars, pc' = "asleep"
             PROVE  "IN_PROCESS" \notin flags'
  BY DEF BusyFlagDown
<1>1. CASE PrepareSleep
  BY <1>1 DEF PrepareSleep, ClearedForSleep
<1>2. CASE ~PrepareSleep
  BY <1>2, FallsAsleep DEF BusyFlagDown
<1>3. QED
  BY <1>1, <1>2
=============================================================================
