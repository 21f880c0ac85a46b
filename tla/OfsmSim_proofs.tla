--------------------------- MODULE OfsmSim_proofs ---------------------------
(***************************************************************************)
(* Type correctness of the interactive simulation, for every queue size,   *)
(* every delay and any number of sessions whose threads are alive at once: *)
(* no unlocked write and no reset under a thread that is still at work     *)
(* takes a flag, an index or a time out of its range.  The overflow flag   *)
(* and the indices need not agree: a queueing call can fall between the    *)
(* statements that reset them.                                             *)
(***************************************************************************)
EXTENDS OfsmSim, TLAPS

-----------------------------------------------------------------------------
(* Helpers *)

\* Sleeping for ever is one way to sleep, and sleeps stay in range as time passes
\* and as it is reset.
LEMMA SleepTypes ==
    /\ Infinite \in Sleep /\ 0 \in Sleep
    /\ \A t \in Sleep, n \in Nat : Nearer(t, n) \in Sleep /\ Further(t, n) \in Sleep
BY BoundAssumption DEF Sleep, Infinite, Nearer, Further

\* A heartbeat makes a number of ticks.
LEMMA TicksAreNat == ASSUME NEW s \in Session PROVE TicksOf(s) \subseteq Nat
BY BoundAssumption DEF TicksOf, Infinite

\* The TIMEOUT is an event.
LEMMA TimeoutType == TimeoutEvent \in Event
BY EventAssumption DEF TimeoutEvent, Event

\* A thread that forgets everything has well-typed locals.
LEMMA NoLocalType ==
    NoLocal \in [event : SUBSET Event, collected : Sleep, read : SUBSET OfsmFlags]
BY SleepTypes DEF NoLocal

\* The next slot and the one before are slots.
LEMMA SlotTypes ==
    ASSUME NEW q \in RingType(QueueSize, Event), NEW i \in 0 .. QueueSize - 1
    PROVE  /\ NextSlot(q, i) \in 0 .. QueueSize - 1
           /\ PreviousSlot(q, i) \in 0 .. QueueSize - 1
BY QueueSizeAssumption DEF RingType, NextSlot, PreviousSlot

\* Queueing keeps the type of the ring, full or not.
LEMMA EnqueueKeepsType ==
    ASSUME NEW q \in RingType(QueueSize, Event), NEW force \in BOOLEAN, NEW e \in Event
    PROVE  Enqueue(q, force, e) \in RingType(QueueSize, Event)
<1>1. Update(q, e) \in RingType(QueueSize, Event)
  BY SlotTypes DEF Update, RingType
<1>2. ASSUME NEW slot \in Nat
      PROVE  Store(q, slot, e) \in RingType(QueueSize, Event)
  <2>1. NextSlot(q, q.nextEventIndex) \in 0 .. QueueSize - 1
    BY SlotTypes DEF RingType
  <2>2. QED
    BY <2>1, QueueSizeAssumption DEF Store, RingType
<1>3. StoreSlot(q, force, e) \in Nat
  BY QueueSizeAssumption DEF StoreSlot, RingType
<1>4. QED
  BY <1>1, <1>2, <1>3 DEF Enqueue

\* So does a removal; what is removed is an event.
LEMMA DequeueKeepsType ==
    ASSUME NEW q \in RingType(QueueSize, Event)
    PROVE  /\ Dequeue(q) \in RingType(QueueSize, Event)
           /\ CurrentEvent(q) \in Event
<1>1. NextSlot(q, q.currentEventIndex) \in 0 .. QueueSize - 1
  BY SlotTypes DEF RingType
<1>2. QED
  BY <1>1 DEF Dequeue, CurrentEvent, RingType

\* Time set back keeps times and locals.
LEMMA SetTimeBackKeeps ==
    ASSUME TypeOK, NEW passed \in 0 .. MaxDelay, SetTimeBack(passed)
    PROVE  /\ wakeup' \in Sleep /\ fsm' \in Sleep
           /\ local' \in [Session -> [event : SUBSET Event, collected : Sleep,
                                      read : SUBSET OfsmFlags]]
<1>1. passed \in Nat
  BY BoundAssumption
<1>2. ASSUME NEW i \in Session
      PROVE  [local[i] EXCEPT !.collected = Further(local[i].collected, passed)] \in
                 [event : SUBSET Event, collected : Sleep, read : SUBSET OfsmFlags]
  BY <1>1, SleepTypes DEF TypeOK
<1>3. wakeup' \in Sleep /\ fsm' \in Sleep
  BY <1>1, SleepTypes DEF SetTimeBack, TypeOK
<1>4. QED
  BY <1>2, <1>3 DEF SetTimeBack

\* Queueing keeps the ring and the flags.
LEMMA QueueingKeeps ==
    ASSUME TypeOK, NEW force \in BOOLEAN, NEW e \in Event, QueueGroupEvent(force, e)
    PROVE  queue' \in RingType(QueueSize, Event) /\ flags' \subseteq OfsmFlags
<1>1. queue' \in RingType(QueueSize, Event)
  BY EnqueueKeepsType DEF TypeOK, QueueGroupEvent
<1>2. flags' \subseteq OfsmFlags
  BY DEF TypeOK, QueueGroupEvent, OfsmFlags
<1>3. QED
  BY <1>1, <1>2

\* Notifying puts at most one thread to another place.
LEMMA NotifyKeeps ==
    ASSUME NEW p \in [Session -> FsmLabels], Notify(p)
    PROVE  pc' \in [Session -> FsmLabels]
BY DEF Notify, FsmLabels

-----------------------------------------------------------------------------
(* The steps *)

\* The declared library.
LEMMA InitTypeOK == Init => TypeOK
<1> SUFFICES ASSUME Init PROVE TypeOK
  OBVIOUS
<1>1. queue \in RingType(QueueSize, Event)
  BY TimeoutType, QueueSizeAssumption DEF Init, EmptyRing, RingType
<1>2. 1 \in Session
  BY BoundAssumption DEF Session
<1>3. QED
  BY <1>1, <1>2, SleepTypes, NoLocalType
  DEF Init, TypeOK, FsmLabels, MainLabels, OfsmFlags

\* An unlocked read of the flags.
LEMMA ReadKeeps ==
    ASSUME TypeOK, NEW s \in Session, NEW label \in FsmLabels, ReadFlags(s, label),
           declared' \in BOOLEAN
    PROVE  TypeOK'
<1>1. [local[s] EXCEPT !.read = flags] \in
          [event : SUBSET Event, collected : Sleep, read : SUBSET OfsmFlags]
  BY DEF TypeOK
<1>2. local' = [local EXCEPT ![s] = [local[s] EXCEPT !.read = flags]]
  BY DEF ReadFlags
<1>3. local' \in [Session -> [event : SUBSET Event, collected : Sleep,
                              read : SUBSET OfsmFlags]]
  BY <1>1, <1>2 DEF TypeOK
<1>4. pc' \in [Session -> FsmLabels]
  BY DEF TypeOK, ReadFlags, Goto
<1>5. QED
  BY <1>3, <1>4 DEF TypeOK, ReadFlags

\* An unlocked write of flags that were read before.
LEMMA WriteKeeps ==
    ASSUME TypeOK, NEW s \in Session, NEW label \in FsmLabels,
           NEW fs \in SUBSET OfsmFlags, WriteFlags(s, fs, label)
    PROVE  TypeOK'
<1>1. [local[s] EXCEPT !.read = {}] \in
          [event : SUBSET Event, collected : Sleep, read : SUBSET OfsmFlags]
  BY DEF TypeOK
<1>2. local' = [local EXCEPT ![s] = [local[s] EXCEPT !.read = {}]]
  BY DEF WriteFlags
<1>3. local' \in [Session -> [event : SUBSET Event, collected : Sleep,
                              read : SUBSET OfsmFlags]]
  BY <1>1, <1>2 DEF TypeOK
<1>4. pc' \in [Session -> FsmLabels]
  BY DEF TypeOK, WriteFlags, Goto
<1>5. QED
  BY <1>3, <1>4 DEF TypeOK, WriteFlags

\* What a thread has read are flags.
LEMMA ReadType ==
    ASSUME TypeOK, NEW s \in Session
    PROVE  local[s].read \subseteq OfsmFlags
BY DEF TypeOK

\* The FSM thread.
LEMMA FsmThreadKeeps ==
    ASSUME TypeOK, NEW s \in Session, FsmThread(s)
    PROVE  TypeOK'
<1>1. CASE Setup(s)
  <2>1. CASE declared' = TRUE /\ ReadFlags(s, "setupWrite")
    BY <2>1, ReadKeeps DEF FsmLabels
  <2>2. CASE WriteFlags(s, local[s].read \cup {"INFINITE_SLEEP", "FIRST_ITERATION"},
                        "setupTime")
    <3>1. local[s].read \cup {"INFINITE_SLEEP", "FIRST_ITERATION"} \in SUBSET OfsmFlags
      BY ReadType DEF OfsmFlags
    <3>2. QED
      BY <2>2, <3>1, WriteKeeps DEF FsmLabels
  <2>3. CASE At(s, "setupTime")
    <3>1. PICK passed \in 0 .. MaxDelay : SetTimeBack(passed)
      BY <1>1, <2>3, BoundAssumption DEF Setup, At
    <3>2. /\ wakeup' \in Sleep /\ fsm' \in Sleep
          /\ local' \in [Session -> [event : SUBSET Event, collected : Sleep,
                                     read : SUBSET OfsmFlags]]
      BY <3>1, SetTimeBackKeeps
    <3>3. pc' = [pc EXCEPT ![s] = "pass"]
          /\ UNCHANGED << declared, queue, flags, session, main, heart >>
      BY <1>1, <2>3 DEF Setup, At, Goto
    <3>4. pc' \in [Session -> FsmLabels]
      BY <3>3 DEF TypeOK, FsmLabels
    <3>5. QED
      BY <3>2, <3>3, <3>4 DEF TypeOK
  <2>4. QED
    BY <1>1, <2>1, <2>2, <2>3 DEF Setup
<1>2. CASE StartPass(s) \/ Decide(s)
  <2>1. pc' \in [Session -> FsmLabels]
    BY <1>2 DEF StartPass, Decide, Goto, TypeOK, FsmLabels
  <2>2. flags' \subseteq OfsmFlags
    BY <1>2 DEF StartPass, Decide, TypeOK, OfsmFlags
  <2>3. UNCHANGED << declared, queue, wakeup, fsm, session, main, heart, local >>
    BY <1>2 DEF StartPass, Decide
  <2>4. QED
    BY <2>1, <2>2, <2>3 DEF TypeOK
<1>3. CASE DequeueEvent(s)
  <2>1. pc' \in [Session -> FsmLabels]
    BY <1>3 DEF DequeueEvent, Goto, TypeOK, FsmLabels
  <2>2. queue' \in RingType(QueueSize, Event)
    BY <1>3, DequeueKeepsType DEF DequeueEvent, TypeOK
  <2>3. CurrentEvent(queue) \in Event
    BY DequeueKeepsType DEF TypeOK
  <2>4. local' \in [Session -> [event : SUBSET Event, collected : Sleep,
                                read : SUBSET OfsmFlags]]
    <3>1. [local[s] EXCEPT !.event = {CurrentEvent(queue)}] \in
              [event : SUBSET Event, collected : Sleep, read : SUBSET OfsmFlags]
      BY <2>3 DEF TypeOK
    <3>2. \/ local' = local
          \/ local' = [local EXCEPT ![s] = [local[s] EXCEPT !.event = {CurrentEvent(queue)}]]
      BY <1>3 DEF DequeueEvent
    <3>3. QED
      BY <3>1, <3>2 DEF TypeOK
  <2>5. flags' \subseteq OfsmFlags
    BY <1>3 DEF DequeueEvent, TypeOK, OfsmFlags
  <2>6. UNCHANGED << declared, wakeup, fsm, session, main, heart >>
    BY <1>3 DEF DequeueEvent
  <2>7. QED
    BY <2>1, <2>2, <2>4, <2>5, <2>6 DEF TypeOK
<1>4. CASE ProcessEvent(s)
  <2>1. fsm' \in Sleep
    BY <1>4 DEF ProcessEvent, TypeOK
  <2>2. [NoLocal EXCEPT !.collected = fsm'] \in
            [event : SUBSET Event, collected : Sleep, read : SUBSET OfsmFlags]
    BY <2>1, NoLocalType
  <2>3. /\ local' = [local EXCEPT ![s] = [NoLocal EXCEPT !.collected = fsm']]
        /\ pc' = [pc EXCEPT ![s] = "decide"]
        /\ UNCHANGED << declared, queue, flags, wakeup, session, main, heart >>
    BY <1>4 DEF ProcessEvent, Goto
  <2>4. pc' \in [Session -> FsmLabels]
    BY <2>3 DEF TypeOK, FsmLabels
  <2>5. QED
    BY <2>1, <2>2, <2>3, <2>4 DEF TypeOK
<1>5. CASE QueueTimeout(s)
  <2>1. UNCHANGED << declared, wakeup, fsm, session, main, heart, local >>
    BY <1>5 DEF QueueTimeout
  <2>2. queue' \in RingType(QueueSize, Event) /\ flags' \subseteq OfsmFlags
    <3>1. CASE QueueGroupEvent(FALSE, TimeoutEvent)
      BY <3>1, QueueingKeeps, TimeoutType
    <3>2. CASE UNCHANGED << queue, flags >>
      BY <3>2 DEF TypeOK
    <3>3. QED
      BY <1>5, <3>1, <3>2 DEF QueueTimeout
  <2>3. pc' \in [Session -> FsmLabels]
    <3>1. /\ [pc EXCEPT ![s] = "pass"] \in [Session -> FsmLabels]
          /\ [pc EXCEPT ![s] = "timeoutNotify"] \in [Session -> FsmLabels]
      BY DEF TypeOK, FsmLabels
    <3>2. QED
      BY <1>5, <3>1, NotifyKeeps DEF QueueTimeout, Goto
  <2>4. QED
    BY <2>1, <2>2, <2>3 DEF TypeOK
<1>6. CASE PrepareSleep(s)
  <2>1. wakeup' \in Sleep
    BY <1>6 DEF PrepareSleep, TypeOK
  <2>2. flags' \subseteq OfsmFlags
    BY <1>6 DEF PrepareSleep, TypeOK, OfsmFlags
  <2>3. /\ local' = [local EXCEPT ![s] = NoLocal]
        /\ pc' = [pc EXCEPT ![s] = "enter"]
        /\ UNCHANGED << declared, queue, fsm, session, main, heart >>
    BY <1>6 DEF PrepareSleep, Goto
  <2>4. pc' \in [Session -> FsmLabels]
    BY <2>3 DEF TypeOK, FsmLabels
  <2>5. QED
    BY <2>1, <2>2, <2>3, <2>4, NoLocalType DEF TypeOK
<1>7. CASE EnterSleep(s)
  <2>1. CASE /\ ReadFlags(s, "enterWrite") \/ ReadFlags(s, "wakeWrite")
             /\ UNCHANGED declared
    <3>1. declared' \in BOOLEAN
      BY <2>1 DEF TypeOK
    <3>2. QED
      BY <2>1, <3>1, ReadKeeps DEF FsmLabels
  <2>2. CASE \/ WriteFlags(s, local[s].read \ {"IN_PROCESS"}, "wait")
             \/ WriteFlags(s, local[s].read \ {"EVENT_QUEUED", "INFINITE_SLEEP"},
                           AfterWait(local[s].read))
    <3>1. /\ local[s].read \ {"IN_PROCESS"} \in SUBSET OfsmFlags
          /\ local[s].read \ {"EVENT_QUEUED", "INFINITE_SLEEP"} \in SUBSET OfsmFlags
      BY ReadType
    <3>2. "wait" \in FsmLabels /\ AfterWait(local[s].read) \in FsmLabels
      BY DEF FsmLabels, AfterWait
    <3>3. QED
      BY <2>2, <3>1, <3>2, WriteKeeps
  <2>3. CASE /\ Goto(s, "waiting")
             /\ UNCHANGED << declared, queue, flags, wakeup, fsm, session, main,
                             heart, local >>
    <3>1. pc' \in [Session -> FsmLabels]
      BY <2>3 DEF Goto, TypeOK, FsmLabels
    <3>2. QED
      BY <2>3, <3>1 DEF TypeOK
  <2>4. QED
    BY <1>7, <2>1, <2>2, <2>3 DEF EnterSleep
<1>8. QED
  BY <1>1, <1>2, <1>3, <1>4, <1>5, <1>6, <1>7 DEF FsmThread

\* A wait that returns by itself.
LEMMA SpuriousKeeps ==
    ASSUME TypeOK, NEW s \in Session, SpuriousWakeup(s)
    PROVE  TypeOK'
<1>1. pc' \in [Session -> FsmLabels]
  BY DEF SpuriousWakeup, Goto, TypeOK, FsmLabels
<1>2. QED
  BY <1>1 DEF SpuriousWakeup, TypeOK

\* The heartbeat thread.
LEMMA HeartbeatThreadKeeps ==
    ASSUME TypeOK, NEW s \in Session, HeartbeatThread(s)
    PROVE  TypeOK'
<1>1. heart' \in [Session -> {"look", "beat", "notify", "done"}]
  BY DEF HeartbeatThread, LookForExit, Beat, HeartbeatNotifies, TypeOK
<1>2. CASE LookForExit(s)
  BY <1>1, <1>2 DEF LookForExit, TypeOK
<1>3. CASE Beat(s)
  <2> PICK ticks \in TicksOf(s) :
          /\ wakeup' = Nearer(wakeup, ticks)
          /\ fsm' = Nearer(fsm, ticks)
          /\ local' = [i \in Session |->
                          [local[i] EXCEPT !.collected = Nearer(local[i].collected, ticks)]]
    BY <1>3 DEF Beat
  <2> ticks \in Nat
    BY TicksAreNat
  <2>1. wakeup' \in Sleep /\ fsm' \in Sleep
    BY SleepTypes DEF TypeOK
  <2>2. local' \in [Session -> [event : SUBSET Event, collected : Sleep,
                                read : SUBSET OfsmFlags]]
    <3>1. ASSUME NEW i \in Session
          PROVE  [local[i] EXCEPT !.collected = Nearer(local[i].collected, ticks)] \in
                     [event : SUBSET Event, collected : Sleep, read : SUBSET OfsmFlags]
      BY SleepTypes DEF TypeOK
    <3>2. QED
      BY <3>1
  <2>3. queue' \in RingType(QueueSize, Event) /\ flags' \subseteq OfsmFlags
    <3>1. CASE QueueGroupEvent(FALSE, TimeoutEvent)
      BY <3>1, QueueingKeeps, TimeoutType
    <3>2. CASE UNCHANGED << queue, flags >>
      BY <3>2 DEF TypeOK
    <3>3. QED
      BY <1>3, <3>1, <3>2 DEF Beat
  <2>4. UNCHANGED << declared, session, main, pc >>
    BY <1>3 DEF Beat
  <2>5. QED
    BY <1>1, <2>1, <2>2, <2>3, <2>4 DEF TypeOK
<1>4. CASE HeartbeatNotifies(s)
  <2>1. pc' \in [Session -> FsmLabels]
    BY <1>4, NotifyKeeps DEF HeartbeatNotifies, TypeOK
  <2>2. QED
    BY <1>1, <1>4, <2>1 DEF HeartbeatNotifies, TypeOK
<1>5. QED
  BY <1>2, <1>3, <1>4 DEF HeartbeatThread

\* The main thread and its commands.
LEMMA MainThreadKeeps ==
    ASSUME TypeOK, MainThread \/ Commands
    PROVE  TypeOK'
<1>1. CASE CommandNotifies \/ ExitNotifies
  <2>1. Notify(pc) /\ main' \in MainLabels
        /\ UNCHANGED << declared, queue, flags, wakeup, fsm, session, heart, local >>
    BY <1>1 DEF CommandNotifies, ExitNotifies, MainLabels
  <2>2. pc' \in [Session -> FsmLabels]
    BY <2>1, NotifyKeeps DEF TypeOK
  <2>3. QED
    BY <2>1, <2>2 DEF TypeOK
<1>2. CASE ResetGlobals
  <2>1. CASE main = "exiting"
    BY <1>2, <2>1 DEF ResetGlobals, TypeOK, MainLabels, OfsmFlags
  <2>2. CASE main = "resetTime"
    <3>1. PICK passed \in 0 .. MaxDelay : SetTimeBack(passed)
      BY <1>2, <2>2 DEF ResetGlobals
    <3>2. /\ wakeup' \in Sleep /\ fsm' \in Sleep
          /\ local' \in [Session -> [event : SUBSET Event, collected : Sleep,
                                     read : SUBSET OfsmFlags]]
      BY <3>1, SetTimeBackKeeps
    <3>3. /\ main' = "resetWakeup"
          /\ UNCHANGED << declared, queue, flags, session, heart, pc >>
      BY <1>2, <2>2 DEF ResetGlobals
    <3>4. QED
      BY <3>2, <3>3 DEF TypeOK, MainLabels, AfterReset
  <2>3. CASE main = "resetWakeup"
    BY <1>2, <2>3, SleepTypes DEF ResetGlobals, TypeOK, MainLabels, AfterReset
  <2>4. QED
    BY <1>2, <2>1, <2>2, <2>3 DEF ResetGlobals
<1>3. CASE ResetGroup
  <2>1. 0 \in 0 .. QueueSize - 1
    BY QueueSizeAssumption
  <2>2. queue' \in RingType(QueueSize, Event)
    BY <1>3, <2>1 DEF ResetGroup, TypeOK, RingType
  <2>3. fsm' \in Sleep /\ main' \in MainLabels
    BY <1>3, SleepTypes DEF ResetGroup, TypeOK, MainLabels, AfterReset
  <2>4. QED
    BY <1>3, <2>2, <2>3 DEF ResetGroup, TypeOK
<1>4. CASE NewSession
  <2>1. /\ session' \in Session /\ main' \in MainLabels
        /\ heart' = [heart EXCEPT ![session'] = "look"]
        /\ pc' = [pc EXCEPT ![session'] = "setup"]
        /\ UNCHANGED << declared, queue, flags, wakeup, fsm, local >>
    BY <1>4 DEF NewSession, MainLabels
  <2>2. heart' \in [Session -> {"look", "beat", "notify", "done"}]
    BY <2>1 DEF TypeOK
  <2>3. pc' \in [Session -> FsmLabels]
    BY <2>1 DEF TypeOK, FsmLabels
  <2>4. QED
    BY <2>1, <2>2, <2>3 DEF TypeOK
<1>5. CASE Exit
  BY <1>5 DEF Exit, TypeOK, OfsmFlags, MainLabels
<1>6. CASE \E force \in BOOLEAN, e \in Event : QueueCommand(force, e)
  <2>1. PICK force \in BOOLEAN, e \in Event : QueueCommand(force, e)
    BY <1>6
  <2>2. queue' \in RingType(QueueSize, Event) /\ flags' \subseteq OfsmFlags
    BY <2>1, QueueingKeeps DEF QueueCommand
  <2>3. QED
    BY <2>1, <2>2 DEF QueueCommand, TypeOK, MainLabels
<1>7. QED
  BY <1>1, <1>2, <1>3, <1>4, <1>5, <1>6 DEF MainThread, Commands

-----------------------------------------------------------------------------

\* Indices, flags, times and places of the threads keep their types, whatever
\* unlocked writes, spurious wakeups and resets come between their steps.
THEOREM SimTypeCorrect == Spec => []TypeOK
<1>1. TypeOK /\ [Next]_vars => TypeOK'
  <2> SUFFICES ASSUME TypeOK, [Next]_vars PROVE TypeOK'
    OBVIOUS
  <2>1. CASE UNCHANGED vars
    BY <2>1 DEF vars, TypeOK
  <2>2. QED
    BY <2>1, FsmThreadKeeps, SpuriousKeeps, HeartbeatThreadKeeps, MainThreadKeeps
    DEF Next
<1>2. QED
  BY <1>1, InitTypeOK, PTL DEF Spec
=============================================================================
