----------------------- MODULE OfsmIntersection_proofs -----------------------
(***************************************************************************)
(* Proofs about the application examples/ofsmIntersection: the two green   *)
(* lights exclude each other, and the button follows the lights, for every *)
(* length of the phases, every layout of the queues in memory and every    *)
(* number of presses, as long as the button does not bounce.               *)
(***************************************************************************)
EXTENDS OfsmIntersection, OfsmWakeup_proofs

Crosswalk == "CrosswalkFsm"
Road1 == "RoadFsm1"
Road2 == "RoadFsm2"

\* The code of the event a group holds: calm queues never hold two.
Held(g) == IF IsEmpty(queue[g]) THEN {} ELSE {CurrentEvent(queue[g]).code}
OneEvent == \A g \in Groups : IsEmpty(queue[g]) \/ IsEmpty(Dequeue(queue[g]))

\* The loop has not slept yet: a TIMEOUT is for FSMs in infinite sleep too.
First == "FIRST_ITERATION" \in flags
\* The group has its turn in the pass.
Turn(g) == pc \in {"fsm", "handler"} /\ loop.group = g

\* An FSM of the group is still to make its queueing calls in this turn.
CallsLeft == pc = "fsm" \/ handling.effect.calls # << >>

\* The event of this turn.
Brings(code) == visit.pending /\ visit.event.code = code

IsIn(f, s) == fsm[f].currentState = s

\* A road whose light is off and that sleeps until it is handed GO_GREEN.
Off(r) == IsIn(r, "GreenLightOff") /\ ~Finite(r) /\ ~light[r]

\* In GreenLightOff also while its light is still on: clearing.
NotClearing(r) == IsIn(r, "GreenLightOff") => Off(r)

\* Every event finds its queue empty, wherever the loop is: a road queues in
\* its turn only if it is not waiting for GO_GREEN, the other one then is, and
\* the crosswalk has taken its events before the roads have their turn.
RoomForAll ==
    /\ OneEvent
    /\ Held(RoadGrp) \subseteq 0 .. GO_GREEN
    /\ pc = "timeout" => /\ Held(RoadGrp) = {} /\ BUTTON_PRESSED \notin Held(CrosswalkGrp)
                         /\ loop.group = CrosswalkGrp => Held(CrosswalkGrp) = {}
    /\ BUTTON_PRESSED \in Held(CrosswalkGrp) => Held(RoadGrp) = {}
    /\ pc = "dequeue" /\ loop.group = RoadGrp => Held(CrosswalkGrp) = {}
    /\ pc = "presleep" => "EVENT_QUEUED" \notin flags
    /\ pc = "asleep" => /\ Held(CrosswalkGrp) \subseteq {TIMEOUT, BUTTON_PRESSED}
                        /\ Held(RoadGrp) \subseteq {TIMEOUT}
    /\ Turn(CrosswalkGrp) =>
          /\ Held(CrosswalkGrp) = {}
          /\ Brings(BUTTON_PRESSED) /\ CallsLeft => Held(RoadGrp) = {}
    /\ Turn(RoadGrp) =>
          /\ BUTTON_PRESSED \notin Held(CrosswalkGrp)
          /\ visit.event.code \in 0 .. GO_GREEN
          /\ ~IsIn(CurrentFsm, "GreenLightOff") => Held(RoadGrp) = {}
          /\ CallsLeft =>
                /\ visit.fsmIndex = 1 => Held(CrosswalkGrp) = {} /\ Held(RoadGrp) = {}
                /\ visit.fsmIndex = 2 /\ ~Off(Road2) =>
                      Held(CrosswalkGrp) = {} /\ Held(RoadGrp) = {}
                /\ visit.fsmIndex = 2 /\ First => Held(RoadGrp) = {}

\* The handler that is running, in which state, towards which.
Runs(s, h, t) ==
    fsm[CurrentFsm].currentState = s /\ RunningHandler = h /\ handling.newState = t

\* What it asks for is what its code does, its one call made or not.
EffectKnown ==
    \E e \in HandlerEffects[RunningHandler] :
        handling.effect \in {e, [e EXCEPT !.calls = << >>]}


\* The handlers that run are those of the tables, for the events they are for.
HandlerKnown ==
    pc = "handler" =>
        /\ visit.pending /\ handling.now = clock /\ EffectKnown
        /\ loop.group = RoadGrp =>
              /\ visit.event.code = TIMEOUT
              /\ First \/ Finite(CurrentFsm)
              /\ \/ Runs("GreenLightOn", "OnRoadGreen", "ClearIntersection")
                 \/ Runs("ClearIntersection", "OnRoadClearIntersection", "GreenLightOff")
                 \/ Runs("GreenLightOff", "OnRoadRed", "GreenLightOff")
        /\ loop.group = CrosswalkGrp =>
              \/ /\ visit.event.code = BUTTON_PRESSED
                 /\ Runs("WaitForButtonPress", "OnCrosswalkButtonPressed", "Disabled")
              \/ /\ visit.event.code = DISABLE_BUTTON
                 /\ Runs("WaitForButtonPress", "OnCrosswalkDisableButton", "Disabled")
              \/ /\ visit.event.code = ARM_BUTTON
                 /\ Runs("Disabled", "OnCrosswalkArmButton", "WaitForButtonPress")

\* The states of the FSMs; a road in GreenLightOff is clearing or off.
RoadsInState ==
    /\ light \in [Road -> BOOLEAN]
    /\ IsIn(Crosswalk, "WaitForButtonPress") \/ IsIn(Crosswalk, "Disabled")
    /\ \A r \in Road : \/ IsIn(r, "GreenLightOn") \/ IsIn(r, "ClearIntersection")
                       \/ IsIn(r, "GreenLightOff") /\ (Finite(r) \/ Off(r))

\* What excludes two green lights.
OneIsOff == \E r \in Road : Off(r)

\* Until its first sleep the loop hands a TIMEOUT to RoadFsm2 as well, though it
\* is off; RoadFsm1 has then not reached GreenLightOff, for no time has passed.
FirstPasses ==
    First =>
        /\ pc # "asleep" /\ clock = 0 /\ "TIMER_OVERFLOW" \notin flags
        /\ Off(Road2)
        /\ \/ IsIn(Road1, "GreenLightOn")
           \/ /\ IsIn(Road1, "ClearIntersection") /\ Register(fsm[Road1].wakeup) > 0
              /\ pc = "handler" => CurrentFsm # Road1
        /\ BUTTON_PRESSED \notin Held(CrosswalkGrp) /\ PEDESTRIAN_AWAITS \notin Held(RoadGrp)
        /\ pc \in {"fsm", "handler"} => ~Brings(BUTTON_PRESSED)

\* The road skips the GO_GREEN it has sent; the roads are being handed it.
Marked(f) == fsm[f].skipNextEventCode = GO_GREEN
Handing == pc = "fsm" /\ loop.group = RoadGrp /\ Brings(GO_GREEN)

\* Of the two roads, the sender of a GO_GREEN is off, skips it once, and the
\* other is not clearing: only the other one takes it.
MarksOK ==
    /\ \A r \in Road : Marked(r) \/ fsm[r].skipNextEventCode = NoSkip
    /\ fsm[Crosswalk].skipNextEventCode = NoSkip
    /\ (\E r \in Road : Marked(r)) => GO_GREEN \in Held(RoadGrp) \/ Handing
    /\ GO_GREEN \in Held(RoadGrp) =>
          \E s \in Road, o \in Road :
              /\ s # o /\ Marked(s) /\ ~Marked(o) /\ NotClearing(o)
              /\ \/ Off(s)
                 \/ pc = "handler" /\ CurrentFsm = s /\ IsIn(s, "GreenLightOff")
    /\ Handing =>
          /\ Held(RoadGrp) = {}
          /\ visit.fsmIndex = 1 =>
                \E s \in Road, o \in Road :
                    s # o /\ Marked(s) /\ ~Marked(o) /\ NotClearing(o) /\ Off(s)
          /\ visit.fsmIndex = 2 =>
                /\ ~Marked(Road1)
                /\ \/ Marked(Road2) /\ Off(Road2)
                   \/ ~Marked(Road2) /\ Off(Road1) /\ NotClearing(Road2)

CrossingInv ==
    /\ RoomForAll /\ HandlerKnown /\ RoadsInState /\ OneIsOff /\ FirstPasses /\ MarksOK

\* The crosswalk has been told to arm, to disable the button, and has not
\* finished with it.
Arming ==
    ARM_BUTTON \in Held(CrosswalkGrp) \/ (Turn(CrosswalkGrp) /\ Brings(ARM_BUTTON))
Disabling ==
    DISABLE_BUTTON \in Held(CrosswalkGrp) \/ (Turn(CrosswalkGrp) /\ Brings(DISABLE_BUTTON))

\* The road is still to hear of a pedestrian.
Calling(r) ==
    \/ PEDESTRIAN_AWAITS \in Held(RoadGrp)
    \/ /\ pc = "fsm" /\ loop.group = RoadGrp /\ Brings(PEDESTRIAN_AWAITS)
       /\ visit.fsmIndex = 1 \/ r = Road2

Traffic == \E r \in Road : IsIn(r, "ClearIntersection")
Waiting == IsIn(Crosswalk, "WaitForButtonPress")

\* A road in the state has told the crosswalk, but has not yet left it.
RoadCalled(s) ==
    pc = "handler" /\ loop.group = RoadGrp /\ IsIn(CurrentFsm, s) /\ ~CallsLeft

\* The crosswalk waits in traffic mode, or is being told to; a road stays in
\* traffic mode without it only while a pedestrian's call is on its way or its
\* time has come.
ButtonInv ==
    /\ Waiting => attached
    /\ Arming => ~Waiting /\ (Traffic \/ RoadCalled("GreenLightOn"))
    /\ Disabling => ~Traffic \/ RoadCalled("ClearIntersection")
    /\ ~Traffic => ~Waiting \/ Disabling
    /\ \A r \in Road : IsIn(r, "ClearIntersection") =>
          Arming \/ Waiting \/ Calling(r) \/ Due(r)
    /\ RoadCalled("GreenLightOn") => ARM_BUTTON \in Held(CrosswalkGrp)
    /\ RoadCalled("ClearIntersection") => DISABLE_BUTTON \in Held(CrosswalkGrp)
    /\ pc = "handler" /\ loop.group = CrosswalkGrp /\ Brings(BUTTON_PRESSED) /\ ~CallsLeft
          => PEDESTRIAN_AWAITS \in Held(RoadGrp)
    /\ pc = "asleep" /\ Traffic => Waiting

\* The loop goes to rest with nothing due.
RestsInTime == pc = "presleep" => NotDueYet

-----------------------------------------------------------------------------
(* The application's constants *)

\* The groups and their members.
LEMMA Layout ==
    /\ Groups = {CrosswalkGrp, RoadGrp} /\ Len(GroupFsms) = 2
    /\ Len(GroupFsms[CrosswalkGrp]) = 1 /\ Len(GroupFsms[RoadGrp]) = 2
    /\ GroupFsms[CrosswalkGrp][1] = Crosswalk
    /\ GroupFsms[RoadGrp][1] = Road1 /\ GroupFsms[RoadGrp][2] = Road2
    /\ Road = {Road1, Road2} /\ Fsm = {Road1, Road2, Crosswalk}
    /\ \A g \in Groups : QueueSize[g] = 2
    /\ Road1 # Road2 /\ Crosswalk \notin Road
BY IntersectionAssumption
DEF Groups, Members, CrosswalkGrp, RoadGrp, Road, Road1, Road2, Crosswalk

\* The event codes.
LEMMA Codes ==
    /\ TIMEOUT = 0 /\ EventCode = {0, 1, 2, 3} /\ NoSkip = 255
    /\ Event = [code : {0, 1, 2, 3}, data : {0}]
    /\ TimeoutEvent = [code |-> 0, data |-> 0]
BY IntersectionAssumption DEF TIMEOUT, ARM_BUTTON, Event, TimeoutEvent

\* The rows of a road.
LEMMA RoadTable ==
    ASSUME NEW r \in Road
    PROVE  /\ \A s \in {"GreenLightOn", "ClearIntersection", "GreenLightOff"} :
                  DOMAIN Table[r][s] = {0, 1, 2}
           /\ Table[r]["GreenLightOn"][0] = Goes("OnRoadGreen", "ClearIntersection")
           /\ Table[r]["GreenLightOn"][1].eventHandler = NullHandler
           /\ Table[r]["GreenLightOn"][2].eventHandler = NullHandler
           /\ Table[r]["ClearIntersection"][0] =
                  Goes("OnRoadClearIntersection", "GreenLightOff")
           /\ Table[r]["ClearIntersection"][1] = Goes(NopHandler, "ClearIntersection")
           /\ Table[r]["ClearIntersection"][2].eventHandler = NullHandler
           /\ Table[r]["GreenLightOff"][0] = Goes("OnRoadRed", "GreenLightOff")
           /\ Table[r]["GreenLightOff"][1].eventHandler = NullHandler
           /\ Table[r]["GreenLightOff"][2] = Goes(NopHandler, "GreenLightOn")
<1> DEFINE roadStates == {"GreenLightOn", "ClearIntersection", "GreenLightOff"}
<1>1. Table[r] = Rows(roadTransitionTable)
  BY IntersectionAssumption DEF Tables
<1>2. DOMAIN roadTransitionTable = roadStates
  BY DEF roadTransitionTable, RoadRows, Columns
<1>3. \A s \in roadStates : Table[r][s] = roadTransitionTable[s]
  BY <1>1, <1>2 DEF Rows, States
<1>4. \A s \in roadStates : DOMAIN roadTransitionTable[s] = 0 .. 2
  BY DEF roadTransitionTable, RoadRows, Columns, GO_GREEN
<1>5. /\ roadTransitionTable["GreenLightOn"][0] = Goes("OnRoadGreen", "ClearIntersection")
      /\ roadTransitionTable["GreenLightOn"][1] = NoHandler
      /\ roadTransitionTable["GreenLightOn"][2] = NoHandler
      /\ roadTransitionTable["ClearIntersection"][0] =
             Goes("OnRoadClearIntersection", "GreenLightOff")
      /\ roadTransitionTable["ClearIntersection"][1] = Goes("NOP", "ClearIntersection")
      /\ roadTransitionTable["ClearIntersection"][2] = NoHandler
      /\ roadTransitionTable["GreenLightOff"][0] = Goes("OnRoadRed", "GreenLightOff")
      /\ roadTransitionTable["GreenLightOff"][1] = NoHandler
      /\ roadTransitionTable["GreenLightOff"][2] = Goes("NOP", "GreenLightOn")
  BY DEF roadTransitionTable, RoadRows, Columns, GO_GREEN, PEDESTRIAN_AWAITS
<1>6. NoHandler.eventHandler = NullHandler /\ NopHandler = "NOP"
  BY IntersectionAssumption DEF NoHandler, Goes
<1>7. QED
  BY <1>3, <1>4, <1>5, <1>6

\* The rows of the crosswalk.
LEMMA CrosswalkTable ==
    /\ \A s \in {"WaitForButtonPress", "Disabled"} :
           DOMAIN Table[Crosswalk][s] = {0, 1, 2, 3}
    /\ Table[Crosswalk]["WaitForButtonPress"][0].eventHandler = NullHandler
    /\ Table[Crosswalk]["WaitForButtonPress"][1] =
           Goes("OnCrosswalkButtonPressed", "Disabled")
    /\ Table[Crosswalk]["WaitForButtonPress"][2] =
           Goes("OnCrosswalkDisableButton", "Disabled")
    /\ Table[Crosswalk]["WaitForButtonPress"][3].eventHandler = NullHandler
    /\ Table[Crosswalk]["Disabled"][0].eventHandler = NullHandler
    /\ Table[Crosswalk]["Disabled"][1].eventHandler = NullHandler
    /\ Table[Crosswalk]["Disabled"][2].eventHandler = NullHandler
    /\ Table[Crosswalk]["Disabled"][3] =
           Goes("OnCrosswalkArmButton", "WaitForButtonPress")
<1> DEFINE crosswalkStates == {"WaitForButtonPress", "Disabled"}
<1>1. Table[Crosswalk] = Rows(crosswalkTransitionTable)
  BY IntersectionAssumption, Layout DEF Tables, Crosswalk, Road
<1>2. DOMAIN crosswalkTransitionTable = crosswalkStates
  BY DEF crosswalkTransitionTable, Columns
<1>3. \A s \in crosswalkStates : Table[Crosswalk][s] = crosswalkTransitionTable[s]
  BY <1>1, <1>2 DEF Rows, States
<1>4. \A s \in crosswalkStates : DOMAIN crosswalkTransitionTable[s] = 0 .. 3
  BY DEF crosswalkTransitionTable, Columns, ARM_BUTTON
<1>5. /\ crosswalkTransitionTable["WaitForButtonPress"][0] = NoHandler
      /\ crosswalkTransitionTable["WaitForButtonPress"][1] =
             Goes("OnCrosswalkButtonPressed", "Disabled")
      /\ crosswalkTransitionTable["WaitForButtonPress"][2] =
             Goes("OnCrosswalkDisableButton", "Disabled")
      /\ crosswalkTransitionTable["WaitForButtonPress"][3] = NoHandler
      /\ crosswalkTransitionTable["Disabled"][0] = NoHandler
      /\ crosswalkTransitionTable["Disabled"][1] = NoHandler
      /\ crosswalkTransitionTable["Disabled"][2] = NoHandler
      /\ crosswalkTransitionTable["Disabled"][3] =
             Goes("OnCrosswalkArmButton", "WaitForButtonPress")
  BY DEF crosswalkTransitionTable, Columns, ARM_BUTTON, BUTTON_PRESSED, DISABLE_BUTTON
<1>6. NoHandler.eventHandler = NullHandler
  BY IntersectionAssumption DEF NoHandler, Goes
<1>7. QED
  BY <1>3, <1>4, <1>5, <1>6

\* The handlers' queueing calls.
ArmCall == Queues(CrosswalkGrp, ARM_BUTTON, FALSE)
DisableCall == Queues(CrosswalkGrp, DISABLE_BUTTON, FALSE)
GreenCall == Queues(ThisGroup, GO_GREEN, TRUE)
PedestrianCall == Queues(RoadGrp, PEDESTRIAN_AWAITS, FALSE)

\* What a running handler has asked for, and the call it may have left.
Asked(infinite, delay, call) ==
    /\ ~handling.effect.prevent /\ handling.effect.infinite = infinite
    /\ handling.effect.setDelay = (delay # 0) /\ handling.effect.delay = delay
    /\ handling.effect.calls \in {<< >>, call}

\* The handlers' code.
LEMMA HandlerAsks ==
    ASSUME EffectKnown
    PROVE  /\ RunningHandler = "OnRoadGreen" =>
                  Asked(FALSE, GREEN_LIGHT_TIMEOUT,
                        << ArmCall >>)
           /\ RunningHandler = "OnRoadClearIntersection" =>
                  Asked(FALSE, CLEAR_INTERSECTION_TIMEOUT,
                        << DisableCall >>)
           /\ RunningHandler = "OnRoadRed" =>
                  Asked(TRUE, 0, << GreenCall >>)
           /\ RunningHandler = "OnCrosswalkButtonPressed" =>
                  Asked(FALSE, 0, << PedestrianCall >>)
           /\ RunningHandler \in {"OnCrosswalkArmButton", "OnCrosswalkDisableButton"} =>
                  Asked(FALSE, 0, << >>)
<1>1. PICK e \in HandlerEffects[RunningHandler] :
         handling.effect \in {e, [e EXCEPT !.calls = << >>]}
  BY DEF EffectKnown
<1>2. ASSUME NEW calls, NEW infinite, NEW delay, e \in Asks(calls, infinite, delay)
      PROVE  Asked(infinite, delay, calls)
  BY <1>1, <1>2 DEF Asks, Asked
<1>3. /\ HandlerEffects["OnRoadGreen"] = OnRoadGreen
      /\ HandlerEffects["OnRoadRed"] = OnRoadRed
      /\ HandlerEffects["OnRoadClearIntersection"] = OnRoadClearIntersection
      /\ HandlerEffects["OnCrosswalkButtonPressed"] = OnCrosswalkButtonPressed
      /\ HandlerEffects["OnCrosswalkArmButton"] = Asks(<< >>, FALSE, 0)
      /\ HandlerEffects["OnCrosswalkDisableButton"] = Asks(<< >>, FALSE, 0)
  BY DEF HandlerEffects
<1>4. QED
  BY <1>2, <1>3 DEF OnRoadGreen, OnRoadRed, OnRoadClearIntersection,
     OnCrosswalkButtonPressed, ArmCall, DisableCall, GreenCall, PedestrianCall

-----------------------------------------------------------------------------
(* The events that the groups hold *)

\* An event put into an empty queue is the only one there.
LEMMA EnqueueOnEmpty ==
    ASSUME NEW q \in Ring(2, Event), IsEmpty(q), NEW force \in BOOLEAN, NEW e \in Event
    PROVE  LET r == Enqueue(q, force, e) IN
           /\ TakesSlot(q, force, e) /\ ~Misses(q, force, e)
           /\ ~IsEmpty(r) /\ CurrentEvent(r) = e /\ IsEmpty(Dequeue(r))
<1> DEFINE r == Enqueue(q, force, e)
<1>1. /\ q.eventQueue \in [0 .. 1 -> Event] /\ q.eventQueueSize = 2
      /\ q.nextEventIndex \in 0 .. 1 /\ q.currentEventIndex = q.nextEventIndex
      /\ ~q.overflow
  BY DEF Ring, RingType, IsEmpty
<1>2. Forced(q, force, e.code)
  BY <1>1 DEF Forced
<1>3. /\ TakesSlot(q, force, e) /\ ~Misses(q, force, e)
      /\ r = Store(q, q.nextEventIndex, e)
  BY <1>1, <1>2 DEF TakesSlot, Misses, StoreSlot, Compresses, Enqueue
<1>4. /\ r.eventQueue = [q.eventQueue EXCEPT ![q.nextEventIndex] = e]
      /\ r.eventQueueSize = 2 /\ r.currentEventIndex = q.currentEventIndex
      /\ r.nextEventIndex = NextSlot(q, q.nextEventIndex) /\ ~r.overflow
      /\ r.nextEventIndex # r.currentEventIndex
  BY <1>1, <1>3 DEF Store, NextSlot, Ring, RingType
<1>5. r \in Ring(2, Event)
  BY EnqueueKeepsRing
<1> HIDE DEF r
<1>6. ~IsEmpty(r) /\ CurrentEvent(r) = e
  BY <1>1, <1>4 DEF IsEmpty, CurrentEvent
<1>7. NextSlot(r, r.currentEventIndex) = r.nextEventIndex
  BY <1>1, <1>4 DEF NextSlot
<1>8. /\ Dequeue(r).currentEventIndex = NextSlot(r, r.currentEventIndex)
      /\ Dequeue(r).nextEventIndex = r.nextEventIndex /\ Dequeue(r).overflow = FALSE
  BY <1>5 DEF Dequeue, Ring, RingType
<1>9. QED
  BY <1>3, <1>6, <1>7, <1>8 DEF IsEmpty, r

\* So queued, it goes nowhere else and is signalled.
LEMMA QueueOnEmpty ==
    ASSUME QueuesOK, OneEvent, NEW g \in Groups, NEW force \in BOOLEAN, NEW e \in Event,
           Held(g) = {}, QueueGroupEvent(g, force, e)
    PROVE  /\ OneEvent' /\ Held(g)' = {e.code}
           /\ \A h \in Groups \ {g} : Held(h)' = Held(h)
           /\ flags' = flags \cup {"EVENT_QUEUED"}
<1> DEFINE q == queue[g]
           r == Enqueue(queue[g], force, e)
<1>1. q \in Ring(2, Event) /\ IsEmpty(q)
  BY Layout DEF QueuesOK, Held
<1>2. /\ TakesSlot(q, force, e) /\ ~Misses(q, force, e)
      /\ ~IsEmpty(r) /\ CurrentEvent(r) = e /\ IsEmpty(Dequeue(r))
  BY <1>1, EnqueueOnEmpty
<1>3. queue' = [h \in Groups |-> IF h = g THEN r ELSE queue[h]]
  BY <1>2 DEF QueueGroupEvent
<1>4. flags' = flags \cup {"EVENT_QUEUED"}
  BY <1>2 DEF QueueGroupEvent, Raise
<1> HIDE DEF r
<1>5. QED
  BY <1>2, <1>3, <1>4 DEF Held, OneEvent

\* A group's turn takes the event that the group holds, and leaves none.
LEMMA TakesHeld ==
    ASSUME QueuesOK, OneEvent, loop.group \in Groups, DequeueEvent
    PROVE  /\ OneEvent' /\ Held(loop.group)' = {}
           /\ \A h \in Groups \ {loop.group} : Held(h)' = Held(h)
           /\ UNCHANGED flags
           /\ visit'.fsmIndex = 1
           /\ visit'.pending => Held(loop.group) = {visit'.event.code}
           /\ Held(loop.group) # {} => visit'.pending
<1> DEFINE g == loop.group
           q == queue[g]
<1>1. q \in Ring(2, Event)
  BY Layout DEF QueuesOK
<1>2. /\ NoVisit.pending = FALSE /\ NoVisit.fsmIndex = 1
      /\ \A e : LET v == [NoVisit EXCEPT !.pending = TRUE, !.event = e] IN
                v.pending = TRUE /\ v.event = e /\ v.fsmIndex = 1
  BY DEF NoVisit
<1>3. CASE IsEmpty(q)
  BY <1>2, <1>3 DEF DequeueEvent, Held, OneEvent
<1>4. CASE ~IsEmpty(q)
  <2> DEFINE r == Dequeue(q)
  <2>1. /\ queue' = [queue EXCEPT ![g] = r]
        /\ visit' = [NoVisit EXCEPT !.pending = TRUE, !.event = CurrentEvent(q)]
        /\ flags' = Raise(flags, MorePending(r)) /\ UNCHANGED loop
    BY <1>4 DEF DequeueEvent
  <2>2. IsEmpty(r)
    BY <1>4 DEF OneEvent
  <2>3. IsEmpty(Dequeue(r)) \/ IsEmpty(r)
    BY <2>2
  <2>4. ~MorePending(r)
    BY <2>2 DEF IsEmpty, MorePending
  <2>5. queue = [h \in Groups |-> queue[h]]
    BY DEF QueuesOK
  <2> HIDE DEF r
  <2>6. \A h \in Groups : queue'[h] = IF h = g THEN r ELSE queue[h]
    BY <2>1, <2>5
  <2>7. QED
    BY <1>2, <1>4, <2>1, <2>2, <2>4, <2>6 DEF Held, OneEvent, Raise
<1>5. QED
  BY <1>3, <1>4

\* A heartbeat that finds the queues empty leaves a TIMEOUT in each or nothing.
LEMMA HeartbeatHeld ==
    ASSUME QueuesOK, NEW ticks \in 0 .. MaxTick, Heartbeat(ticks),
           \A g \in Groups : Held(g) = {}
    PROVE  /\ OneEvent' /\ \A g \in Groups : Held(g)' \subseteq {TIMEOUT}
           /\ flags' \subseteq flags \cup {"TIMER_OVERFLOW", "EVENT_QUEUED"}
           /\ flags \subseteq flags'
<1> DEFINE fs == IF Register(clock') < Register(clock)
                 THEN flags \cup {"TIMER_OVERFLOW"} ELSE flags
<1>1. \A g \in Groups : IsEmpty(queue[g]) /\ queue[g] \in Ring(2, Event)
  BY Layout DEF QueuesOK, Held
<1>2. CASE QueueGlobalTimeout(fs)
  <2> DEFINE ring(g) == Enqueue(queue[g], FALSE, TimeoutEvent)
  <2>1. \A g \in Groups : ~Misses(queue[g], FALSE, TimeoutEvent)
    BY <1>1, TimeoutEventType, EnqueueOnEmpty
  <2>2. \A g \in Groups : /\ ~HitFrom(1 .. g - 1, g)
                          /\ ~HitFrom(g + 1 .. Len(GroupFsms), g)
    <3>1. \A g \in Groups : /\ 1 .. g - 1 \subseteq Groups
                            /\ g + 1 .. Len(GroupFsms) \subseteq Groups
      BY Layout DEF CrosswalkGrp, RoadGrp
    <3>2. QED
      BY <2>1, <3>1 DEF HitFrom
  <2>3. \A g \in Groups : queue'[g] = ring(g)
    BY <1>2, <2>2 DEF QueueGlobalTimeout, BeforeTimeout, TrampleIf
  <2>4. flags' = Raise(fs, \E h \in Groups :
                               TakesSlot(BeforeTimeout(h), FALSE, TimeoutEvent))
    BY <1>2 DEF QueueGlobalTimeout
  <2>5. ASSUME NEW g \in Groups
        PROVE  ~IsEmpty(ring(g)) /\ CurrentEvent(ring(g)) = TimeoutEvent
               /\ IsEmpty(Dequeue(ring(g)))
    BY <1>1, TimeoutEventType, EnqueueOnEmpty
  <2> HIDE DEF ring
  <2>6. TimeoutEvent.code = TIMEOUT
    BY DEF TimeoutEvent
  <2>7. flags \subseteq flags' /\ flags' \subseteq flags \cup {"TIMER_OVERFLOW", "EVENT_QUEUED"}
    BY <2>4 DEF Raise
  <2>8. QED
    BY <2>3, <2>5, <2>6, <2>7 DEF Held, OneEvent
<1>3. CASE flags' = fs /\ UNCHANGED queue
  BY <1>1, <1>3 DEF Held, OneEvent
<1>4. QED
  BY <1>2, <1>3 DEF Heartbeat

-----------------------------------------------------------------------------
(* The turns of a pass *)

\* Where a turn leads, and what it leaves of the FSMs.
TurnTo(newFsm) ==
    /\ fsm' = [fsm EXCEPT ![CurrentFsm] = newFsm]
    /\ loop.group \in {CrosswalkGrp, RoadGrp} /\ loop'.group \in {CrosswalkGrp, RoadGrp}
    /\ loop.group = CrosswalkGrp =>
          CurrentFsm = Crosswalk /\ pc' = "dequeue" /\ loop'.group = RoadGrp
    /\ loop.group = RoadGrp =>
          \/ /\ CurrentFsm = Road1 /\ visit.fsmIndex = 1
             /\ pc' = "fsm" /\ loop'.group = RoadGrp /\ visit'.fsmIndex = 2
             /\ visit'.pending = visit.pending /\ visit'.event = visit.event
          \/ /\ CurrentFsm = Road2 /\ visit.fsmIndex = 2
             /\ pc' = "decide"

\* The crosswalk's turn is followed by the roads' group; the turn of RoadFsm1
\* by that of RoadFsm2, with the same event, and that by the end of the pass.
LEMMA TurnEnds ==
    ASSUME LocalsOK, pc \in {"fsm", "handler"}, NEW newFsm \in FsmRecord,
           EndTurn(CurrentFsm, newFsm)
    PROVE  TurnTo(newFsm)
<1> DEFINE seen == Collect(visit, newFsm.flags, Register(newFsm.wakeup))
           total == Collect(loop, seen.flags, seen.earliest)
<1>1. /\ loop \in LoopRecord /\ visit \in VisitRecord
      /\ visit.fsmIndex \in 1 .. Len(GroupFsms[loop.group])
      /\ loop.group \in Groups
  BY DEF LocalsOK, LoopRecord
<1>2. newFsm.flags \in SUBSET CommonFlags /\ Register(newFsm.wakeup) \in 0 .. MaxTime
  BY RegisterRange DEF FsmRecord
<1>3. seen \in VisitRecord /\ seen.fsmIndex = visit.fsmIndex
  BY <1>1, <1>2, CollectVisit
<1>4. seen.pending = visit.pending /\ seen.event = visit.event
  BY <1>1 DEF Collect, VisitRecord
<1>5. total.group = loop.group /\ total \in LoopRecord
  <2>1. seen.flags \in SUBSET CommonFlags /\ seen.earliest \in 0 .. MaxTime
    BY <1>3 DEF VisitRecord
  <2> HIDE DEF seen
  <2>2. QED
    BY <1>1, <2>1, CollectLoop
<1>6. /\ fsm' = [fsm EXCEPT ![CurrentFsm] = newFsm]
      /\ visit.fsmIndex # Len(GroupFsms[loop.group]) =>
            /\ visit' = [seen EXCEPT !.fsmIndex = visit.fsmIndex + 1]
            /\ pc' = "fsm" /\ UNCHANGED loop
      /\ visit.fsmIndex = Len(GroupFsms[loop.group]) =>
            /\ loop' = IF loop.group = Len(GroupFsms) THEN total
                       ELSE [total EXCEPT !.group = loop.group + 1]
            /\ pc' = IF loop.group = Len(GroupFsms) THEN "decide" ELSE "dequeue"
  BY <1>3, <1>5 DEF EndTurn
<1> HIDE DEF seen, total
<1>7. CASE loop.group = CrosswalkGrp
  BY <1>1, <1>5, <1>6, <1>7, Layout DEF CurrentFsm, TurnTo, CrosswalkGrp, RoadGrp, LoopRecord
<1>8. CASE loop.group = RoadGrp
  <2>1. CASE visit.fsmIndex = 1
    BY <1>1, <1>3, <1>4, <1>6, <1>8, <2>1, Layout
    DEF CurrentFsm, TurnTo, CrosswalkGrp, RoadGrp, VisitRecord
  <2>2. CASE visit.fsmIndex = 2
    BY <1>1, <1>5, <1>6, <1>8, <2>2, Layout
    DEF CurrentFsm, TurnTo, CrosswalkGrp, RoadGrp
  <2>3. QED
    BY <1>1, <1>8, <2>1, <2>2, Layout
<1>9. QED
  BY <1>1, <1>7, <1>8, Layout

\* A road without a handler: what makes of its record.
RoadLeft(r, newFsm) ==
    \/ /\ newFsm = fsm[r]
       /\ ~(Brings(GO_GREEN) /\ Marked(r))
       /\ ~(Brings(PEDESTRIAN_AWAITS) /\ IsIn(r, "ClearIntersection"))
    \/ /\ Brings(GO_GREEN) /\ Marked(r)
       /\ newFsm.skipNextEventCode = NoSkip
       /\ newFsm.currentState = fsm[r].currentState
       /\ newFsm.flags = fsm[r].flags /\ newFsm.wakeup = fsm[r].wakeup
    \/ /\ newFsm.skipNextEventCode = fsm[r].skipNextEventCode
       /\ newFsm.flags = {} /\ newFsm.wakeup = clock
       /\ \/ /\ Brings(PEDESTRIAN_AWAITS) /\ IsIn(r, "ClearIntersection")
             /\ newFsm.currentState = "ClearIntersection"
          \/ /\ Brings(GO_GREEN) /\ IsIn(r, "GreenLightOff") /\ ~Marked(r)
             /\ newFsm.currentState = "GreenLightOn"

StatesOK ==
    /\ IsIn(Crosswalk, "WaitForButtonPress") \/ IsIn(Crosswalk, "Disabled")
    /\ \A r \in Road : \/ IsIn(r, "GreenLightOn") \/ IsIn(r, "ClearIntersection")
                       \/ IsIn(r, "GreenLightOff")
    /\ \A r \in Road : Marked(r) \/ fsm[r].skipNextEventCode = NoSkip
    /\ fsm[Crosswalk].skipNextEventCode = NoSkip
    /\ Turn(RoadGrp) => visit.event.code \in 0 .. GO_GREEN

\* A transition without a handler.
LEMMA NopLeaves ==
    ASSUME LocalsOK, clock \in Nat, NEW r \in Road,
           NEW s \in {"GreenLightOn", "ClearIntersection", "GreenLightOff"}
    PROVE  LET new == Transition(r, s, clock, NoEffect) IN
           /\ new.skipNextEventCode = fsm[r].skipNextEventCode
           /\ new.flags = {} /\ new.wakeup = clock /\ new.currentState = s
<1>1. r \in Fsm /\ fsm[r] \in FsmRecord
  BY Layout DEF LocalsOK
<1>2. AcceptsTimeout(r, s)
  BY RoadTable, IntersectionAssumption DEF AcceptsTimeout, TIMEOUT, Goes
<1>3. /\ ~NoEffect.infinite /\ ~NoEffect.deep /\ ~NoEffect.setDelay
      /\ NoEffect.delay = 0 /\ DefaultDelay = 0
  BY IntersectionAssumption DEF NoEffect
<1>4. TransitionFlags(r, s, clock, NoEffect) = {}
  BY <1>2, <1>3 DEF TransitionFlags
<1>5. TransitionWakeup(r, s, clock, NoEffect) = clock
  BY <1>2, <1>3 DEF TransitionWakeup
<1> DEFINE new == Transition(r, s, clock, NoEffect)
<1>6. /\ new.skipNextEventCode = fsm[r].skipNextEventCode /\ new.currentState = s
      /\ new.flags = TransitionFlags(r, s, clock, NoEffect)
      /\ new.wakeup = TransitionWakeup(r, s, clock, NoEffect)
  BY <1>1 DEF Transition, FsmRecord
<1>7. QED
  BY <1>4, <1>5, <1>6

\* The turn of a road that runs no handler.
LEMMA RoadTurn ==
    ASSUME IndInv, StatesOK, pc = "fsm", loop.group = RoadGrp, ProcessEvent
    PROVE  \E newFsm \in FsmRecord :
              EndTurn(CurrentFsm, newFsm) /\ RoadLeft(CurrentFsm, newFsm)
<1> DEFINE r == CurrentFsm
           c == visit.event.code
<1>1. r \in Road /\ r \in Fsm /\ fsm[r] \in FsmRecord /\ clock \in Nat
  <2>1. r \in Fsm /\ visit.fsmIndex \in 1 .. 2
    BY CurrentFsmType, Layout DEF IndInv, LocalsOK
  <2>2. QED
    BY <2>1, Layout, BoundAssumption DEF IndInv, LocalsOK, CurrentFsm
<1>2. c \in {0, 1, 2} /\ DOMAIN Row(r) = {0, 1, 2}
  BY <1>1, RoadTable DEF StatesOK, Turn, Row, IsIn, GO_GREEN
<1>3. /\ Row(r)[c].eventHandler = NopHandler =>
            \/ c = 1 /\ IsIn(r, "ClearIntersection")
               /\ Row(r)[c].newState = "ClearIntersection"
            \/ c = 2 /\ IsIn(r, "GreenLightOff") /\ Row(r)[c].newState = "GreenLightOn"
      /\ c = 1 /\ IsIn(r, "ClearIntersection") => Row(r)[c].eventHandler = NopHandler
  <2> DEFINE s == fsm[r].currentState
  <2>1. /\ s \in {"GreenLightOn", "ClearIntersection", "GreenLightOff"}
        /\ Row(r) = Table[r][s]
    BY <1>1 DEF StatesOK, Row, IsIn
  <2>2. NopHandler = "NOP" /\ NullHandler = "none"
    BY IntersectionAssumption
  <2> HIDE DEF s
  <2>3. CASE c = 0
    <3>1. Row(r)[0].eventHandler # NopHandler
      BY <1>1, <2>1, <2>2, RoadTable DEF Goes
    <3>2. QED
      BY <2>3, <3>1
  <2>4. CASE c = 1
    BY <1>1, <2>1, <2>2, <2>4, RoadTable DEF Goes, IsIn, s
  <2>5. CASE c = 2
    BY <1>1, <2>1, <2>2, <2>5, RoadTable DEF Goes, IsIn, s
  <2>6. QED
    BY <1>2, <2>3, <2>4, <2>5
<1>4. NopHandler # NullHandler
  BY IntersectionAssumption
<1>5. CASE NoEvent(r)
  BY <1>1, <1>5 DEF NoEvent, RoadLeft, Brings
<1>6. CASE visit.pending /\ c \in DOMAIN Row(r) /\ SkipEvent(r)
  <2> DEFINE new == [fsm[r] EXCEPT !.skipNextEventCode = NoSkip]
  <2>1. /\ new \in FsmRecord /\ new.skipNextEventCode = NoSkip
        /\ new.currentState = fsm[r].currentState
        /\ new.flags = fsm[r].flags /\ new.wakeup = fsm[r].wakeup
    BY <1>1 DEF FsmRecord
  <2>2. Brings(GO_GREEN) /\ Marked(r)
    BY <1>1, <1>2, <1>6, Codes DEF SkipEvent, StatesOK, Brings, Marked
  <2> HIDE DEF new
  <2>3. RoadLeft(r, new)
    BY <2>1, <2>2 DEF RoadLeft
  <2>4. EndTurn(r, new)
    BY <1>6 DEF SkipEvent, new
  <2>5. QED
    BY <2>1, <2>3, <2>4
<1>7. CASE visit.pending /\ IgnoreEvent(r)
  <2>1. c # fsm[r].skipNextEventCode
    BY <1>2, <1>7 DEF IgnoreEvent
  <2>2. ~(Brings(GO_GREEN) /\ Marked(r))
    BY <2>1 DEF Brings, Marked
  <2>3. ~(Brings(PEDESTRIAN_AWAITS) /\ IsIn(r, "ClearIntersection"))
    BY <1>2, <1>3, <1>4, <1>7 DEF Brings, PEDESTRIAN_AWAITS, IgnoreEvent, TIMEOUT
  <2>4. QED
    BY <1>1, <1>7, <2>2, <2>3 DEF IgnoreEvent, RoadLeft
<1>8. CASE visit.pending /\ NopTransition(r)
  <2> DEFINE s == Row(r)[c].newState
             new == Transition(r, s, clock, NoEffect)
  <2>1. /\ \/ c = 1 /\ IsIn(r, "ClearIntersection") /\ s = "ClearIntersection"
           \/ c = 2 /\ IsIn(r, "GreenLightOff") /\ s = "GreenLightOn"
        /\ c # fsm[r].skipNextEventCode /\ EndTurn(r, new)
    BY <1>3, <1>8 DEF NopTransition, Accepts
  <2>2. new \in FsmRecord
    <3>1. s \in State
      BY <1>1, <1>2, FsmAssumption DEF Row, FsmRecord
    <3>2. QED
      BY <1>1, <3>1, NoEffectType, TransitionType DEF IndInv
  <2>3. /\ new.skipNextEventCode = fsm[r].skipNextEventCode
        /\ new.flags = {} /\ new.wakeup = clock /\ new.currentState = s
    BY <1>1, <2>1, NopLeaves DEF IndInv
  <2> HIDE DEF new, s
  <2>4. RoadLeft(r, new)
    BY <1>8, <2>1, <2>3 DEF RoadLeft, Brings, PEDESTRIAN_AWAITS, GO_GREEN, Marked
  <2>5. QED
    BY <2>1, <2>2, <2>4
<1>9. QED
  BY <1>5, <1>6, <1>7, <1>8 DEF ProcessEvent

\* The turn of the crosswalk when it runs no handler: nothing has come that it
\* listens to.
LEMMA CrosswalkTurn ==
    ASSUME IndInv, StatesOK, pc = "fsm", loop.group = CrosswalkGrp, ProcessEvent
    PROVE  /\ EndTurn(CurrentFsm, fsm[CurrentFsm])
           /\ Brings(ARM_BUTTON) => IsIn(Crosswalk, "WaitForButtonPress")
           /\ Brings(DISABLE_BUTTON) \/ Brings(BUTTON_PRESSED) => IsIn(Crosswalk, "Disabled")
<1> DEFINE f == CurrentFsm
           c == visit.event.code
<1>1. f = Crosswalk /\ f \in Fsm /\ fsm[f] \in FsmRecord
  BY CurrentFsmType, Layout DEF IndInv, LocalsOK, CurrentFsm
<1>2. c \in {0, 1, 2, 3} /\ DOMAIN Row(f) = {0, 1, 2, 3}
  BY <1>1, CrosswalkTable, Codes DEF IndInv, LocalsOK, VisitRecord, StatesOK, Row, IsIn
<1>3. /\ Row(f)[c].eventHandler # NopHandler
      /\ Row(f)[c].eventHandler = NullHandler =>
            /\ c = 3 => IsIn(f, "WaitForButtonPress")
            /\ c \in {1, 2} => IsIn(f, "Disabled")
  BY <1>1, <1>2, CrosswalkTable, IntersectionAssumption DEF StatesOK, Row, IsIn, Goes
<1>4. c # fsm[f].skipNextEventCode
  BY <1>1, <1>2, Codes DEF StatesOK
<1>5. NoEvent(f) \/ (visit.pending /\ IgnoreEvent(f))
  BY <1>3, <1>4 DEF ProcessEvent, SkipEvent, NopTransition
<1>6. EndTurn(f, fsm[f])
  BY <1>5 DEF NoEvent, IgnoreEvent
<1>7. visit.pending => c = TIMEOUT \/ Row(f)[c].eventHandler = NullHandler
  BY <1>2, <1>5 DEF NoEvent, IgnoreEvent
<1>8. QED
  BY <1>1, <1>3, <1>6, <1>7
  DEF Brings, TIMEOUT, ARM_BUTTON, DISABLE_BUTTON, BUTTON_PRESSED

-----------------------------------------------------------------------------
(* The handlers *)

\* What a road's record is after its handler, and the light it has switched.
RoadDone(r, newFsm) ==
    /\ newFsm.skipNextEventCode = fsm[r].skipNextEventCode
    /\ \/ /\ IsIn(r, "GreenLightOn") /\ newFsm.currentState = "ClearIntersection"
          /\ newFsm.flags \cap {"INFINITE_SLEEP"} = {}
          /\ newFsm.wakeup = clock + GREEN_LIGHT_TIMEOUT
          /\ light' = [light EXCEPT ![r] = TRUE]
       \/ /\ IsIn(r, "ClearIntersection") /\ newFsm.currentState = "GreenLightOff"
          /\ newFsm.flags \cap {"INFINITE_SLEEP"} = {}
          /\ light' = light
       \/ /\ IsIn(r, "GreenLightOff") /\ newFsm.currentState = "GreenLightOff"
          /\ "INFINITE_SLEEP" \in newFsm.flags
          /\ light' = [light EXCEPT ![r] = FALSE]

\* The fields that a transition writes.
LEMMA TransitionFields ==
    ASSUME NEW f \in Fsm, fsm[f] \in FsmRecord, NEW s, NEW now, NEW effect
    PROVE  LET new == Transition(f, s, now, effect) IN
           /\ new.skipNextEventCode = fsm[f].skipNextEventCode /\ new.currentState = s
           /\ new.flags = TransitionFlags(f, s, now, effect)
           /\ new.wakeup = TransitionWakeup(f, s, now, effect)
BY DEF Transition, FsmRecord

\* The return of a road's handler.
LEMMA RoadReturns ==
    ASSUME IndInv, HandlerKnown, light \in [Road -> BOOLEAN], loop.group = RoadGrp, HandlerEnds
    PROVE  /\ CurrentFsm \in Road /\ attached' = attached
           /\ \E newFsm \in FsmRecord :
                 EndTurn(CurrentFsm, newFsm) /\ RoadDone(CurrentFsm, newFsm)
<1> DEFINE r == CurrentFsm
           new == Transition(r, handling.newState, handling.now, handling.effect)
<1>1. r \in Road /\ r \in Fsm /\ fsm[r] \in FsmRecord
  <2>1. r \in Fsm /\ visit.fsmIndex \in 1 .. 2
    BY CurrentFsmType, Layout DEF IndInv, LocalsOK
  <2>2. QED
    BY <2>1, Layout DEF IndInv, LocalsOK, CurrentFsm
<1>2. pc = "handler" /\ handling.now = clock /\ clock \in Nat /\ EffectKnown
  BY BoundAssumption DEF HandlerKnown, HandlerEnds, HandlerReturns, IndInv
<1>3. handling.newState \in State /\ handling.effect \in Effect
  BY DEF IndInv
<1>4. new \in FsmRecord
  BY <1>1, <1>2, <1>3, TransitionType DEF IndInv
<1>5. /\ new.skipNextEventCode = fsm[r].skipNextEventCode
      /\ new.currentState = handling.newState
      /\ new.flags = TransitionFlags(r, handling.newState, clock, handling.effect)
      /\ new.wakeup = TransitionWakeup(r, handling.newState, clock, handling.effect)
  BY <1>1, <1>2, TransitionFields
<1>6. \A s \in {"GreenLightOn", "ClearIntersection", "GreenLightOff"} : AcceptsTimeout(r, s)
  BY <1>1, RoadTable, IntersectionAssumption DEF AcceptsTimeout, TIMEOUT, Goes
<1> HIDE DEF new
<1>7. CASE Runs("GreenLightOn", "OnRoadGreen", "ClearIntersection")
  <2>1. Asked(FALSE, GREEN_LIGHT_TIMEOUT, << ArmCall >>)
    BY <1>2, <1>7, HandlerAsks DEF Runs
  <2>2. /\ new.flags \cap {"INFINITE_SLEEP"} = {}
        /\ new.wakeup = clock + GREEN_LIGHT_TIMEOUT
    <3>1. handling.newState = "ClearIntersection" /\ AcceptsTimeout(r, handling.newState)
      BY <1>6, <1>7 DEF Runs
    <3>2. GREEN_LIGHT_TIMEOUT # 0
      BY TimeoutsAssumption, MaxTimeType
    <3>3. /\ ~handling.effect.infinite /\ handling.effect.setDelay
          /\ handling.effect.delay = GREEN_LIGHT_TIMEOUT
      BY <2>1, <3>2 DEF Asked
    <3>4. "INFINITE_SLEEP" \notin TransitionFlags(r, handling.newState, clock, handling.effect)
      BY <3>1, <3>3 DEF TransitionFlags
    <3>5. QED
      BY <1>5, <3>1, <3>3, <3>4 DEF TransitionWakeup
  <2>3. EndTurn(r, new)
    BY <2>1, <1>2 DEF Asked, HandlerEnds, HandlerReturns, new
  <2>4. light' = [light EXCEPT ![r] = TRUE] /\ attached' = attached
    BY <1>7 DEF Runs, HandlerEnds
  <2>5. QED
    BY <1>1, <1>4, <1>5, <1>7, <2>2, <2>3, <2>4 DEF RoadDone, Runs, IsIn
<1>8. CASE Runs("ClearIntersection", "OnRoadClearIntersection", "GreenLightOff")
  <2>1. Asked(FALSE, CLEAR_INTERSECTION_TIMEOUT,
              << DisableCall >>)
    BY <1>2, <1>8, HandlerAsks DEF Runs
  <2>2. new.flags \cap {"INFINITE_SLEEP"} = {}
    BY <1>5, <1>6, <1>8, <2>1 DEF Runs, Asked, TransitionFlags
  <2>3. EndTurn(r, new)
    BY <2>1, <1>2 DEF Asked, HandlerEnds, HandlerReturns, new
  <2>4. light' = light /\ attached' = attached
    BY <1>8 DEF Runs, HandlerEnds
  <2>5. QED
    BY <1>1, <1>4, <1>5, <1>8, <2>2, <2>3, <2>4 DEF RoadDone, Runs, IsIn
<1>9. CASE Runs("GreenLightOff", "OnRoadRed", "GreenLightOff")
  <2>1. Asked(TRUE, 0, << GreenCall >>)
    BY <1>2, <1>9, HandlerAsks DEF Runs
  <2>2. "INFINITE_SLEEP" \in new.flags
    BY <1>5, <1>6, <1>9, <2>1 DEF Runs, Asked, TransitionFlags
  <2>3. EndTurn(r, new)
    BY <2>1, <1>2 DEF Asked, HandlerEnds, HandlerReturns, new
  <2>4. light' = [light EXCEPT ![r] = FALSE] /\ attached' = attached
    BY <1>9 DEF Runs, HandlerEnds
  <2>5. QED
    BY <1>1, <1>4, <1>5, <1>9, <2>2, <2>3, <2>4 DEF RoadDone, Runs, IsIn
<1>10. QED
  BY <1>2, <1>7, <1>8, <1>9 DEF HandlerKnown

\* The return of the crosswalk's handler: to wait is to have the interrupt
\* attached.
LEMMA CrosswalkReturns ==
    ASSUME IndInv, HandlerKnown, loop.group = CrosswalkGrp, HandlerEnds
    PROVE  /\ CurrentFsm = Crosswalk /\ light' = light
           /\ \E newFsm \in FsmRecord :
                 /\ EndTurn(CurrentFsm, newFsm)
                 /\ newFsm.skipNextEventCode = fsm[Crosswalk].skipNextEventCode
                 /\ \/ /\ Brings(ARM_BUTTON) /\ IsIn(Crosswalk, "Disabled")
                       /\ newFsm.currentState = "WaitForButtonPress" /\ attached'
                    \/ /\ Brings(DISABLE_BUTTON) /\ newFsm.currentState = "Disabled"
                       /\ IsIn(Crosswalk, "WaitForButtonPress")
                    \/ /\ Brings(BUTTON_PRESSED) /\ newFsm.currentState = "Disabled"
                       /\ IsIn(Crosswalk, "WaitForButtonPress")
<1> DEFINE f == CurrentFsm
           new == Transition(f, handling.newState, handling.now, handling.effect)
<1>1. f = Crosswalk /\ f \in Fsm /\ fsm[f] \in FsmRecord
  BY CurrentFsmType, Layout DEF IndInv, LocalsOK, CurrentFsm
<1>2. pc = "handler" /\ handling.now \in Nat /\ visit.pending /\ EffectKnown
  BY BoundAssumption DEF HandlerKnown, HandlerEnds, HandlerReturns, IndInv
<1>3. handling.newState \in State /\ handling.effect \in Effect
  BY DEF IndInv
<1>4. /\ new \in FsmRecord /\ new.currentState = handling.newState
      /\ new.skipNextEventCode = fsm[f].skipNextEventCode
  BY <1>1, <1>2, <1>3, TransitionType, TransitionFields DEF IndInv
<1> HIDE DEF new
<1>5. \/ /\ Brings(BUTTON_PRESSED)
         /\ Runs("WaitForButtonPress", "OnCrosswalkButtonPressed", "Disabled")
      \/ /\ Brings(DISABLE_BUTTON)
         /\ Runs("WaitForButtonPress", "OnCrosswalkDisableButton", "Disabled")
      \/ /\ Brings(ARM_BUTTON)
         /\ Runs("Disabled", "OnCrosswalkArmButton", "WaitForButtonPress")
  BY <1>2, Layout DEF HandlerKnown, Brings
<1>6. ~handling.effect.prevent
  BY <1>2, <1>5, HandlerAsks DEF Asked, Runs
<1>7. EndTurn(f, new)
  BY <1>2, <1>6 DEF HandlerEnds, HandlerReturns, new
<1>8. light' = light /\ (Brings(ARM_BUTTON) /\ RunningHandler = "OnCrosswalkArmButton" => attached')
  BY <1>5 DEF Runs, HandlerEnds
<1>9. QED
  BY <1>1, <1>4, <1>5, <1>7, <1>8 DEF Runs, IsIn

\* A handler starts as the tables say, for an event that the FSM listens to.
LEMMA HandlerStarts ==
    ASSUME IndInv, StatesOK, CallHandler
    PROVE  /\ HandlerKnown' /\ handling'.newState \in State
           /\ First /\ CurrentFsm = Road1 /\ clock = 0 /\ "TIMER_OVERFLOW" \notin flags
              /\ Register(fsm[Road1].wakeup) > 0 => visit.event.code # TIMEOUT
<1> DEFINE f == CurrentFsm
           c == visit.event.code
           t == Row(f)[c]
<1>1. /\ f \in Fsm /\ fsm[f] \in FsmRecord /\ loop.group \in Groups
      /\ c \in {0, 1, 2, 3} /\ visit.fsmIndex \in 1 .. Len(GroupFsms[loop.group])
  BY CurrentFsmType, Codes DEF IndInv, LocalsOK, LoopRecord, VisitRecord
<1>2. /\ pc = "fsm" /\ pc' = "handler" /\ visit.pending
      /\ UNCHANGED << fsm, flags, loop, visit, clock >>
  BY DEF CallHandler
<1>3. /\ c \in DOMAIN Row(f) /\ t.eventHandler \notin {NullHandler, NopHandler}
      /\ ~(c = TIMEOUT /\ SleepsThroughTimeout(f))
  BY DEF CallHandler, Accepts
<1>4. PICK effect \in HandlerEffects[t.eventHandler] :
         handling' = [newState |-> t.newState, now |-> clock, effect |-> effect]
  BY IntersectionAssumption DEF CallHandler
<1>5. handling'.newState = t.newState /\ handling'.now = clock /\ handling'.effect = effect
  BY <1>4
<1>6. c = TIMEOUT => First \/ Finite(f)
  BY <1>3 DEF SleepsThroughTimeout, First, Finite
<1>7. RunningHandler' = t.eventHandler /\ f' = f
  BY <1>2 DEF RunningHandler, CurrentFsm, Row
<1>8. /\ EffectKnown' /\ fsm'[CurrentFsm'].currentState = fsm[f].currentState
      /\ handling'.newState = Table[f][fsm[f].currentState][c].newState
      /\ RunningHandler' = Table[f][fsm[f].currentState][c].eventHandler
  BY <1>2, <1>4, <1>5, <1>7 DEF EffectKnown, Row
<1>9. First /\ f = Road1 /\ clock = 0 /\ "TIMER_OVERFLOW" \notin flags
         /\ Register(fsm[Road1].wakeup) > 0 => c # TIMEOUT
  <2>1. Register(0) = 0
    BY ModulusAssumption DEF Register
  <2>2. QED
    BY <1>3, <2>1 DEF SleepsThroughTimeout, _OFSM_TIME_A_GT_B
<1>10. CASE loop.group = RoadGrp
  <2>1. f \in Road /\ c \in {0, 1, 2}
    BY <1>1, <1>2, <1>10, Layout DEF CurrentFsm, StatesOK, Turn, GO_GREEN
  <2> DEFINE s == fsm[f].currentState
             row == Table[f][s][c]
  <2>2. /\ s \in {"GreenLightOn", "ClearIntersection", "GreenLightOff"}
        /\ row.eventHandler \notin {NullHandler, NopHandler}
    BY <1>3, <2>1 DEF StatesOK, Row, IsIn
  <2>3. c = 0 /\ \/ s = "GreenLightOn" /\ row = Goes("OnRoadGreen", "ClearIntersection")
                 \/ s = "ClearIntersection"
                    /\ row = Goes("OnRoadClearIntersection", "GreenLightOff")
                 \/ s = "GreenLightOff" /\ row = Goes("OnRoadRed", "GreenLightOff")
    <3>1. \A h, n : Goes(h, n).eventHandler = h
      BY DEF Goes
    <3>2. CASE s = "GreenLightOn"
      BY <2>1, <2>2, <3>1, <3>2, RoadTable
    <3>3. CASE s = "ClearIntersection"
      BY <2>1, <2>2, <3>1, <3>3, RoadTable
    <3>4. CASE s = "GreenLightOff"
      BY <2>1, <2>2, <3>1, <3>4, RoadTable
    <3>5. QED
      BY <2>2, <3>2, <3>3, <3>4
  <2>4. /\ RunningHandler' = row.eventHandler /\ handling'.newState = row.newState
        /\ fsm'[CurrentFsm'].currentState = s
    BY <1>8
  <2>5. \/ (Runs("GreenLightOn", "OnRoadGreen", "ClearIntersection"))'
        \/ (Runs("ClearIntersection", "OnRoadClearIntersection", "GreenLightOff"))'
        \/ (Runs("GreenLightOff", "OnRoadRed", "GreenLightOff"))'
    BY <2>3, <2>4 DEF Runs, Goes
  <2>6. HandlerKnown'
    BY <1>2, <1>5, <1>6, <1>7, <1>8, <1>10, <2>3, <2>5, Layout
    DEF HandlerKnown, TIMEOUT, First, Finite, CrosswalkGrp, RoadGrp
  <2>7. QED
    BY <1>1, <1>3, <1>5, <1>9, <2>6, FsmAssumption DEF Row, FsmRecord
<1>11. CASE loop.group = CrosswalkGrp
  <2>1. f = Crosswalk
    BY <1>1, <1>11, Layout DEF CurrentFsm
  <2> DEFINE s == fsm[f].currentState
             row == Table[f][s][c]
  <2>2. /\ s \in {"WaitForButtonPress", "Disabled"}
        /\ row.eventHandler \notin {NullHandler, NopHandler}
    BY <1>3, <2>1 DEF StatesOK, Row, IsIn
  <2>3. \/ c = 1 /\ s = "WaitForButtonPress" /\ row = Goes("OnCrosswalkButtonPressed", "Disabled")
        \/ c = 2 /\ s = "WaitForButtonPress" /\ row = Goes("OnCrosswalkDisableButton", "Disabled")
        \/ c = 3 /\ s = "Disabled" /\ row = Goes("OnCrosswalkArmButton", "WaitForButtonPress")
    <3>1. CASE s = "WaitForButtonPress"
      BY <1>1, <2>1, <2>2, <3>1, CrosswalkTable
    <3>2. CASE s = "Disabled"
      BY <1>1, <2>1, <2>2, <3>2, CrosswalkTable
    <3>3. QED
      BY <2>2, <3>1, <3>2
  <2>4. /\ RunningHandler' = row.eventHandler /\ handling'.newState = row.newState
        /\ fsm'[CurrentFsm'].currentState = s
    BY <1>8
  <2>5. \/ c = 1 /\ (Runs("WaitForButtonPress", "OnCrosswalkButtonPressed", "Disabled"))'
        \/ c = 2 /\ (Runs("WaitForButtonPress", "OnCrosswalkDisableButton", "Disabled"))'
        \/ c = 3 /\ (Runs("Disabled", "OnCrosswalkArmButton", "WaitForButtonPress"))'
    <3>1. \A h, to : row = Goes(h, to) => row.eventHandler = h /\ row.newState = to
      BY DEF Goes
    <3>2. \A z, h, to : s = z /\ row = Goes(h, to) => (Runs(z, h, to))'
      BY <2>4, <3>1 DEF Runs
    <3>3. QED
      BY <2>3, <3>2
  <2>6. HandlerKnown'
    BY <1>2, <1>5, <1>8, <1>11, <2>5
    DEF HandlerKnown, CrosswalkGrp, RoadGrp, BUTTON_PRESSED, DISABLE_BUTTON, ARM_BUTTON
  <2>7. QED
    BY <1>1, <1>3, <1>5, <1>9, <2>6, FsmAssumption DEF Row, FsmRecord
<1>12. QED
  BY <1>1, <1>10, <1>11, Layout

\* All that a mark changes.
LEMMA MarkFields ==
    ASSUME fsm \in [Fsm -> FsmRecord], NEW f \in Fsm, NEW code,
           fsm' = [fsm EXCEPT ![f].skipNextEventCode = code]
    PROVE  /\ \A h \in Fsm : /\ fsm'[h].flags = fsm[h].flags
                             /\ fsm'[h].wakeup = fsm[h].wakeup
                             /\ fsm'[h].currentState = fsm[h].currentState
           /\ fsm'[f].skipNextEventCode = code
           /\ \A h \in Fsm \ {f} : fsm'[h] = fsm[h]
<1> DEFINE new == [fsm[f] EXCEPT !.skipNextEventCode = code]
<1>1. fsm[f] \in FsmRecord
  OBVIOUS
<1>2. /\ new.flags = fsm[f].flags /\ new.wakeup = fsm[f].wakeup
      /\ new.currentState = fsm[f].currentState /\ new.skipNextEventCode = code
  BY <1>1 DEF FsmRecord
<1>3. fsm' = [fsm EXCEPT ![f] = new]
  OBVIOUS
<1> HIDE DEF new
<1>4. QED
  BY <1>2, <1>3

EventOf(code) == [code |-> code, data |-> 0]

\* A sequence of one call.
LEMMA OneCall == \A call : Head(<< call >>) = call /\ Tail(<< call >>) = << >>
OBVIOUS

\* The queueing call of a handler, its only one: to the other group, or, with
\* a mark for itself, to the road's own.
LEMMA HandlerCalls ==
    ASSUME IndInv, HandlerKnown, HandlerQueues
    PROVE  /\ pc = "handler" /\ pc' = "handler" /\ handling'.effect.calls = << >>
           /\ handling.effect.calls # << >> /\ handling'.now = handling.now
           /\ UNCHANGED << wakeupTime, loop, visit, clock, interrupts >>
           /\ HandlerKnown'
           /\ CurrentFsm \in Fsm
           /\ \/ /\ loop.group = RoadGrp /\ IsIn(CurrentFsm, "GreenLightOn")
                 /\ QueueGroupEvent(CrosswalkGrp, FALSE, EventOf(ARM_BUTTON)) /\ UNCHANGED fsm
              \/ /\ loop.group = RoadGrp /\ IsIn(CurrentFsm, "ClearIntersection")
                 /\ QueueGroupEvent(CrosswalkGrp, FALSE, EventOf(DISABLE_BUTTON))
                 /\ UNCHANGED fsm
              \/ /\ loop.group = RoadGrp /\ IsIn(CurrentFsm, "GreenLightOff")
                 /\ QueueGroupEvent(RoadGrp, FALSE, EventOf(GO_GREEN))
                 /\ fsm' = [fsm EXCEPT ![CurrentFsm].skipNextEventCode = GO_GREEN]
              \/ /\ loop.group = CrosswalkGrp /\ Brings(BUTTON_PRESSED)
                 /\ QueueGroupEvent(RoadGrp, FALSE, EventOf(PEDESTRIAN_AWAITS))
                 /\ UNCHANGED fsm
<1> DEFINE calls == handling.effect.calls
           k == Head(calls)
           g == IF k.group = OwnGroup THEN loop.group ELSE k.group
<1>1. /\ pc = "handler" /\ calls # << >> /\ QueueGroupEvent(g, k.force, k.event)
      /\ IF k.exclude
         THEN fsm' = [fsm EXCEPT ![CurrentFsm].skipNextEventCode = k.event.code]
         ELSE UNCHANGED fsm
      /\ handling' = [handling EXCEPT !.effect.calls = Tail(calls)]
      /\ UNCHANGED << wakeupTime, pc, loop, visit, clock, interrupts >>
  BY DEF HandlerQueues
<1>2. CurrentFsm \in Fsm /\ fsm \in [Fsm -> FsmRecord] /\ loop.group \in Groups
  BY CurrentFsmType DEF IndInv, LocalsOK, LoopRecord
<1>3. /\ handling \in [newState : State, now : 0 .. Horizon, effect : Effect]
      /\ flags' \in {flags, flags \cup {"EVENT_QUEUED"}}
  BY <1>1 DEF IndInv, QueueGroupEvent, Raise
<1>4. ASSUME NEW call, calls \in {<< >>, << call >>}
      PROVE  k = call /\ Tail(calls) = << >>
  BY <1>1, <1>4, OneCall
<1>5. EffectKnown
  BY <1>1 DEF HandlerKnown
<1>6. ASSUME Tail(calls) = << >>
       PROVE  /\ handling'.effect.calls = << >> /\ handling'.now = handling.now
              /\ handling'.newState = handling.newState
              /\ EffectKnown' /\ RunningHandler' = RunningHandler
              /\ fsm'[CurrentFsm'].currentState = fsm[CurrentFsm].currentState
  <2>1. handling' = [handling EXCEPT !.effect = [handling.effect EXCEPT !.calls = << >>]]
    BY <1>1, <1>6
  <2>2. /\ handling'.newState = handling.newState /\ handling'.now = handling.now
        /\ handling'.effect = [handling.effect EXCEPT !.calls = << >>]
    BY <1>3, <2>1
  <2>3. PICK e \in HandlerEffects[RunningHandler] :
           handling.effect \in {e, [e EXCEPT !.calls = << >>]}
    BY <1>5 DEF EffectKnown
  <2>4. handling'.effect = [e EXCEPT !.calls = << >>]
    BY <2>2, <2>3
  <2>5. \A f \in Fsm : fsm'[f].currentState = fsm[f].currentState
    BY <1>1, <1>2, MarkFields
  <2>6. CurrentFsm' = CurrentFsm
    BY <1>1 DEF CurrentFsm
  <2>7. RunningHandler' = RunningHandler
    BY <1>1, <1>2, <2>5, <2>6 DEF RunningHandler, Row
  <2>8. handling'.effect.calls = << >>
    BY <1>3, <2>2 DEF Effect
  <2>9. QED
    BY <1>2, <2>2, <2>3, <2>4, <2>5, <2>6, <2>7, <2>8 DEF EffectKnown
<1>7. (First \/ Finite(CurrentFsm)) => (First \/ Finite(CurrentFsm))'
  <2>1. CurrentFsm' = CurrentFsm /\ fsm'[CurrentFsm].flags = fsm[CurrentFsm].flags
    BY <1>1, <1>2, MarkFields DEF CurrentFsm
  <2>2. QED
    BY <1>3, <2>1 DEF First, Finite
<1>8. /\ ArmCall.group = CrosswalkGrp /\ ArmCall.event = EventOf(ARM_BUTTON)
      /\ DisableCall.group = CrosswalkGrp /\ DisableCall.event = EventOf(DISABLE_BUTTON)
      /\ GreenCall.group = OwnGroup /\ GreenCall.event = EventOf(GO_GREEN)
      /\ PedestrianCall.group = RoadGrp
      /\ PedestrianCall.event = EventOf(PEDESTRIAN_AWAITS)
      /\ ArmCall.force = FALSE /\ DisableCall.force = FALSE
      /\ GreenCall.force = FALSE /\ PedestrianCall.force = FALSE
      /\ \A call \in {ArmCall, DisableCall, PedestrianCall} : call.exclude = FALSE
      /\ GreenCall.exclude = TRUE /\ EventOf(GO_GREEN).code = GO_GREEN
  BY DEF ArmCall, DisableCall, GreenCall, PedestrianCall, Queues, EventOf, ThisGroup, OwnGroup
<1> HIDE DEF k
<1>9. CASE loop.group = RoadGrp
  <2>1. /\ visit.pending /\ handling.now = clock /\ visit.event.code = TIMEOUT
        /\ First \/ Finite(CurrentFsm)
    BY <1>1, <1>9 DEF HandlerKnown
  <2>2. CASE Runs("GreenLightOn", "OnRoadGreen", "ClearIntersection")
    <3>1. calls \in {<< >>, << ArmCall >>}
      BY <1>5, <2>2, HandlerAsks DEF Asked, Runs
    <3>2. k = ArmCall /\ Tail(calls) = << >>
      BY <1>4, <3>1
    <3>3. /\ handling'.effect.calls = << >> /\ handling'.now = handling.now
          /\ EffectKnown' /\ (Runs("GreenLightOn", "OnRoadGreen", "ClearIntersection"))'
      BY <1>6, <2>2, <3>2 DEF Runs
    <3>4. HandlerKnown'
      BY <1>1, <1>7, <1>9, <2>1, <3>3 DEF HandlerKnown, CrosswalkGrp, RoadGrp, Runs
    <3>5. g = CrosswalkGrp
      BY <1>8, <1>9, <3>2 DEF CrosswalkGrp, OwnGroup
    <3>6. QueueGroupEvent(CrosswalkGrp, FALSE, EventOf(ARM_BUTTON))
      BY <1>1, <1>8, <3>2, <3>5, Zenon
    <3>7. QED
      BY <1>1, <1>2, <1>8, <1>9, <2>2, <3>2, <3>3, <3>4, <3>6 DEF Runs, IsIn
  <2>3. CASE Runs("ClearIntersection", "OnRoadClearIntersection", "GreenLightOff")
    <3>1. calls \in {<< >>, << DisableCall >>}
      BY <1>5, <2>3, HandlerAsks DEF Asked, Runs
    <3>2. k = DisableCall /\ Tail(calls) = << >>
      BY <1>4, <3>1
    <3>3. /\ handling'.effect.calls = << >> /\ handling'.now = handling.now
          /\ EffectKnown' /\ (Runs("ClearIntersection", "OnRoadClearIntersection", "GreenLightOff"))'
      BY <1>6, <2>3, <3>2 DEF Runs
    <3>4. HandlerKnown'
      BY <1>1, <1>7, <1>9, <2>1, <3>3 DEF HandlerKnown, CrosswalkGrp, RoadGrp, Runs
    <3>5. g = CrosswalkGrp
      BY <1>8, <1>9, <3>2 DEF CrosswalkGrp, OwnGroup
    <3>6. QueueGroupEvent(CrosswalkGrp, FALSE, EventOf(DISABLE_BUTTON))
      BY <1>1, <1>8, <3>2, <3>5, Zenon
    <3>7. QED
      BY <1>1, <1>2, <1>8, <1>9, <2>3, <3>2, <3>3, <3>4, <3>6 DEF Runs, IsIn
  <2>4. CASE Runs("GreenLightOff", "OnRoadRed", "GreenLightOff")
    <3>1. calls \in {<< >>, << GreenCall >>}
      BY <1>5, <2>4, HandlerAsks DEF Asked, Runs
    <3>2. k = GreenCall /\ Tail(calls) = << >>
      BY <1>4, <3>1
    <3>3. /\ handling'.effect.calls = << >> /\ handling'.now = handling.now
          /\ EffectKnown' /\ (Runs("GreenLightOff", "OnRoadRed", "GreenLightOff"))'
      BY <1>6, <2>4, <3>2 DEF Runs
    <3>4. HandlerKnown'
      BY <1>1, <1>7, <1>9, <2>1, <3>3 DEF HandlerKnown, CrosswalkGrp, RoadGrp, Runs
    <3>5. g = RoadGrp
      BY <1>8, <1>9, <3>2
    <3>6. QueueGroupEvent(RoadGrp, FALSE, EventOf(GO_GREEN))
      BY <1>1, <1>8, <3>2, <3>5, Zenon
    <3>7. fsm' = [fsm EXCEPT ![CurrentFsm].skipNextEventCode = GO_GREEN]
      BY <1>1, <1>8, <3>2
    <3>8. IsIn(CurrentFsm, "GreenLightOff")
      BY <2>4 DEF Runs, IsIn
    <3>9. QED
      BY <1>1, <1>2, <1>9, <3>3, <3>4, <3>6, <3>7, <3>8
  <2>5. QED
    BY <1>1, <1>9, <2>2, <2>3, <2>4 DEF HandlerKnown
<1>10. CASE loop.group = CrosswalkGrp
  <2>1. /\ visit.pending /\ handling.now = clock
        /\ ~Runs("WaitForButtonPress", "OnCrosswalkDisableButton", "Disabled")
        /\ ~Runs("Disabled", "OnCrosswalkArmButton", "WaitForButtonPress")
    BY <1>1, <1>5, HandlerAsks DEF HandlerKnown, Asked, Runs
  <2>2. /\ visit.event.code = BUTTON_PRESSED
        /\ Runs("WaitForButtonPress", "OnCrosswalkButtonPressed", "Disabled")
    BY <1>1, <1>10, <2>1 DEF HandlerKnown
  <2>3. calls \in {<< >>, << PedestrianCall >>}
    BY <1>5, <2>2, HandlerAsks DEF Asked, Runs
  <2>4. k = PedestrianCall /\ Tail(calls) = << >>
    BY <1>4, <2>3
  <2>5. /\ handling'.effect.calls = << >> /\ handling'.now = handling.now
        /\ EffectKnown'
        /\ (Runs("WaitForButtonPress", "OnCrosswalkButtonPressed", "Disabled"))'
    BY <1>6, <2>2, <2>4 DEF Runs
  <2>6. HandlerKnown'
    BY <1>1, <1>10, <2>1, <2>2, <2>5 DEF HandlerKnown, CrosswalkGrp, RoadGrp, Runs
  <2>7. g = RoadGrp
    BY <1>8, <2>4 DEF RoadGrp, OwnGroup
  <2>8. QueueGroupEvent(RoadGrp, FALSE, EventOf(PEDESTRIAN_AWAITS))
    BY <1>1, <1>8, <2>4, <2>7, Zenon
  <2>9. QED
    BY <1>1, <1>2, <1>8, <1>10, <2>1, <2>2, <2>4, <2>5, <2>6, <2>8 DEF Brings
<1>11. QED
  BY <1>2, <1>9, <1>10, Layout

-----------------------------------------------------------------------------
(* The green lights *)

\* A step that leaves the queues alone leaves what they hold.
LEMMA SameQueues ==
    ASSUME UNCHANGED queue
    PROVE  /\ OneEvent => OneEvent'
           /\ Held(CrosswalkGrp)' = Held(CrosswalkGrp) /\ Held(RoadGrp)' = Held(RoadGrp)
BY DEF OneEvent, Held

\* An event that neither turn has to come for is signalled.
LEMMA NothingHeld ==
    ASSUME IndInv, pc \notin {"dequeue", "fsm", "handler"}, "EVENT_QUEUED" \notin flags
    PROVE  Held(CrosswalkGrp) = {} /\ Held(RoadGrp) = {}
<1>1. Unvisited = {}
  BY DEF Unvisited
<1>2. QED
  BY <1>1, Layout DEF IndInv, PendingIsSignalled, Held

\* The invariant says of states and marks what a turn needs to know.
LEMMA CrossingStates == CrossingInv => StatesOK
BY DEF CrossingInv, StatesOK, RoadsInState, MarksOK, RoomForAll

\* A step outside the turns that changes no queue and no FSM.
LEMMA OutsideTurns ==
    ASSUME CrossingInv, RoomForAll', UNCHANGED << queue, fsm, light, clock >>,
           pc \notin {"fsm", "handler"}, pc' \notin {"fsm", "handler"},
           First' => First /\ pc' # "asleep",
           "TIMER_OVERFLOW" \in flags' => "TIMER_OVERFLOW" \in flags
    PROVE  CrossingInv'
<1>1. Held(CrosswalkGrp)' = Held(CrosswalkGrp) /\ Held(RoadGrp)' = Held(RoadGrp)
  BY SameQueues
<1>2. HandlerKnown'
  BY DEF HandlerKnown
<1>3. RoadsInState' /\ OneIsOff'
  BY DEF CrossingInv, RoadsInState, OneIsOff, Off, IsIn, Finite
<1>4. FirstPasses'
  BY <1>1 DEF CrossingInv, FirstPasses, First, Off, IsIn, Finite
<1>5. MarksOK'
  BY <1>1 DEF CrossingInv, MarksOK, Handing, Marked, NotClearing, Off, IsIn, Finite
<1>6. QED
  BY <1>2, <1>3, <1>4, <1>5 DEF CrossingInv

\* The head of a pass keeps the invariant: it changes no queue.
LEMMA CrossingStartPass ==
    ASSUME IndInv, CrossingInv, StartPass, UNCHANGED light
    PROVE  CrossingInv'
<1>1. /\ pc = "pass" /\ pc' = "dequeue" /\ loop'.group = 1
      /\ flags' = (flags \cup {"IN_PROCESS"}) \ {"EVENT_QUEUED"}
      /\ UNCHANGED << queue, fsm, clock >>
  BY DEF StartPass, FreshLoop
<1>2. RoomForAll'
  BY <1>1, SameQueues
  DEF CrossingInv, RoomForAll, Turn, CrosswalkGrp, RoadGrp
<1>3. QED
  BY <1>1, <1>2, OutsideTurns DEF First

\* The end of a pass: a TIMEOUT is queued only when nothing is pending.
LEMMA CrossingDecide ==
    ASSUME IndInv, CrossingInv, Decide, UNCHANGED light
    PROVE  CrossingInv'
<1>1. /\ pc = "decide" /\ pc' \in {"pass", "timeout", "presleep"}
      /\ pc' # "pass" => "EVENT_QUEUED" \notin flags
      /\ pc' = "timeout" => loop'.group = 1
      /\ UNCHANGED << queue, fsm, clock, flags >>
  BY DEF Decide, FreshLoop
<1>2. RoomForAll'
  BY <1>1, SameQueues, NothingHeld
  DEF CrossingInv, RoomForAll, Turn, CrosswalkGrp, RoadGrp
<1>3. QED
  BY <1>1, <1>2, OutsideTurns DEF First

\* Going to sleep ends the first iteration; nothing is pending then.
LEMMA CrossingPrepareSleep ==
    ASSUME IndInv, CrossingInv, PrepareSleep, UNCHANGED light
    PROVE  CrossingInv'
<1>1. /\ pc = "presleep" /\ pc' = "asleep" /\ UNCHANGED << queue, fsm, clock >>
  BY DEF PrepareSleep
<1>2. ~First'
  BY DEF PrepareSleep, ClearedForSleep, First
<1>3. "TIMER_OVERFLOW" \in flags' => "TIMER_OVERFLOW" \in flags \/ "TIMER_OVERFLOW" \in loop.flags
  BY DEF PrepareSleep
<1>4. loop.flags \subseteq CommonFlags
  BY DEF IndInv, LocalsOK, LoopRecord
<1>5. "TIMER_OVERFLOW" \in flags' => "TIMER_OVERFLOW" \in flags
  BY <1>3, <1>4 DEF CommonFlags
<1>6. Held(CrosswalkGrp) = {} /\ Held(RoadGrp) = {}
  BY <1>1, NothingHeld DEF CrossingInv, RoomForAll
<1>7. RoomForAll'
  BY <1>1, <1>6, SameQueues
  DEF CrossingInv, RoomForAll, Turn, CrosswalkGrp, RoadGrp
<1>8. QED
  BY <1>1, <1>2, <1>5, <1>7, OutsideTurns

\* Waking up keeps it: it changes one flag only.
LEMMA CrossingWakeUp ==
    ASSUME IndInv, CrossingInv, WakeUp, UNCHANGED light
    PROVE  CrossingInv'
<1>1. /\ pc = "asleep" /\ pc' = "pass" /\ flags' = flags \cup {"IN_PROCESS"}
      /\ UNCHANGED << queue, fsm, clock >>
  BY DEF WakeUp
<1>2. RoomForAll'
  BY <1>1, SameQueues
  DEF CrossingInv, RoomForAll, Turn, CrosswalkGrp, RoadGrp
<1>3. QED
  BY <1>1, <1>2, OutsideTurns DEF First

\* An event for a group that holds none.
LEMMA CrosswalkHears ==
    ASSUME IndInv, OneEvent, NEW e \in Event, Held(CrosswalkGrp) = {},
           QueueGroupEvent(CrosswalkGrp, FALSE, e)
    PROVE  /\ OneEvent' /\ Held(CrosswalkGrp)' = {e.code}
           /\ Held(RoadGrp)' = Held(RoadGrp) /\ flags' = flags \cup {"EVENT_QUEUED"}
<1>1. CrosswalkGrp \in Groups /\ QueuesOK
  BY Layout DEF IndInv
<1>2. /\ OneEvent' /\ Held(CrosswalkGrp)' = {e.code} /\ flags' = flags \cup {"EVENT_QUEUED"}
      /\ \A h \in Groups \ {CrosswalkGrp} : Held(h)' = Held(h)
  BY <1>1, QueueOnEmpty
<1>3. RoadGrp \in Groups \ {CrosswalkGrp}
  BY Layout DEF CrosswalkGrp, RoadGrp
<1>4. Held(RoadGrp)' = Held(RoadGrp)
  BY <1>2, <1>3 DEF Held
<1>5. QED
  BY <1>2, <1>4

\* An event queued to the roads is then the only one they hold.
LEMMA RoadsHear ==
    ASSUME IndInv, OneEvent, NEW e \in Event, Held(RoadGrp) = {},
           QueueGroupEvent(RoadGrp, FALSE, e)
    PROVE  /\ OneEvent' /\ Held(RoadGrp)' = {e.code}
           /\ Held(CrosswalkGrp)' = Held(CrosswalkGrp) /\ flags' = flags \cup {"EVENT_QUEUED"}
<1>1. RoadGrp \in Groups /\ QueuesOK
  BY Layout DEF IndInv
<1>2. /\ OneEvent' /\ Held(RoadGrp)' = {e.code} /\ flags' = flags \cup {"EVENT_QUEUED"}
      /\ \A h \in Groups \ {RoadGrp} : Held(h)' = Held(h)
  BY <1>1, QueueOnEmpty
<1>3. CrosswalkGrp \in Groups \ {RoadGrp}
  BY Layout DEF CrosswalkGrp, RoadGrp
<1>4. Held(CrosswalkGrp)' = Held(CrosswalkGrp)
  BY <1>2, <1>3 DEF Held
<1>5. QED
  BY <1>2, <1>4

\* The timeout finds the queue of its group empty.
LEMMA TimeoutHeld ==
    ASSUME IndInv, CrossingInv, QueueTimeout
    PROVE  /\ pc = "timeout" /\ UNCHANGED << fsm, clock >>
           /\ OneEvent' /\ flags' = flags \cup {"EVENT_QUEUED"}
           /\ \/ /\ Held(CrosswalkGrp) = {} /\ Held(CrosswalkGrp)' = {0}
                 /\ Held(RoadGrp)' = Held(RoadGrp) /\ pc' = "timeout" /\ loop'.group = 2
              \/ /\ Held(RoadGrp) = {} /\ Held(RoadGrp)' = {0}
                 /\ Held(CrosswalkGrp)' = Held(CrosswalkGrp) /\ pc' = "pass"
<1>1. pc = "timeout" /\ UNCHANGED << fsm, clock >> /\ loop \in LoopRecord
  BY DEF QueueTimeout, IndInv, LocalsOK
<1>2. TimeoutEvent \in Event /\ TimeoutEvent.code = 0 /\ OneEvent
  BY TimeoutEventType, Codes DEF CrossingInv, RoomForAll
<1>3. loop.group \in {CrosswalkGrp, RoadGrp}
  BY <1>1, Layout DEF LoopRecord
<1>4. /\ loop.group = CrosswalkGrp => QueueGroupEvent(CrosswalkGrp, FALSE, TimeoutEvent)
      /\ loop.group = RoadGrp => QueueGroupEvent(RoadGrp, FALSE, TimeoutEvent)
  BY Zenon DEF QueueTimeout
<1>5. /\ OneEvent' /\ flags' = flags \cup {"EVENT_QUEUED"}
      /\ \/ /\ Held(CrosswalkGrp) = {} /\ Held(CrosswalkGrp)' = {0}
            /\ Held(RoadGrp)' = Held(RoadGrp) /\ pc' = "timeout" /\ loop'.group = 2
         \/ /\ Held(RoadGrp) = {} /\ Held(RoadGrp)' = {0}
            /\ Held(CrosswalkGrp)' = Held(CrosswalkGrp) /\ pc' = "pass"
  <2>1. CASE loop.group = CrosswalkGrp
    <3>1. Held(CrosswalkGrp) = {}
      BY <1>1, <2>1 DEF CrossingInv, RoomForAll
    <3>2. pc' = "timeout" /\ loop'.group = 2
      BY <1>1, <2>1, Layout DEF QueueTimeout, LoopRecord, CrosswalkGrp
    <3>3. QED
      BY <1>2, <1>4, <2>1, <3>1, <3>2, CrosswalkHears
  <2>2. CASE loop.group = RoadGrp
    <3>1. Held(RoadGrp) = {}
      BY <1>1 DEF CrossingInv, RoomForAll
    <3>2. pc' = "pass"
      BY <1>1, <2>2, Layout DEF QueueTimeout, RoadGrp
    <3>3. QED
      BY <1>2, <1>4, <2>2, <3>1, <3>2, RoadsHear
  <2>3. QED
    BY <1>3, <2>1, <2>2
<1>6. QED
  BY <1>1, <1>5

\* A TIMEOUT queued by the loop finds the queue of its group empty.
LEMMA CrossingQueueTimeout ==
    ASSUME IndInv, CrossingInv, QueueTimeout, UNCHANGED light
    PROVE  CrossingInv'
<1>1. /\ pc = "timeout" /\ UNCHANGED << fsm, clock >>
      /\ OneEvent' /\ flags' = flags \cup {"EVENT_QUEUED"}
      /\ \/ /\ Held(CrosswalkGrp)' = {0} /\ Held(RoadGrp)' = Held(RoadGrp)
            /\ pc' = "timeout" /\ loop'.group = 2
         \/ /\ Held(RoadGrp)' = {0} /\ Held(CrosswalkGrp)' = Held(CrosswalkGrp)
            /\ pc' = "pass"
  BY TimeoutHeld
<1>2. Held(RoadGrp) = {} /\ 1 \notin Held(CrosswalkGrp)
  BY <1>1 DEF CrossingInv, RoomForAll, BUTTON_PRESSED
<1>3. RoomForAll'
  BY <1>1, <1>2
  DEF RoomForAll, Turn, CrosswalkGrp, RoadGrp, BUTTON_PRESSED, GO_GREEN
<1>4. HandlerKnown'
  BY <1>1 DEF HandlerKnown
<1>5. RoadsInState' /\ OneIsOff'
  BY <1>1 DEF CrossingInv, RoadsInState, OneIsOff, Off, IsIn, Finite
<1>6. FirstPasses'
  BY <1>1, <1>2
  DEF CrossingInv, FirstPasses, First, Off, IsIn, Finite, BUTTON_PRESSED, PEDESTRIAN_AWAITS
<1>7. MarksOK'
  BY <1>1, <1>2
  DEF CrossingInv, MarksOK, Handing, Marked, GO_GREEN
<1>8. QED
  BY <1>3, <1>4, <1>5, <1>6, <1>7 DEF CrossingInv

\* The event that a turn takes.
LEMMA DequeueHeld ==
    ASSUME IndInv, CrossingInv, DequeueEvent
    PROVE  /\ OneEvent' /\ UNCHANGED flags /\ visit'.fsmIndex = 1
           /\ \/ /\ loop.group = CrosswalkGrp
                 /\ Held(CrosswalkGrp)' = {} /\ Held(RoadGrp)' = Held(RoadGrp)
                 /\ visit'.pending => Held(CrosswalkGrp) = {visit'.event.code}
                 /\ Held(CrosswalkGrp) # {} => visit'.pending
              \/ /\ loop.group = RoadGrp
                 /\ Held(RoadGrp)' = {} /\ Held(CrosswalkGrp)' = Held(CrosswalkGrp)
                 /\ visit'.pending => Held(RoadGrp) = {visit'.event.code}
                 /\ Held(RoadGrp) # {} => visit'.pending
<1>1. UNCHANGED loop
  BY DEF DequeueEvent
<1>2. loop.group \in {CrosswalkGrp, RoadGrp} /\ QueuesOK /\ OneEvent
  BY Layout DEF IndInv, LocalsOK, LoopRecord, CrossingInv, RoomForAll
<1>3. /\ OneEvent' /\ UNCHANGED flags /\ visit'.fsmIndex = 1
      /\ visit'.pending => Held(loop.group) = {visit'.event.code}
      /\ Held(loop.group) # {} => visit'.pending
      /\ Held(loop.group)' = {} /\ \A h \in Groups \ {loop.group} : Held(h)' = Held(h)
  BY <1>2, Layout, TakesHeld
<1>4. CASE loop.group = CrosswalkGrp
  BY <1>1, <1>3, <1>4, Layout DEF Held, CrosswalkGrp, RoadGrp
<1>5. CASE loop.group = RoadGrp
  BY <1>1, <1>3, <1>5, Layout DEF Held, CrosswalkGrp, RoadGrp
<1>6. QED
  BY <1>2, <1>4, <1>5

\* A group takes its event, the only one it holds.
LEMMA CrossingDequeue ==
    ASSUME IndInv, CrossingInv, DequeueEvent, UNCHANGED light
    PROVE  CrossingInv'
<1>1. /\ pc = "dequeue" /\ pc' = "fsm" /\ UNCHANGED << fsm, clock, loop, handling >>
  BY DEF DequeueEvent
<1>2. /\ OneEvent' /\ UNCHANGED flags /\ visit'.fsmIndex = 1
      /\ loop.group = CrosswalkGrp \/ loop.group = RoadGrp
  BY DequeueHeld
<1>3. CASE loop.group = CrosswalkGrp
  <2>1. /\ Held(CrosswalkGrp)' = {} /\ Held(RoadGrp)' = Held(RoadGrp)
        /\ visit'.pending => Held(CrosswalkGrp) = {visit'.event.code}
    BY <1>3, DequeueHeld DEF CrosswalkGrp, RoadGrp
  <2>2. RoomForAll'
    BY <1>1, <1>2, <1>3, <2>1
    DEF CrossingInv, RoomForAll, Turn, Brings, CallsLeft, CrosswalkGrp, RoadGrp
  <2>3. FirstPasses'
    BY <1>1, <1>2, <2>1
    DEF CrossingInv, FirstPasses, First, Off, IsIn, Finite, Brings
  <2>4. MarksOK'
    BY <1>1, <1>3, <2>1
    DEF CrossingInv, MarksOK, Handing, Marked, NotClearing, Off, IsIn, Finite,
        CrosswalkGrp, RoadGrp
  <2>5. QED
    BY <1>1, <2>2, <2>3, <2>4
    DEF CrossingInv, HandlerKnown, RoadsInState, OneIsOff, Off, IsIn, Finite
<1>4. CASE loop.group = RoadGrp
  <2>1. /\ Held(RoadGrp)' = {} /\ Held(CrosswalkGrp)' = Held(CrosswalkGrp)
        /\ visit'.pending => Held(RoadGrp) = {visit'.event.code}
        /\ Held(RoadGrp) # {} => visit'.pending
    BY <1>4, DequeueHeld DEF CrosswalkGrp, RoadGrp
  <2>2. Held(CrosswalkGrp) = {} /\ visit'.event.code \in 0 .. GO_GREEN
    <3>1. visit' = NoVisit \/ visit'.pending
      BY DEF DequeueEvent, NoVisit
    <3>2. NoVisit.event.code = 0
      BY Codes DEF NoVisit
    <3>3. QED
      BY <1>1, <1>4, <2>1, <3>1, <3>2 DEF CrossingInv, RoomForAll, GO_GREEN
  <2>3. RoomForAll'
    BY <1>1, <1>2, <1>4, <2>1, <2>2
    DEF CrossingInv, RoomForAll, Turn, Brings, CallsLeft, CrosswalkGrp, RoadGrp
  <2>4. FirstPasses'
    BY <1>1, <1>2, <2>1
    DEF CrossingInv, FirstPasses, First, Off, IsIn, Finite, Brings,
        BUTTON_PRESSED, PEDESTRIAN_AWAITS
  <2>5. ~Handing /\ (Handing' <=> GO_GREEN \in Held(RoadGrp))
    BY <1>1, <1>4, <2>1 DEF Handing, Brings
  <2>6. MarksOK'
    BY <1>1, <1>2, <2>1, <2>5
    DEF CrossingInv, MarksOK, Marked, NotClearing, Off, IsIn, Finite
  <2>7. QED
    BY <1>1, <2>3, <2>4, <2>6
    DEF CrossingInv, HandlerKnown, RoadsInState, OneIsOff, Off, IsIn, Finite
<1>5. QED
  BY <1>2, <1>3, <1>4

\* A turn of the crosswalk leaves the roads alone and the queues as they are.
LEMMA CrosswalkKeeps ==
    ASSUME IndInv, CrossingInv, UNCHANGED << queue, flags, clock, light >>,
           pc \in {"fsm", "handler"}, loop.group = CrosswalkGrp,
           NEW newFsm \in FsmRecord, TurnTo(newFsm),
           newFsm.skipNextEventCode = fsm[Crosswalk].skipNextEventCode,
           newFsm.currentState \in {"WaitForButtonPress", "Disabled"}
    PROVE  CrossingInv'
<1>1. /\ pc' = "dequeue" /\ loop'.group = RoadGrp
      /\ fsm' = [fsm EXCEPT ![Crosswalk] = newFsm] /\ fsm \in [Fsm -> FsmRecord]
  BY DEF TurnTo, IndInv, LocalsOK
<1>2. /\ fsm'[Road1] = fsm[Road1] /\ fsm'[Road2] = fsm[Road2]
      /\ fsm'[Crosswalk] = newFsm
  BY <1>1, Layout
<1>3. Held(CrosswalkGrp)' = Held(CrosswalkGrp) /\ Held(RoadGrp)' = Held(RoadGrp)
  BY SameQueues
<1>4. RoomForAll'
  BY <1>1, <1>3, SameQueues
  DEF CrossingInv, RoomForAll, Turn, CrosswalkGrp, RoadGrp
<1>5. RoadsInState' /\ OneIsOff'
  BY <1>2, Layout DEF CrossingInv, RoadsInState, OneIsOff, Off, IsIn, Finite
<1>6. FirstPasses'
  BY <1>1, <1>2, <1>3
  DEF CrossingInv, FirstPasses, First, Off, IsIn, Finite
<1>7. CurrentFsm \notin Road
  BY Layout DEF IndInv, LocalsOK, CurrentFsm
<1>8. MarksOK'
  BY <1>1, <1>2, <1>3, <1>7, Layout
  DEF CrossingInv, MarksOK, Handing, Marked, NotClearing, Off, IsIn, Finite,
      CrosswalkGrp, RoadGrp
<1>9. QED
  BY <1>1, <1>4, <1>5, <1>6, <1>8 DEF CrossingInv, HandlerKnown

\* The crosswalk's turn without a handler.
LEMMA CrossingCrosswalkTurn ==
    ASSUME IndInv, CrossingInv, pc = "fsm", loop.group = CrosswalkGrp, ProcessEvent,
           UNCHANGED light
    PROVE  CrossingInv'
<1>1. EndTurn(CurrentFsm, fsm[CurrentFsm])
  BY CrosswalkTurn, CrossingStates
<1>2. CurrentFsm = Crosswalk /\ fsm[CurrentFsm] \in FsmRecord /\ LocalsOK
  BY CurrentFsmType, Layout DEF IndInv, LocalsOK, CurrentFsm
<1>3. TurnTo(fsm[CurrentFsm])
  BY <1>1, <1>2, TurnEnds
<1>4. UNCHANGED << queue, flags, clock >>
  BY DEF ProcessEvent
<1>5. fsm[Crosswalk].currentState \in {"WaitForButtonPress", "Disabled"}
  BY DEF CrossingInv, RoadsInState, IsIn
<1>6. QED
  BY <1>2, <1>3, <1>4, <1>5, CrosswalkKeeps

\* The handlers of the crosswalk touch no light.
LEMMA CrossingCrosswalkReturns ==
    ASSUME IndInv, CrossingInv, loop.group = CrosswalkGrp, HandlerEnds
    PROVE  CrossingInv'
<1>1. pc = "handler" /\ UNCHANGED << queue, flags, clock >>
  BY DEF HandlerEnds, HandlerReturns
<1>2. /\ CurrentFsm = Crosswalk /\ light' = light
      /\ \E newFsm \in FsmRecord :
            /\ EndTurn(CurrentFsm, newFsm)
            /\ newFsm.skipNextEventCode = fsm[Crosswalk].skipNextEventCode
            /\ newFsm.currentState \in {"WaitForButtonPress", "Disabled"}
  BY CrosswalkReturns DEF CrossingInv
<1>3. PICK newFsm \in FsmRecord :
            /\ EndTurn(CurrentFsm, newFsm)
            /\ newFsm.skipNextEventCode = fsm[Crosswalk].skipNextEventCode
            /\ newFsm.currentState \in {"WaitForButtonPress", "Disabled"}
  BY <1>2
<1>4. TurnTo(newFsm)
  BY <1>1, <1>3, TurnEnds DEF IndInv
<1>5. QED
  BY <1>1, <1>2, <1>3, <1>4, CrosswalkKeeps

\* The two turns of the roads.
LEMMA RoadTurns ==
    ASSUME IndInv, loop.group = RoadGrp, NEW newFsm \in FsmRecord, TurnTo(newFsm)
    PROVE  /\ fsm'[CurrentFsm] = newFsm /\ fsm'[Crosswalk] = fsm[Crosswalk]
           /\ \/ /\ CurrentFsm = Road1 /\ visit.fsmIndex = 1 /\ fsm'[Road2] = fsm[Road2]
                 /\ pc' = "fsm" /\ loop'.group = RoadGrp /\ visit'.fsmIndex = 2
                 /\ visit'.pending = visit.pending /\ visit'.event = visit.event
              \/ /\ CurrentFsm = Road2 /\ visit.fsmIndex = 2 /\ fsm'[Road1] = fsm[Road1]
                 /\ pc' = "decide"
<1>1. fsm' = [fsm EXCEPT ![CurrentFsm] = newFsm] /\ fsm \in [Fsm -> FsmRecord]
  BY DEF TurnTo, IndInv, LocalsOK
<1>2. CurrentFsm \in {Road1, Road2}
  BY Layout DEF TurnTo
<1>3. QED
  BY <1>1, <1>2, Layout DEF TurnTo, CrosswalkGrp, RoadGrp

\* A road's turn without a handler: it skips its own GO_GREEN, takes the other's,
\* or is told of a pedestrian.
LEMMA CrossingRoadTurn ==
    ASSUME IndInv, CrossingInv, pc = "fsm", loop.group = RoadGrp, ProcessEvent,
           UNCHANGED light
    PROVE  CrossingInv'
<1> DEFINE r == CurrentFsm
<1>1. PICK new \in FsmRecord : EndTurn(r, new) /\ RoadLeft(r, new)
  BY RoadTurn, CrossingStates
<1>2. UNCHANGED << queue, flags, clock >>
  BY DEF ProcessEvent
<1>3. TurnTo(new)
  BY <1>1, TurnEnds DEF IndInv
<1>4. /\ fsm'[r] = new /\ fsm'[Crosswalk] = fsm[Crosswalk]
      /\ \/ /\ r = Road1 /\ visit.fsmIndex = 1 /\ fsm'[Road2] = fsm[Road2]
            /\ pc' = "fsm" /\ loop'.group = RoadGrp /\ visit'.fsmIndex = 2
            /\ visit'.pending = visit.pending /\ visit'.event = visit.event
         \/ /\ r = Road2 /\ visit.fsmIndex = 2 /\ fsm'[Road1] = fsm[Road1]
            /\ pc' = "decide"
  BY <1>3, RoadTurns
<1>5. Held(CrosswalkGrp)' = Held(CrosswalkGrp) /\ Held(RoadGrp)' = Held(RoadGrp) /\ OneEvent'
  BY <1>2, SameQueues DEF CrossingInv, RoomForAll
<1>6. CASE visit.fsmIndex = 1
  <2>1. /\ r = Road1 /\ fsm'[Road2] = fsm[Road2]
        /\ pc' = "fsm" /\ loop'.group = RoadGrp /\ visit'.fsmIndex = 2
        /\ visit'.pending = visit.pending /\ visit'.event = visit.event
    BY <1>4, <1>6
  <2>2. RoadLeft(Road1, new) /\ fsm'[Road1] = new
    BY <1>1, <1>4, <2>1
  <2> HIDE DEF r
  <2>3. Held(CrosswalkGrp) = {} /\ Held(RoadGrp) = {}
    BY <1>6 DEF CrossingInv, RoomForAll, Turn, CallsLeft
  <2>4. RoomForAll'
    BY <1>5, <2>1, <2>3
    DEF CrossingInv, RoomForAll, Turn, Brings, CallsLeft, CrosswalkGrp, RoadGrp, GO_GREEN
  <2>5. RoadsInState'
    BY <1>4, <2>1, <2>2, Layout
    DEF CrossingInv, RoadsInState, RoadLeft, Off, IsIn, Finite
  <2>6. OneIsOff'
    BY <1>6, <2>1, <2>2, Layout
    DEF CrossingInv, OneIsOff, RoadLeft, Off, IsIn, Finite, MarksOK, Handing, Marked
  <2>7. First => ~Brings(PEDESTRIAN_AWAITS)
    BY DEF CrossingInv, FirstPasses, Brings, PEDESTRIAN_AWAITS, BUTTON_PRESSED
  <2>8. FirstPasses'
    BY <1>2, <1>5, <2>1, <2>2, <2>7, Layout
    DEF CrossingInv, FirstPasses, First, RoadLeft, Off, IsIn, Finite, Brings
  <2>9. MarksOK'
    BY <1>4, <1>5, <1>6, <2>1, <2>2, <2>3, Layout
    DEF CrossingInv, MarksOK, Handing, RoadLeft, NotClearing, Marked, Off, IsIn, Finite, Brings
  <2>10. QED
    BY <2>1, <2>4, <2>5, <2>6, <2>8, <2>9 DEF CrossingInv, HandlerKnown
<1>7. CASE visit.fsmIndex = 2
  <2>1. r = Road2 /\ fsm'[Road1] = fsm[Road1] /\ pc' = "decide"
    BY <1>4, <1>7
  <2>2. RoadLeft(Road2, new) /\ fsm'[Road2] = new
    BY <1>1, <1>4, <2>1
  <2> HIDE DEF r
  <2>3. ~Off(Road2) => Held(RoadGrp) = {}
    BY <1>7 DEF CrossingInv, RoomForAll, Turn, CallsLeft
  <2>4. RoomForAll'
    BY <1>5, <2>1
    DEF CrossingInv, RoomForAll, Turn
  <2>5. RoadsInState'
    BY <1>4, <2>1, <2>2, Layout
    DEF CrossingInv, RoadsInState, RoadLeft, Off, IsIn, Finite
  <2>6. OneIsOff'
    BY <1>7, <2>1, <2>2, Layout
    DEF CrossingInv, OneIsOff, RoadLeft, Off, IsIn, Finite, MarksOK, Handing, Marked
  <2>7. First => ~Brings(PEDESTRIAN_AWAITS)
    BY DEF CrossingInv, FirstPasses, Brings, PEDESTRIAN_AWAITS, BUTTON_PRESSED
  <2>8. First /\ Handing => Marked(Road2)
    BY <1>7 DEF CrossingInv, MarksOK, FirstPasses, Off, IsIn
  <2>9. FirstPasses'
    BY <1>2, <1>5, <2>1, <2>2, <2>7, <2>8, Layout
    DEF CrossingInv, FirstPasses, First, RoadLeft, Off, IsIn, Finite, Handing
  <2>10. MarksOK'
    BY <1>4, <1>5, <1>7, <2>1, <2>2, <2>3, Layout
    DEF CrossingInv, MarksOK, Handing, RoadLeft, NotClearing, Marked, Off, IsIn, Finite
  <2>11. QED
    BY <2>1, <2>4, <2>5, <2>6, <2>9, <2>10 DEF CrossingInv, HandlerKnown
<1>8. QED
  BY <1>4, <1>6, <1>7

\* A road's handler returns: a light goes on only in the road that was not off.
LEMMA CrossingRoadReturns ==
    ASSUME IndInv, CrossingInv, loop.group = RoadGrp, HandlerEnds
    PROVE  CrossingInv'
<1> DEFINE r == CurrentFsm
<1>1. pc = "handler" /\ UNCHANGED << queue, flags, clock >> /\ ~CallsLeft
  BY DEF HandlerEnds, HandlerReturns, CallsLeft
<1>2. PICK new \in FsmRecord : EndTurn(r, new) /\ RoadDone(r, new)
  BY RoadReturns DEF CrossingInv, RoadsInState
<1>3. TurnTo(new)
  BY <1>1, <1>2, TurnEnds DEF IndInv
<1>4. /\ fsm'[r] = new /\ fsm'[Crosswalk] = fsm[Crosswalk]
      /\ \/ /\ r = Road1 /\ visit.fsmIndex = 1 /\ fsm'[Road2] = fsm[Road2]
            /\ pc' = "fsm" /\ loop'.group = RoadGrp /\ visit'.fsmIndex = 2
            /\ visit'.pending = visit.pending /\ visit'.event = visit.event
         \/ /\ r = Road2 /\ visit.fsmIndex = 2 /\ fsm'[Road1] = fsm[Road1]
            /\ pc' = "decide"
  BY <1>3, RoadTurns
<1>5. Held(CrosswalkGrp)' = Held(CrosswalkGrp) /\ Held(RoadGrp)' = Held(RoadGrp) /\ OneEvent'
  BY <1>1, SameQueues DEF CrossingInv, RoomForAll
<1>6. /\ visit.event.code = 0 /\ (First \/ Finite(r))
      /\ ~IsIn(r, "GreenLightOff") => Held(RoadGrp) = {}
      /\ 1 \notin Held(CrosswalkGrp)
  BY <1>1 DEF CrossingInv, HandlerKnown, RoomForAll, Turn, TIMEOUT, BUTTON_PRESSED
<1>7. light \in [Road -> BOOLEAN] /\ ~Handing
  BY <1>1 DEF CrossingInv, RoadsInState, Handing
<1>8. CASE visit.fsmIndex = 1
  <2>1. /\ r = Road1 /\ fsm'[Road2] = fsm[Road2]
        /\ pc' = "fsm" /\ loop'.group = RoadGrp /\ visit'.fsmIndex = 2
        /\ visit'.pending = visit.pending /\ visit'.event = visit.event
    BY <1>4, <1>8
  <2>2. RoadDone(Road1, new) /\ fsm'[Road1] = new /\ light' \in [Road -> BOOLEAN]
    BY <1>2, <1>4, <1>7, <2>1, Layout DEF RoadDone
  <2>3. /\ light'[Road2] = light[Road2]
        /\ IsIn(Road1, "GreenLightOff") => ~light'[Road1]
    BY <1>7, <2>2, Layout DEF RoadDone, IsIn
  <2>4. CurrentFsm = Road1 /\ (First \/ Finite(Road1))
    BY <1>6, <2>1
  <2>5. ~IsIn(Road1, "GreenLightOff") => Held(RoadGrp) = {}
    BY <1>6, <2>1
  <2> HIDE DEF r
  <2>6. Off(Road2)
    BY <2>4, Layout DEF CrossingInv, OneIsOff, FirstPasses, Off
  <2>7. Off(Road2)' /\ OneIsOff'
    BY <2>1, <2>3, <2>6, Layout DEF OneIsOff, Off, IsIn, Finite
  <2>8. RoomForAll'
    <3>1. CurrentFsm' = Road2
      BY <2>1, Layout DEF CurrentFsm
    <3>2. First => Held(RoadGrp) = {}
      BY <2>5 DEF CrossingInv, FirstPasses, Off, IsIn
    <3>3. First' = First
      BY <1>1 DEF First
    <3>4. IsIn(CurrentFsm, "GreenLightOff")'
      BY <2>7, <3>1 DEF Off, IsIn
    <3>5. QED
      BY <1>1, <1>5, <1>6, <2>1, <2>7, <3>1, <3>2, <3>3, <3>4
      DEF CrossingInv, RoomForAll, Turn, Brings, CallsLeft, CrosswalkGrp, RoadGrp,
          GO_GREEN, BUTTON_PRESSED
  <2>9. RoadsInState'
    BY <1>4, <2>1, <2>2, <2>3, Layout
    DEF CrossingInv, RoadsInState, RoadDone, Off, IsIn, Finite
  <2>10. Register(GREEN_LIGHT_TIMEOUT) > 0
    BY RegisterKeeps, TimeoutsAssumption, MaxTimeType
  <2>11. First => new.currentState = "ClearIntersection" /\ Register(new.wakeup) > 0
    BY <1>1, <2>2, <2>4, <2>10, TimeoutsAssumption, MaxTimeType
    DEF CrossingInv, FirstPasses, RoadDone, IsIn
  <2>12. FirstPasses'
    BY <1>1, <1>5, <1>6, <2>1, <2>2, <2>7, <2>11
    DEF CrossingInv, FirstPasses, First, IsIn, Brings, BUTTON_PRESSED
  <2>13. MarksOK'
    BY <1>4, <1>5, <1>6, <1>7, <2>1, <2>2, <2>3, <2>5, <2>7, Layout
    DEF CrossingInv, MarksOK, Handing, RoadDone, NotClearing, Marked, Off, IsIn, Finite, Brings,
        GO_GREEN
  <2>14. QED
    BY <2>1, <2>7, <2>8, <2>9, <2>12, <2>13 DEF CrossingInv, HandlerKnown
<1>9. CASE visit.fsmIndex = 2
  <2>1. r = Road2 /\ fsm'[Road1] = fsm[Road1] /\ pc' = "decide"
    BY <1>4, <1>9
  <2>2. RoadDone(Road2, new) /\ fsm'[Road2] = new /\ light' \in [Road -> BOOLEAN]
    BY <1>2, <1>4, <1>7, <2>1, Layout DEF RoadDone
  <2>3. /\ light'[Road1] = light[Road1]
        /\ IsIn(Road2, "GreenLightOff") => ~light'[Road2]
    BY <1>7, <2>2, Layout DEF RoadDone, IsIn
  <2>4. CurrentFsm = Road2 /\ (~IsIn(Road2, "GreenLightOff") => Held(RoadGrp) = {})
    BY <1>6, <2>1
  <2> HIDE DEF r
  <2>5. /\ Off(Road1)' <=> Off(Road1)
        /\ IsIn(Road2, "GreenLightOff") => Off(Road2)'
        /\ ~IsIn(Road2, "GreenLightOff") => Off(Road1)
    BY <2>1, <2>2, <2>3, Layout DEF CrossingInv, OneIsOff, RoadDone, Off, IsIn, Finite
  <2>6. OneIsOff'
    BY <2>5, Layout DEF OneIsOff, Off, IsIn, Finite
  <2>7. RoomForAll'
    BY <1>5, <1>6, <2>1
    DEF CrossingInv, RoomForAll, Turn, BUTTON_PRESSED
  <2>8. RoadsInState'
    BY <1>4, <2>1, <2>2, <2>3, Layout
    DEF CrossingInv, RoadsInState, RoadDone, Off, IsIn, Finite
  <2>9. FirstPasses'
    BY <1>1, <1>5, <2>1, <2>5
    DEF CrossingInv, FirstPasses, First, Off, IsIn
  <2>10. MarksOK'
    <3>1. \A q \in Road : fsm'[q].skipNextEventCode = fsm[q].skipNextEventCode
      BY <2>1, <2>2, Layout DEF RoadDone
    <3>2. GO_GREEN \in Held(RoadGrp) => Off(Road2)' /\ (NotClearing(Road1)' <=> NotClearing(Road1))
      BY <2>1, <2>3, <2>4, <2>5 DEF NotClearing, Off, IsIn, Finite
    <3>3. QED
      BY <1>4, <1>5, <1>7, <2>1, <2>4, <2>5, <3>1, <3>2, Layout
      DEF CrossingInv, MarksOK, Handing, NotClearing, Marked, Off, IsIn, Finite
  <2>11. QED
    BY <2>1, <2>6, <2>7, <2>8, <2>9, <2>10 DEF CrossingInv, HandlerKnown
<1>10. QED
  BY <1>4, <1>8, <1>9

\* The handler that starts is the one of the table.
LEMMA CrossingCallHandler ==
    ASSUME IndInv, CrossingInv, CallHandler, UNCHANGED light
    PROVE  CrossingInv'
<1>1. /\ pc = "fsm" /\ pc' = "handler"
      /\ UNCHANGED << queue, fsm, flags, loop, visit, clock >>
  BY DEF CallHandler
<1>2. /\ HandlerKnown'
      /\ First /\ CurrentFsm = Road1 /\ clock = 0 /\ "TIMER_OVERFLOW" \notin flags
         /\ Register(fsm[Road1].wakeup) > 0 => visit.event.code # TIMEOUT
  BY HandlerStarts, CrossingStates
<1>3. Held(CrosswalkGrp)' = Held(CrosswalkGrp) /\ Held(RoadGrp)' = Held(RoadGrp) /\ OneEvent'
  BY <1>1, SameQueues DEF CrossingInv, RoomForAll
<1>4. CurrentFsm' = CurrentFsm /\ (CurrentFsm = Road1 => loop.group = RoadGrp)
  <2>1. loop.group \in {CrosswalkGrp, RoadGrp}
    BY Layout DEF IndInv, LocalsOK, LoopRecord
  <2>2. ASSUME loop.group = CrosswalkGrp
        PROVE  visit.fsmIndex = 1
    <3>1. visit.fsmIndex \in 1 .. Len(GroupFsms[CrosswalkGrp])
      BY <2>2 DEF IndInv, LocalsOK
    <3>2. Len(GroupFsms[CrosswalkGrp]) = 1
      BY Layout
    <3>3. QED
      BY <3>1, <3>2
  <2>3. QED
    BY <1>1, <2>1, <2>2, Layout DEF CurrentFsm
<1>5. loop.group = RoadGrp => visit.event.code = TIMEOUT
  BY <1>1, <1>2 DEF HandlerKnown
<1>6. RoomForAll'
  BY <1>1, <1>3
  DEF CrossingInv, RoomForAll, Turn, Brings, CallsLeft, CurrentFsm, Off, IsIn, Finite, First
<1>7. RoadsInState' /\ OneIsOff'
  BY <1>1 DEF CrossingInv, RoadsInState, OneIsOff, Off, IsIn, Finite
<1>8. FirstPasses'
  BY <1>1, <1>2, <1>3, <1>4, <1>5
  DEF CrossingInv, FirstPasses, First, Off, IsIn, Finite, Brings
<1>9. MarksOK'
  BY <1>1, <1>3, <1>5
  DEF CrossingInv, MarksOK, Handing, Marked, NotClearing, Off, IsIn, Finite, Brings,
      TIMEOUT, GO_GREEN
<1>10. QED
  BY <1>2, <1>6, <1>7, <1>8, <1>9 DEF CrossingInv

\* Whose turn it is, by its place in its group.
LEMMA WhoseTurn ==
    ASSUME IndInv
    PROVE  /\ loop.group \in {CrosswalkGrp, RoadGrp} /\ fsm \in [Fsm -> FsmRecord]
           /\ loop.group = RoadGrp =>
                 \/ CurrentFsm = Road1 /\ visit.fsmIndex = 1
                 \/ CurrentFsm = Road2 /\ visit.fsmIndex = 2
           /\ loop.group = CrosswalkGrp => CurrentFsm = Crosswalk
<1>1. LocalsOK
  BY DEF IndInv
<1>2. /\ loop.group \in {CrosswalkGrp, RoadGrp} /\ fsm \in [Fsm -> FsmRecord]
      /\ visit.fsmIndex \in 1 .. Len(GroupFsms[loop.group])
  BY <1>1, Layout DEF LocalsOK, LoopRecord
<1>3. ASSUME loop.group = RoadGrp PROVE visit.fsmIndex \in {1, 2}
  <2>1. Len(GroupFsms[loop.group]) = 2
    BY <1>3, Layout
  <2>2. QED
    BY <1>2, <2>1
<1>4. ASSUME loop.group = CrosswalkGrp PROVE visit.fsmIndex = 1
  <2>1. Len(GroupFsms[loop.group]) = 1
    BY <1>4, Layout
  <2>2. QED
    BY <1>2, <2>1
<1>5. QED
  BY <1>2, <1>3, <1>4, Layout DEF CurrentFsm

\* A handler's call finds its queue empty; the GO_GREEN of a road marks its sender.
LEMMA CrossingHandlerQueues ==
    ASSUME IndInv, CrossingInv, HandlerQueues, UNCHANGED light
    PROVE  CrossingInv'
<1> DEFINE r == CurrentFsm
<1>1. /\ pc = "handler" /\ pc' = "handler" /\ handling'.effect.calls = << >>
      /\ handling.effect.calls # << >> /\ r \in Fsm
      /\ UNCHANGED << loop, visit, clock >> /\ HandlerKnown' /\ r' = r
  BY HandlerCalls DEF CrossingInv, CurrentFsm
<1>2. /\ OneEvent /\ CallsLeft /\ ~CallsLeft' /\ ~Handing
  BY <1>1 DEF CrossingInv, RoomForAll, CallsLeft, Handing
<1>3. /\ loop.group \in {CrosswalkGrp, RoadGrp} /\ fsm \in [Fsm -> FsmRecord]
      /\ loop.group = RoadGrp =>
            \/ r = Road1 /\ visit.fsmIndex = 1
            \/ r = Road2 /\ visit.fsmIndex = 2
      /\ loop.group = CrosswalkGrp => r = Crosswalk
  BY WhoseTurn
<1> DEFINE arm == EventOf(ARM_BUTTON)
           disable == EventOf(DISABLE_BUTTON)
           green == EventOf(GO_GREEN)
           pedestrian == EventOf(PEDESTRIAN_AWAITS)
<1>4. /\ arm \in Event /\ arm.code = 3 /\ disable \in Event /\ disable.code = 2
      /\ green \in Event /\ green.code = 2 /\ pedestrian \in Event /\ pedestrian.code = 1
  BY Codes DEF EventOf, ARM_BUTTON, DISABLE_BUTTON, GO_GREEN, PEDESTRIAN_AWAITS
<1> HIDE DEF arm, disable, green, pedestrian
<1>5. ASSUME loop.group = RoadGrp, ~IsIn(r, "GreenLightOff"), UNCHANGED fsm,
             QueueGroupEvent(CrosswalkGrp, FALSE, arm)
             \/ QueueGroupEvent(CrosswalkGrp, FALSE, disable)
      PROVE  CrossingInv'
  <2>1. Held(CrosswalkGrp) = {} /\ Held(RoadGrp) = {}
    <3>1. visit.fsmIndex = 2 => ~Off(Road2)
      BY <1>3, <1>5, Layout DEF Off
    <3>2. QED
      BY <1>1, <1>2, <1>3, <1>5, <3>1 DEF CrossingInv, RoomForAll, Turn
  <2>2. /\ OneEvent' /\ Held(RoadGrp)' = {} /\ flags' = flags \cup {"EVENT_QUEUED"}
        /\ Held(CrosswalkGrp)' = {2} \/ Held(CrosswalkGrp)' = {3}
    BY <1>2, <1>5, <1>4, <2>1, CrosswalkHears
  <2>3. RoomForAll'
    BY <1>1, <1>2, <1>5, <2>2
    DEF CrossingInv, RoomForAll, Turn, Brings, CrosswalkGrp, RoadGrp, BUTTON_PRESSED
  <2>4. RoadsInState' /\ OneIsOff'
    BY <1>5 DEF CrossingInv, RoadsInState, OneIsOff, Off, IsIn, Finite
  <2>5. FirstPasses'
    BY <1>1, <1>5, <2>2
    DEF CrossingInv, FirstPasses, First, Off, IsIn, Finite, Brings, BUTTON_PRESSED
  <2>6. MarksOK'
    BY <1>1, <1>2, <1>5, <2>1, <2>2
    DEF CrossingInv, MarksOK, Handing, Marked
  <2>7. QED
    BY <1>1, <2>3, <2>4, <2>5, <2>6 DEF CrossingInv
<1>6. ASSUME loop.group = RoadGrp, IsIn(r, "GreenLightOff"),
             QueueGroupEvent(RoadGrp, FALSE, green),
             fsm' = [fsm EXCEPT ![r].skipNextEventCode = GO_GREEN]
      PROVE  CrossingInv'
  <2>1. PICK s \in Road, o \in Road : r = s /\ s # o /\ Road = {s, o}
    BY <1>3, <1>6, Layout
  <2>2. First \/ Finite(s)
    BY <1>1, <1>6, <2>1 DEF CrossingInv, HandlerKnown
  <2>3. Off(s) => First
    BY <2>2 DEF Off
  <2>4. Held(RoadGrp) = {}
    <3>1. visit.fsmIndex = 2 => ~Off(Road2) \/ First
      BY <1>3, <1>6, <2>1, <2>3, Layout
    <3>2. QED
      BY <1>1, <1>2, <1>3, <1>6, <3>1 DEF CrossingInv, RoomForAll, Turn
  <2>5. /\ OneEvent' /\ Held(CrosswalkGrp)' = Held(CrosswalkGrp) /\ Held(RoadGrp)' = {2}
        /\ flags' = flags \cup {"EVENT_QUEUED"}
    BY <1>2, <1>6, <1>4, <2>4, RoadsHear
  <2>6. /\ \A h \in Fsm : /\ fsm'[h].flags = fsm[h].flags
                          /\ fsm'[h].wakeup = fsm[h].wakeup
                          /\ fsm'[h].currentState = fsm[h].currentState
        /\ fsm'[s].skipNextEventCode = GO_GREEN
        /\ \A h \in Fsm \ {s} : fsm'[h] = fsm[h]
    BY <1>1, <1>3, <1>6, <2>1, MarkFields
  <2>7. Road \subseteq Fsm /\ Road1 \in Fsm /\ Road2 \in Fsm /\ Crosswalk \in Fsm \ {s}
        /\ o \in Fsm \ {s}
    BY <2>1, Layout
  <2>8. NotClearing(o)
    BY <2>1, <2>3, Layout
    DEF CrossingInv, OneIsOff, FirstPasses, NotClearing, Off, IsIn
  <2>9. ~Marked(s) /\ ~Marked(o)
    BY <1>2, <2>4 DEF CrossingInv, MarksOK
  <2>10. IsIn(s, "GreenLightOff") /\ 1 \notin Held(CrosswalkGrp)
    BY <1>1, <1>6, <2>1 DEF CrossingInv, RoomForAll, Turn, BUTTON_PRESSED
  <2> HIDE DEF r
  <2>11. RoomForAll'
    <3>1. IsIn(CurrentFsm, "GreenLightOff")'
      BY <1>1, <1>6, <2>6 DEF IsIn, r
    <3>2. QED
      BY <1>1, <1>2, <1>6, <2>5, <2>10, <3>1
      DEF CrossingInv, RoomForAll, Turn, CrosswalkGrp, RoadGrp, BUTTON_PRESSED, GO_GREEN
  <2>12. RoadsInState' /\ OneIsOff'
    BY <2>6, <2>7 DEF CrossingInv, RoadsInState, OneIsOff, Off, IsIn, Finite
  <2>13. FirstPasses'
    BY <1>1, <1>6, <2>5, <2>6, <2>7, <2>10
    DEF CrossingInv, FirstPasses, First, Off, IsIn, Finite, Brings,
        BUTTON_PRESSED, PEDESTRIAN_AWAITS, r
  <2>14. MarksOK'
    <3>1. CurrentFsm' = s
      BY <1>1, <2>1 DEF r
    <3>2. Marked(s)' /\ ~Marked(o)' /\ NotClearing(o)' /\ IsIn(s, "GreenLightOff")'
      BY <2>6, <2>7, <2>8, <2>9, <2>10 DEF Marked, NotClearing, Off, IsIn, Finite
    <3>3. \A q \in Road : Marked(q)' \/ fsm'[q].skipNextEventCode = NoSkip
      BY <2>1, <2>6, <2>7 DEF CrossingInv, MarksOK, Marked
    <3>4. fsm'[Crosswalk].skipNextEventCode = NoSkip
      BY <2>6, <2>7 DEF CrossingInv, MarksOK
    <3>5. GO_GREEN \in Held(RoadGrp)' /\ ~Handing'
      BY <1>1, <2>5 DEF Handing, GO_GREEN
    <3>6. QED
      BY <1>1, <2>1, <3>1, <3>2, <3>3, <3>4, <3>5 DEF MarksOK, Marked, NotClearing, Off, IsIn, Finite
  <2>15. QED
    BY <1>1, <2>11, <2>12, <2>13, <2>14 DEF CrossingInv
<1>7. ASSUME loop.group = CrosswalkGrp, Brings(BUTTON_PRESSED), UNCHANGED fsm,
             QueueGroupEvent(RoadGrp, FALSE, pedestrian)
      PROVE  CrossingInv'
  <2>1. Held(CrosswalkGrp) = {} /\ Held(RoadGrp) = {}
    BY <1>1, <1>2, <1>7 DEF CrossingInv, RoomForAll, Turn
  <2>2. /\ OneEvent' /\ Held(CrosswalkGrp)' = {} /\ Held(RoadGrp)' = {1}
        /\ flags' = flags \cup {"EVENT_QUEUED"}
    BY <1>2, <1>7, <1>4, <2>1, RoadsHear
  <2>3. RoomForAll'
    BY <1>1, <1>2, <1>7, <2>2
    DEF CrossingInv, RoomForAll, Turn, Brings, CrosswalkGrp, RoadGrp, GO_GREEN
  <2>4. RoadsInState' /\ OneIsOff'
    BY <1>7 DEF CrossingInv, RoadsInState, OneIsOff, Off, IsIn, Finite
  <2>5. ~First'
    BY <1>1, <1>7, <2>2 DEF CrossingInv, FirstPasses, First
  <2>6. MarksOK'
    BY <1>1, <1>2, <1>7, <2>1, <2>2
    DEF CrossingInv, MarksOK, Handing, Marked, GO_GREEN
  <2>7. QED
    BY <1>1, <2>3, <2>4, <2>5, <2>6 DEF CrossingInv, FirstPasses
<1>8. QED
  BY <1>5, <1>6, <1>7, HandlerCalls DEF CrossingInv, IsIn, arm, disable, green, pedestrian

\* A press finds the loop asleep and every queue empty.
LEMMA CrossingPress ==
    ASSUME IndInv, CrossingInv, CalmPress
    PROVE  /\ CrossingInv' /\ pc = "asleep"
           /\ Held(CrosswalkGrp) = {} /\ Held(RoadGrp) = {}
           /\ Held(CrosswalkGrp)' = {BUTTON_PRESSED} /\ Held(RoadGrp)' = {}
           /\ UNCHANGED << fsm, light, attached, clock, pc, loop, visit, handling >>
<1> DEFINE pressed == EventOf(BUTTON_PRESSED)
<1>1. /\ pc = "asleep" /\ "EVENT_QUEUED" \notin flags
      /\ UNCHANGED << fsm, light, attached, clock, pc, loop, visit, handling >>
      /\ \E c \in InterruptEvents : QueueGroupEvent(c.group, c.force, c.event)
  BY DEF CalmPress, Asleep, ISR_ButtonPress, Interrupt
<1>2. Held(CrosswalkGrp) = {} /\ Held(RoadGrp) = {} /\ OneEvent
  BY <1>1, NothingHeld DEF CrossingInv, RoomForAll
<1>3. pressed \in Event /\ pressed.code = 1
  BY Codes DEF EventOf, BUTTON_PRESSED
<1>4. LET c == Queues(CrosswalkGrp, BUTTON_PRESSED, FALSE) IN
      c.group = CrosswalkGrp /\ c.force = FALSE /\ c.event = pressed
  BY DEF Queues, EventOf
<1>5. QueueGroupEvent(CrosswalkGrp, FALSE, pressed)
  <2>1. PICK c \in InterruptEvents : QueueGroupEvent(c.group, c.force, c.event)
    BY <1>1
  <2>2. c.group = CrosswalkGrp /\ c.force = FALSE /\ c.event = pressed
    BY <1>4, IntersectionAssumption
  <2>3. QED
    BY <2>1, <2>2, Zenon
<1> HIDE DEF pressed
<1>6. /\ OneEvent' /\ Held(CrosswalkGrp)' = {1} /\ Held(RoadGrp)' = {}
      /\ flags' = flags \cup {"EVENT_QUEUED"}
  BY <1>2, <1>3, <1>5, CrosswalkHears
<1>7. RoomForAll'
  BY <1>1, <1>6 DEF RoomForAll, Turn, CrosswalkGrp, RoadGrp, BUTTON_PRESSED, TIMEOUT
<1>8. HandlerKnown' /\ RoadsInState' /\ OneIsOff' /\ FirstPasses'
  BY <1>1, <1>6
  DEF CrossingInv, HandlerKnown, RoadsInState, OneIsOff, FirstPasses, First, Off, IsIn, Finite
<1>9. MarksOK'
  BY <1>1, <1>2, <1>6 DEF CrossingInv, MarksOK, Handing, Marked
<1>10. QED
  BY <1>1, <1>2, <1>6, <1>7, <1>8, <1>9 DEF CrossingInv, BUTTON_PRESSED

\* Time that passes finds the loop asleep and leaves at most TIMEOUTs.
LEMMA CrossingTimePasses ==
    ASSUME IndInv, CrossingInv, TimePasses
    PROVE  /\ CrossingInv' /\ pc = "asleep"
           /\ Held(CrosswalkGrp) = {} /\ Held(RoadGrp) = {}
           /\ Held(CrosswalkGrp)' \subseteq {TIMEOUT} /\ Held(RoadGrp)' \subseteq {TIMEOUT}
           /\ clock' >= clock
           /\ UNCHANGED << fsm, light, attached, pc, loop, visit, handling >>
<1>1. /\ pc = "asleep" /\ "EVENT_QUEUED" \notin flags /\ UNCHANGED << light, attached >>
      /\ \E ticks \in 0 .. MaxTick : Heartbeat(ticks)
  BY DEF TimePasses, Asleep
<1>2. PICK ticks \in 0 .. MaxTick : Heartbeat(ticks)
  BY <1>1
<1>3. UNCHANGED << fsm, pc, loop, visit, handling >> /\ clock' >= clock
  BY <1>2, BoundAssumption DEF Heartbeat, IndInv
<1>4. Held(CrosswalkGrp) = {} /\ Held(RoadGrp) = {}
  BY <1>1, NothingHeld
<1>5. /\ OneEvent' /\ flags' \subseteq flags \cup {"TIMER_OVERFLOW", "EVENT_QUEUED"}
      /\ \A g \in Groups : Held(g)' \subseteq {TIMEOUT}
  BY <1>2, <1>4, Layout, HeartbeatHeld DEF IndInv
<1>6. Held(CrosswalkGrp)' \subseteq {0} /\ Held(RoadGrp)' \subseteq {0}
  BY <1>5, Layout DEF Held, TIMEOUT
<1>7. ~First'
  BY <1>1, <1>5 DEF CrossingInv, FirstPasses, First
<1>8. RoomForAll'
  BY <1>1, <1>3, <1>5, <1>6
  DEF RoomForAll, Turn, CrosswalkGrp, RoadGrp, BUTTON_PRESSED, TIMEOUT, GO_GREEN
<1>9. HandlerKnown' /\ RoadsInState' /\ OneIsOff' /\ FirstPasses'
  BY <1>1, <1>3, <1>7
  DEF CrossingInv, HandlerKnown, RoadsInState, OneIsOff, FirstPasses, Off, IsIn, Finite
<1>10. MarksOK'
  BY <1>1, <1>3, <1>4, <1>6 DEF CrossingInv, MarksOK, Handing, Marked, GO_GREEN
<1>11. QED
  BY <1>1, <1>3, <1>4, <1>6, <1>8, <1>9, <1>10 DEF CrossingInv, TIMEOUT

\* Stuttering keeps it.
LEMMA CrossingIdle ==
    ASSUME CrossingInv, UNCHANGED crossingVars
    PROVE  CrossingInv'
<1>1. /\ UNCHANGED << queue, fsm, flags, clock, pc, loop, visit, handling, light >>
  BY DEF crossingVars, vars, mainVars
<1>2. Held(CrosswalkGrp)' = Held(CrosswalkGrp) /\ Held(RoadGrp)' = Held(RoadGrp) /\ OneEvent'
  BY <1>1, SameQueues DEF CrossingInv, RoomForAll
<1>3. RoomForAll'
  BY <1>1, <1>2
  DEF CrossingInv, RoomForAll, Turn, Brings, CallsLeft, CurrentFsm, Off, IsIn, Finite, First
<1>4. HandlerKnown'
  BY <1>1
  DEF CrossingInv, HandlerKnown, EffectKnown, Runs, RunningHandler, CurrentFsm, Row, Finite, First
<1>5. RoadsInState' /\ OneIsOff'
  BY <1>1 DEF CrossingInv, RoadsInState, OneIsOff, Off, IsIn, Finite
<1>6. FirstPasses'
  BY <1>1, <1>2
  DEF CrossingInv, FirstPasses, First, CurrentFsm, Off, IsIn, Finite, Brings
<1>7. MarksOK'
  BY <1>1, <1>2
  DEF CrossingInv, MarksOK, Handing, CurrentFsm, Marked, NotClearing, Off, IsIn, Finite, Brings
<1>8. QED
  BY <1>3, <1>4, <1>5, <1>6, <1>7 DEF CrossingInv

\* A step of the loop, a calm press, or time that passes.
CalmNext == Application \/ CalmPress \/ TimePasses

\* What the orchestra allows, every calm step is.
LEMMA CalmStep == [CalmNext]_crossingVars => [Next]_vars
<1> SUFFICES ASSUME CalmNext \/ UNCHANGED crossingVars PROVE [Next]_vars
  BY DEF crossingVars
<1>1. Application => Next
  BY DEF Application, HandlerEnds, OtherStep, Next, MainLoop
<1>2. CalmPress => Next
  BY DEF CalmPress, ISR_ButtonPress, Next
<1>3. TimePasses => Next
  BY DEF TimePasses, Next
<1>4. UNCHANGED crossingVars => UNCHANGED vars
  BY DEF crossingVars
<1>5. QED
  BY <1>1, <1>2, <1>3, <1>4 DEF CalmNext

\* Every step of the application keeps the invariant.
LEMMA StepCrossingInv ==
    ASSUME IndInv, CrossingInv, [CalmNext]_crossingVars
    PROVE  CrossingInv'
<1>1. loop.group \in {CrosswalkGrp, RoadGrp}
  BY Layout DEF IndInv, LocalsOK, LoopRecord
<1>2. CASE HandlerEnds
  BY <1>1, <1>2, CrossingCrosswalkReturns, CrossingRoadReturns
<1>3. CASE OtherStep
  <2>1. UNCHANGED light
    BY <1>3 DEF OtherStep
  <2>2. CASE ProcessEvent
    BY <1>1, <2>1, <2>2, CrossingCrosswalkTurn, CrossingRoadTurn DEF ProcessEvent
  <2>3. QED
    BY <1>3, <2>1, <2>2, CrossingStartPass, CrossingDequeue, CrossingCallHandler,
       CrossingHandlerQueues, CrossingDecide, CrossingQueueTimeout, CrossingPrepareSleep,
       CrossingWakeUp DEF OtherStep
<1>4. CASE CalmPress
  BY <1>4, CrossingPress
<1>5. CASE TimePasses
  BY <1>5, CrossingTimePasses
<1>6. CASE UNCHANGED crossingVars
  BY <1>6, CrossingIdle
<1>7. QED
  BY <1>2, <1>3, <1>4, <1>5, <1>6 DEF CalmNext, Application

\* The application starts in it.
LEMMA InitCrossingInv == CrossingInit => IndInv /\ CrossingInv
<1> SUFFICES ASSUME CrossingInit PROVE IndInv /\ CrossingInv
  OBVIOUS
<1>1. /\ Init /\ pc = "timeout" /\ light = [r \in Road |-> FALSE] /\ IndInv
  BY InitIndInv DEF CrossingInit
<1>2. /\ queue = [g \in Groups |-> EmptyRing(QueueSize[g], TimeoutEvent)]
      /\ flags = {"INFINITE_SLEEP", "FIRST_ITERATION"} /\ clock = 0
      /\ \A f \in Fsm : /\ fsm[f].currentState = InitialStates[f]
                        /\ fsm[f].flags = {"INFINITE_SLEEP"}
                        /\ fsm[f].skipNextEventCode = NoSkip
  BY <1>1, IntersectionAssumption DEF Init
<1>3. \A g \in Groups : IsEmpty(queue[g])
  BY <1>2 DEF EmptyRing, IsEmpty
<1>4. Held(CrosswalkGrp) = {} /\ Held(RoadGrp) = {} /\ OneEvent
  BY <1>3, Layout DEF Held, OneEvent
<1>5. /\ IsIn(Road1, "GreenLightOn") /\ IsIn(Crosswalk, "Disabled")
      /\ Off(Road2) /\ IsIn(Road2, "GreenLightOff")
  BY <1>1, <1>2, Layout DEF InitialStates, Off, IsIn, Finite, Road1, Road2, Crosswalk
<1>6. RoomForAll /\ HandlerKnown
  BY <1>1, <1>4 DEF RoomForAll, HandlerKnown, Turn
<1>7. RoadsInState /\ OneIsOff
  BY <1>1, <1>5, Layout DEF RoadsInState, OneIsOff, IsIn
<1>8. FirstPasses
  BY <1>1, <1>2, <1>4, <1>5 DEF FirstPasses
<1>9. MarksOK
  <2>1. NoSkip # GO_GREEN /\ Road \subseteq Fsm /\ Crosswalk \in Fsm
    BY Codes, Layout DEF GO_GREEN
  <2>2. QED
    BY <1>1, <1>2, <1>4, <2>1 DEF MarksOK, Marked, Handing
<1>10. QED
  BY <1>1, <1>6, <1>7, <1>8, <1>9 DEF CrossingInv

\* The invariant holds throughout.
LEMMA CrossingInvHolds == CalmSpec => [](IndInv /\ CrossingInv)
<1>1. IndInv /\ CrossingInv /\ [CalmNext]_crossingVars => (IndInv /\ CrossingInv)'
  BY StepCrossingInv, StepIndInv, CalmStep
<1>2. QED
  BY <1>1, InitCrossingInv, PTL DEF CalmSpec, CalmNext

\* Whatever the lengths of the phases and however often the button is pressed
\* in a calm way, the two roads never have a green light at once: one of them
\* always has its light off, sleeps until the other hands it GO_GREEN, and no
\* road takes the GO_GREEN that it sends itself.
THEOREM LightsExclude == CalmSpec => []NeverTwoGreens
<1>1. CrossingInv => NeverTwoGreens
  BY DEF CrossingInv, OneIsOff, Off, NeverTwoGreens
<1>2. QED
  BY <1>1, CrossingInvHolds, PTL

-----------------------------------------------------------------------------
(* The button *)

\* A step outside the turns that changes no queue and no FSM.
LEMMA ButtonOutsideTurns ==
    ASSUME ButtonInv, UNCHANGED << queue, fsm, attached, clock >>,
           pc \notin {"fsm", "handler"}, pc' \notin {"fsm", "handler"},
           pc' = "asleep" /\ Traffic => Waiting
    PROVE  ButtonInv'
<1>1. Held(CrosswalkGrp)' = Held(CrosswalkGrp) /\ Held(RoadGrp)' = Held(RoadGrp)
  BY SameQueues
<1>2. QED
  BY <1>1
  DEF ButtonInv, Arming, Disabling, Calling, RoadCalled, Turn, Traffic, Waiting, IsIn,
      Due, Finite

\* The loop falls asleep with the queues empty and nobody due.
LEMMA ButtonPrepareSleep ==
    ASSUME CoverInv, CoverInv', CrossingInv, ButtonInv, RestsInTime,
           PrepareSleep, UNCHANGED attached
    PROVE  ButtonInv'
<1>1. pc = "presleep" /\ pc' = "asleep" /\ UNCHANGED << queue, fsm, clock >>
  BY DEF PrepareSleep
<1>2. Held(CrosswalkGrp) = {} /\ Held(RoadGrp) = {}
  BY <1>1, NothingHeld DEF CrossingInv, RoomForAll, CoverInv
<1>3. NobodyDue'
  BY <1>1, RestLeavesNobodyDue DEF RestsInTime
<1>4. \A r \in Road : ~Due(r)
  BY <1>1, <1>3, Layout DEF NobodyDue, Due, Finite
<1>5. Traffic => Waiting
  BY <1>1, <1>2, <1>4 DEF ButtonInv, Arming, Calling, Turn, Traffic
<1>6. QED
  BY <1>1, <1>5, ButtonOutsideTurns

\* A TIMEOUT queued by the loop is no word between roads and crosswalk.
LEMMA ButtonQueueTimeout ==
    ASSUME IndInv, CrossingInv, ButtonInv, QueueTimeout, UNCHANGED attached
    PROVE  ButtonInv'
<1>1. /\ pc = "timeout" /\ pc' \in {"timeout", "pass"} /\ UNCHANGED << fsm, clock >>
      /\ \/ Held(CrosswalkGrp) = {} /\ Held(CrosswalkGrp)' = {0} /\ Held(RoadGrp)' = Held(RoadGrp)
         \/ Held(RoadGrp) = {} /\ Held(RoadGrp)' = {0} /\ Held(CrosswalkGrp)' = Held(CrosswalkGrp)
  BY TimeoutHeld
<1>2. QED
  BY <1>1
  DEF ButtonInv, Arming, Disabling, Calling, RoadCalled, Turn, Traffic, Waiting, IsIn,
      Due, Finite, ARM_BUTTON, DISABLE_BUTTON, PEDESTRIAN_AWAITS

\* A press is for the crosswalk, and changes no state yet.
LEMMA ButtonPress ==
    ASSUME IndInv, CrossingInv, ButtonInv, CalmPress
    PROVE  ButtonInv'
<1>1. /\ pc = "asleep" /\ Held(CrosswalkGrp) = {} /\ Held(RoadGrp) = {}
      /\ Held(CrosswalkGrp)' = {BUTTON_PRESSED} /\ Held(RoadGrp)' = {}
      /\ UNCHANGED << fsm, light, attached, clock, pc, loop, visit, handling >>
  BY CrossingPress
<1>2. QED
  BY <1>1
  DEF ButtonInv, Arming, Disabling, Calling, RoadCalled, Turn, Traffic, Waiting, IsIn,
      Due, Finite, ARM_BUTTON, DISABLE_BUTTON, BUTTON_PRESSED

\* A heartbeat in sleep only queues TIMEOUTs.
LEMMA ButtonTimePasses ==
    ASSUME IndInv, CrossingInv, ButtonInv, TimePasses
    PROVE  ButtonInv'
<1>1. /\ pc = "asleep" /\ Held(CrosswalkGrp) = {} /\ Held(RoadGrp) = {}
      /\ Held(CrosswalkGrp)' \subseteq {TIMEOUT} /\ Held(RoadGrp)' \subseteq {TIMEOUT}
      /\ UNCHANGED << fsm, light, attached, pc, loop, visit, handling >>
  BY CrossingTimePasses
<1>2. QED
  BY <1>1
  DEF ButtonInv, Arming, Disabling, Calling, RoadCalled, Turn, Traffic, Waiting, IsIn,
      ARM_BUTTON, DISABLE_BUTTON, TIMEOUT

\* An event on its way stays on its way when its group takes it.
LEMMA ButtonDequeue ==
    ASSUME IndInv, CrossingInv, ButtonInv, DequeueEvent, UNCHANGED attached
    PROVE  ButtonInv'
<1>1. /\ pc = "dequeue" /\ pc' = "fsm" /\ UNCHANGED << fsm, clock, loop >>
  BY DEF DequeueEvent
<1>2. \/ /\ loop.group = CrosswalkGrp
         /\ Held(CrosswalkGrp)' = {} /\ Held(RoadGrp)' = Held(RoadGrp)
         /\ visit'.pending => Held(CrosswalkGrp) = {visit'.event.code}
         /\ Held(CrosswalkGrp) # {} => visit'.pending
      \/ /\ loop.group = RoadGrp
         /\ Held(RoadGrp)' = {} /\ Held(CrosswalkGrp)' = Held(CrosswalkGrp)
         /\ Held(RoadGrp) # {} => visit'.pending
         /\ visit'.pending => Held(RoadGrp) = {visit'.event.code}
         /\ visit'.fsmIndex = 1
  BY DequeueHeld
<1>3. QED
  BY <1>1, <1>2
  DEF ButtonInv, Arming, Disabling, Calling, RoadCalled, Turn, Traffic, Waiting, IsIn,
      Due, Finite, Brings, CrosswalkGrp, RoadGrp

\* The crosswalk's turn without a handler: nothing has come that it waits for.
LEMMA ButtonCrosswalkTurn ==
    ASSUME IndInv, CrossingInv, ButtonInv, pc = "fsm", loop.group = CrosswalkGrp,
           ProcessEvent, UNCHANGED attached
    PROVE  ButtonInv'
<1>1. /\ EndTurn(CurrentFsm, fsm[CurrentFsm])
      /\ Brings(ARM_BUTTON) => Waiting
      /\ Brings(DISABLE_BUTTON) => IsIn(Crosswalk, "Disabled")
  BY CrosswalkTurn, CrossingStates DEF Waiting
<1>2. CurrentFsm = Crosswalk /\ fsm[CurrentFsm] \in FsmRecord /\ LocalsOK
  BY CurrentFsmType, Layout DEF IndInv, LocalsOK, CurrentFsm
<1>3. TurnTo(fsm[CurrentFsm]) /\ fsm \in [Fsm -> FsmRecord]
  BY <1>1, <1>2, TurnEnds DEF LocalsOK
<1>4. fsm' = fsm /\ pc' = "dequeue" /\ UNCHANGED << queue, clock >>
  BY <1>3 DEF TurnTo, ProcessEvent
<1>5. Held(CrosswalkGrp)' = Held(CrosswalkGrp) /\ Held(RoadGrp)' = Held(RoadGrp)
  BY <1>4, SameQueues
<1>6. Held(CrosswalkGrp) = {}
  BY DEF CrossingInv, RoomForAll, Turn
<1>7. QED
  BY <1>1, <1>4, <1>5, <1>6
  DEF ButtonInv, Arming, Disabling, Calling, RoadCalled, Turn, Traffic, Waiting, IsIn,
      Due, Finite, CrosswalkGrp, RoadGrp

\* The crosswalk does what it was told, or tells the roads of a pedestrian.
LEMMA ButtonCrosswalkReturns ==
    ASSUME IndInv, CrossingInv, ButtonInv, loop.group = CrosswalkGrp, HandlerEnds
    PROVE  ButtonInv'
<1>1. pc = "handler" /\ UNCHANGED << queue, clock >> /\ ~CallsLeft
  BY DEF HandlerEnds, HandlerReturns, CallsLeft
<1>2. /\ CurrentFsm = Crosswalk
      /\ \E newFsm \in FsmRecord :
            /\ EndTurn(CurrentFsm, newFsm)
            /\ \/ /\ Brings(ARM_BUTTON)
                  /\ newFsm.currentState = "WaitForButtonPress" /\ attached'
               \/ /\ Brings(DISABLE_BUTTON) /\ newFsm.currentState = "Disabled"
               \/ /\ Brings(BUTTON_PRESSED) /\ newFsm.currentState = "Disabled"
  BY CrosswalkReturns DEF CrossingInv
<1>3. PICK newFsm \in FsmRecord :
            /\ EndTurn(CurrentFsm, newFsm)
            /\ \/ /\ Brings(ARM_BUTTON)
                  /\ newFsm.currentState = "WaitForButtonPress" /\ attached'
               \/ /\ Brings(DISABLE_BUTTON) /\ newFsm.currentState = "Disabled"
               \/ /\ Brings(BUTTON_PRESSED) /\ newFsm.currentState = "Disabled"
  BY <1>2
<1>4. TurnTo(newFsm) /\ fsm \in [Fsm -> FsmRecord]
  BY <1>1, <1>3, TurnEnds DEF IndInv, LocalsOK
<1>5. /\ pc' = "dequeue" /\ fsm'[Crosswalk] = newFsm
      /\ \A r \in Road : fsm'[r] = fsm[r]
  BY <1>2, <1>4, Layout DEF TurnTo
<1>6. Held(CrosswalkGrp)' = Held(CrosswalkGrp) /\ Held(RoadGrp)' = Held(RoadGrp)
  BY <1>1, SameQueues
<1>7. Held(CrosswalkGrp) = {} /\ Turn(CrosswalkGrp) /\ ~Turn(RoadGrp)
  BY <1>1 DEF CrossingInv, RoomForAll, Turn, CrosswalkGrp, RoadGrp
<1>8. /\ ~Arming' /\ (Traffic' <=> Traffic)
      /\ Disabling' <=> FALSE
      /\ Waiting' <=> newFsm.currentState = "WaitForButtonPress"
  BY <1>5, <1>6, <1>7 DEF Arming, Disabling, Turn, Traffic, Waiting, IsIn
<1>9. CASE Brings(ARM_BUTTON) /\ newFsm.currentState = "WaitForButtonPress" /\ attached'
  <2>1. Traffic
    BY <1>7, <1>9 DEF ButtonInv, Arming, RoadCalled, Turn
  <2>2. QED
    BY <1>5, <1>8, <1>9, <2>1 DEF ButtonInv, RoadCalled
<1>10. CASE Brings(DISABLE_BUTTON) /\ newFsm.currentState = "Disabled"
  <2>1. ~Traffic
    BY <1>1, <1>7, <1>10 DEF ButtonInv, Disabling, RoadCalled, Turn
  <2>2. QED
    BY <1>5, <1>8, <1>10, <2>1 DEF ButtonInv, RoadCalled, Traffic
<1>11. CASE Brings(BUTTON_PRESSED) /\ newFsm.currentState = "Disabled"
  <2>1. PEDESTRIAN_AWAITS \in Held(RoadGrp)'
    BY <1>1, <1>6, <1>11 DEF ButtonInv
  <2>2. QED
    BY <1>5, <1>8, <1>11, <2>1 DEF ButtonInv, RoadCalled, Calling
<1>12. QED
  BY <1>3, <1>9, <1>10, <1>11

\* A road, or a crosswalk whose button was pressed, starts its handler with its
\* queueing call still to make.
LEMMA StartsWithCall ==
    ASSUME IndInv, CrossingInv, CallHandler
    PROVE  loop.group = RoadGrp \/ Brings(BUTTON_PRESSED) => CallsLeft'
<1> DEFINE t == Row(CurrentFsm)[visit.event.code]
<1>1. /\ pc' = "handler" /\ visit.pending /\ UNCHANGED << fsm, loop, visit >>
      /\ \E effect \in HandlerEffects[t.eventHandler] :
            handling' = [newState |-> t.newState, now |-> clock, effect |-> effect]
  BY IntersectionAssumption DEF CallHandler
<1>2. PICK effect \in HandlerEffects[t.eventHandler] : handling'.effect = effect
  BY <1>1
<1>3. HandlerKnown' /\ RunningHandler' = t.eventHandler
  BY <1>1, HandlerStarts, CrossingStates DEF RunningHandler, CurrentFsm, Row
<1> HIDE DEF t
<1>4. loop.group = RoadGrp =>
         t.eventHandler \in {"OnRoadGreen", "OnRoadClearIntersection", "OnRoadRed"}
  BY <1>1, <1>3 DEF HandlerKnown, Runs
<1>5. loop.group = CrosswalkGrp /\ Brings(BUTTON_PRESSED) =>
         t.eventHandler = "OnCrosswalkButtonPressed"
  BY <1>1, <1>3
  DEF HandlerKnown, Runs, Brings, BUTTON_PRESSED, DISABLE_BUTTON, ARM_BUTTON
<1>6. ASSUME NEW call, NEW infinite, NEW delay,
             effect \in Asks(<< call >>, infinite, delay)
      PROVE  effect.calls # << >>
  BY <1>6 DEF Asks
<1>7. t.eventHandler \in {"OnRoadGreen", "OnRoadClearIntersection", "OnRoadRed",
                          "OnCrosswalkButtonPressed"} => effect.calls # << >>
  <2>1. /\ HandlerEffects["OnRoadGreen"] = OnRoadGreen
        /\ HandlerEffects["OnRoadRed"] = OnRoadRed
        /\ HandlerEffects["OnRoadClearIntersection"] = OnRoadClearIntersection
        /\ HandlerEffects["OnCrosswalkButtonPressed"] = OnCrosswalkButtonPressed
    BY DEF HandlerEffects
  <2>2. ASSUME effect \in OnRoadGreen \cup OnRoadRed \cup OnRoadClearIntersection
                        \cup OnCrosswalkButtonPressed
        PROVE  effect.calls # << >>
    BY <1>6, <2>2 DEF OnRoadGreen, OnRoadClearIntersection, OnRoadRed,
       OnCrosswalkButtonPressed
  <2>3. QED
    BY <1>2, <2>1, <2>2
<1>8. loop.group \in {CrosswalkGrp, RoadGrp}
  BY Layout DEF IndInv, LocalsOK, LoopRecord
<1>9. QED
  BY <1>1, <1>2, <1>4, <1>5, <1>7, <1>8 DEF CallsLeft

\* A handler that starts has told nobody yet.
LEMMA ButtonCallHandler ==
    ASSUME IndInv, CrossingInv, ButtonInv, CallHandler, UNCHANGED attached
    PROVE  ButtonInv'
<1>1. /\ pc = "fsm" /\ pc' = "handler"
      /\ UNCHANGED << queue, fsm, flags, loop, visit, clock >>
  BY DEF CallHandler
<1>2. loop.group = RoadGrp => visit.event.code = TIMEOUT
  BY <1>1, HandlerStarts, CrossingStates DEF HandlerKnown
<1>3. Held(CrosswalkGrp)' = Held(CrosswalkGrp) /\ Held(RoadGrp)' = Held(RoadGrp)
  BY <1>1, SameQueues
<1>4. loop.group = RoadGrp \/ Brings(BUTTON_PRESSED) => CallsLeft'
  BY StartsWithCall
<1>5. Brings(BUTTON_PRESSED)' = Brings(BUTTON_PRESSED) /\ UNCHANGED loop
  BY <1>1 DEF Brings
<1>6. ~RoadCalled("GreenLightOn")' /\ ~RoadCalled("ClearIntersection")'
      /\ ~RoadCalled("GreenLightOn") /\ ~RoadCalled("ClearIntersection")
  BY <1>1, <1>4, <1>5 DEF RoadCalled
<1>7. /\ Arming' <=> Arming
      /\ Disabling' <=> Disabling
      /\ Traffic' <=> Traffic
      /\ Waiting' <=> Waiting
  BY <1>1, <1>3 DEF Arming, Disabling, Traffic, Waiting, Turn, Brings, IsIn
<1>8. \A r \in Road : Calling(r) => PEDESTRIAN_AWAITS \in Held(RoadGrp)
  BY <1>1, <1>2 DEF Calling, Brings, TIMEOUT, PEDESTRIAN_AWAITS
<1>9. QED
  BY <1>1, <1>3, <1>4, <1>5, <1>6, <1>7, <1>8 DEF ButtonInv, Calling, Due, Finite, IsIn

\* The roads without a handler: one that hears of a pedestrian is due.
LEMMA ButtonRoadTurn ==
    ASSUME IndInv, CrossingInv, ButtonInv, pc = "fsm", loop.group = RoadGrp,
           ProcessEvent, UNCHANGED attached
    PROVE  ButtonInv'
<1> DEFINE r == CurrentFsm
<1>1. PICK new \in FsmRecord : EndTurn(r, new) /\ RoadLeft(r, new)
  BY RoadTurn, CrossingStates
<1>2. UNCHANGED << queue, flags, clock >> /\ clock \in Nat
  BY BoundAssumption DEF ProcessEvent, IndInv
<1>3. TurnTo(new)
  BY <1>1, TurnEnds DEF IndInv
<1>4. /\ fsm'[r] = new /\ fsm'[Crosswalk] = fsm[Crosswalk]
      /\ \/ /\ r = Road1 /\ visit.fsmIndex = 1 /\ fsm'[Road2] = fsm[Road2]
            /\ pc' = "fsm" /\ loop'.group = RoadGrp /\ visit'.fsmIndex = 2
            /\ visit'.pending = visit.pending /\ visit'.event = visit.event
         \/ /\ r = Road2 /\ visit.fsmIndex = 2 /\ fsm'[Road1] = fsm[Road1]
            /\ pc' = "decide"
  BY <1>3, RoadTurns
<1>5. Held(CrosswalkGrp)' = Held(CrosswalkGrp) /\ Held(RoadGrp)' = Held(RoadGrp)
  BY <1>2, SameQueues
<1> HIDE DEF r
<1>6. /\ ~RoadCalled("GreenLightOn")' /\ ~RoadCalled("ClearIntersection")'
      /\ ~RoadCalled("GreenLightOn") /\ ~RoadCalled("ClearIntersection")
  BY <1>4 DEF RoadCalled
<1>7. /\ Arming' <=> Arming
      /\ Disabling' <=> Disabling
      /\ Waiting' <=> Waiting
  BY <1>4, <1>5 DEF Arming, Disabling, Waiting, Turn, IsIn, CrosswalkGrp, RoadGrp
<1>8. IsIn(r, "ClearIntersection") <=> new.currentState = "ClearIntersection"
  BY <1>1 DEF RoadLeft, IsIn
<1>9. Traffic' <=> Traffic
  BY <1>4, <1>8, Layout DEF Traffic, IsIn
<1>10. ASSUME NEW q \in Road, IsIn(q, "ClearIntersection")', Calling(q)
       PROVE  Calling(q)' \/ Due(q)'
  <2>1. CASE PEDESTRIAN_AWAITS \in Held(RoadGrp)
    BY <1>5, <2>1 DEF Calling
  <2>2. CASE Brings(PEDESTRIAN_AWAITS) /\ (visit.fsmIndex = 1 \/ q = Road2)
    <3>1. CASE q = r
      <4>1. IsIn(r, "ClearIntersection")
        BY <1>4, <1>8, <1>10, <3>1 DEF IsIn
      <4>2. new.flags = {} /\ new.wakeup = clock
        BY <1>1, <2>2, <4>1
        DEF RoadLeft, Brings, PEDESTRIAN_AWAITS, GO_GREEN
      <4>3. QED
        BY <1>2, <1>4, <3>1, <4>2 DEF Due, Finite
    <3>2. CASE q # r
      BY <1>4, <2>2, <3>2, Layout DEF Calling, Brings
    <3>3. QED
      BY <3>1, <3>2
  <2>3. QED
    BY <1>10, <2>1, <2>2 DEF Calling
<1>11. ASSUME NEW q \in Road, IsIn(q, "ClearIntersection")', Due(q)
       PROVE  Due(q)'
  <2>1. CASE q = r
    BY <1>1, <1>2, <1>4, <1>11, <2>1 DEF RoadLeft, Due, Finite
  <2>2. CASE q # r
    BY <1>2, <1>4, <1>11, <2>2, Layout DEF Due, Finite
  <2>3. QED
    BY <2>1, <2>2
<1>12. \A q \in Road : IsIn(q, "ClearIntersection")' => IsIn(q, "ClearIntersection")
  BY <1>4, <1>8, Layout DEF IsIn
<1>13. ASSUME NEW q \in Road, IsIn(q, "ClearIntersection")'
       PROVE  Arming' \/ Waiting' \/ Calling(q)' \/ Due(q)'
  BY <1>7, <1>10, <1>11, <1>12, <1>13 DEF ButtonInv
<1>14. QED
  BY <1>4, <1>6, <1>7, <1>9, <1>13 DEF ButtonInv, Calling, IsIn, Due, Finite

\* The roads and the crosswalk tell each other.
LEMMA ButtonHandlerQueues ==
    ASSUME IndInv, CrossingInv, ButtonInv, HandlerQueues, UNCHANGED attached
    PROVE  ButtonInv'
<1> DEFINE r == CurrentFsm
           arm == EventOf(ARM_BUTTON)
           disable == EventOf(DISABLE_BUTTON)
           green == EventOf(GO_GREEN)
           pedestrian == EventOf(PEDESTRIAN_AWAITS)
<1>1. /\ pc = "handler" /\ pc' = "handler" /\ handling'.effect.calls = << >>
      /\ handling.effect.calls # << >> /\ r \in Fsm
      /\ UNCHANGED << loop, visit, clock >> /\ r' = r
  BY HandlerCalls DEF CrossingInv, CurrentFsm
<1>2. /\ OneEvent /\ CallsLeft /\ ~CallsLeft'
      /\ ~RoadCalled("GreenLightOn") /\ ~RoadCalled("ClearIntersection")
  BY <1>1 DEF CrossingInv, RoomForAll, CallsLeft, RoadCalled
<1>3. /\ loop.group \in {CrosswalkGrp, RoadGrp} /\ fsm \in [Fsm -> FsmRecord]
      /\ loop.group = RoadGrp =>
            \/ r = Road1 /\ visit.fsmIndex = 1
            \/ r = Road2 /\ visit.fsmIndex = 2
      /\ loop.group = CrosswalkGrp => r = Crosswalk
  BY WhoseTurn
<1>4. /\ arm \in Event /\ arm.code = 3 /\ disable \in Event /\ disable.code = 2
      /\ green \in Event /\ green.code = 2 /\ pedestrian \in Event /\ pedestrian.code = 1
  BY Codes DEF EventOf, ARM_BUTTON, DISABLE_BUTTON, GO_GREEN, PEDESTRIAN_AWAITS
<1>5. ASSUME loop.group = RoadGrp, ~IsIn(r, "GreenLightOff")
      PROVE  /\ Held(CrosswalkGrp) = {} /\ Held(RoadGrp) = {}
             /\ ~Arming /\ ~Disabling
  <2>1. visit.fsmIndex = 2 => ~Off(Road2)
    BY <1>3, <1>5, Layout DEF Off
  <2>2. Held(CrosswalkGrp) = {} /\ Held(RoadGrp) = {}
    BY <1>1, <1>2, <1>3, <1>5, <2>1 DEF CrossingInv, RoomForAll, Turn
  <2>3. QED
    BY <1>5, <2>2 DEF Arming, Disabling, Turn, CrosswalkGrp, RoadGrp
<1> HIDE DEF arm, disable, green, pedestrian
<1>6. ASSUME loop.group = RoadGrp, IsIn(r, "GreenLightOn"), UNCHANGED fsm,
             QueueGroupEvent(CrosswalkGrp, FALSE, arm)
      PROVE  ButtonInv'
  <2>1. Held(CrosswalkGrp)' = {3} /\ Held(RoadGrp)' = Held(RoadGrp)
    BY <1>2, <1>4, <1>5, <1>6, CrosswalkHears DEF IsIn
  <2>2. ~Traffic
    BY <1>3, <1>6, Layout DEF CrossingInv, OneIsOff, Off, IsIn, Traffic
  <2>3. ~Waiting
    BY <1>5, <1>6, <2>2 DEF ButtonInv, IsIn
  <2>4. RoadCalled("GreenLightOn")' /\ ~RoadCalled("ClearIntersection")'
    BY <1>1, <1>2, <1>6 DEF RoadCalled, IsIn
  <2>5. ~Traffic' /\ ~Waiting' /\ ~Disabling' /\ ARM_BUTTON \in Held(CrosswalkGrp)'
    BY <1>1, <1>6, <2>1, <2>2, <2>3
    DEF Traffic, Waiting, IsIn, Disabling, Turn, ARM_BUTTON, DISABLE_BUTTON,
        CrosswalkGrp, RoadGrp
  <2>6. QED
    BY <1>1, <1>6, <2>4, <2>5 DEF ButtonInv, Traffic, CrosswalkGrp, RoadGrp
<1>7. ASSUME loop.group = RoadGrp, IsIn(r, "ClearIntersection"), UNCHANGED fsm,
             QueueGroupEvent(CrosswalkGrp, FALSE, disable)
      PROVE  ButtonInv'
  <2>1. Held(CrosswalkGrp)' = {2} /\ Held(RoadGrp)' = Held(RoadGrp)
    BY <1>2, <1>4, <1>5, <1>7, CrosswalkHears DEF IsIn
  <2>2. RoadCalled("ClearIntersection")' /\ ~RoadCalled("GreenLightOn")'
    BY <1>1, <1>2, <1>7 DEF RoadCalled, IsIn
  <2>3. /\ ~Arming' /\ Disabling' /\ DISABLE_BUTTON \in Held(CrosswalkGrp)'
        /\ Waiting' <=> Waiting
    BY <1>1, <1>7, <2>1
    DEF Arming, Disabling, Waiting, IsIn, Turn, ARM_BUTTON, DISABLE_BUTTON,
        CrosswalkGrp, RoadGrp
  <2>4. ASSUME NEW q \in Road, IsIn(q, "ClearIntersection")'
        PROVE  Waiting' \/ Calling(q)' \/ Due(q)'
    BY <1>1, <1>5, <1>7, <2>1, <2>3, <2>4
    DEF ButtonInv, Calling, Due, Finite, IsIn
  <2>5. QED
    BY <1>1, <1>7, <2>2, <2>3, <2>4
    DEF ButtonInv, Calling, Due, Finite, IsIn, CrosswalkGrp, RoadGrp
<1>8. ASSUME loop.group = RoadGrp, IsIn(r, "GreenLightOff"),
             QueueGroupEvent(RoadGrp, FALSE, green),
             fsm' = [fsm EXCEPT ![r].skipNextEventCode = GO_GREEN]
      PROVE  ButtonInv'
  <2>1. Held(RoadGrp) = {}
    <3>1. First \/ Finite(r)
      BY <1>1, <1>8 DEF CrossingInv, HandlerKnown
    <3>2. visit.fsmIndex = 2 => ~Off(Road2) \/ First
      BY <1>3, <1>8, <3>1, Layout DEF Off
    <3>3. QED
      BY <1>1, <1>2, <1>3, <1>8, <3>2 DEF CrossingInv, RoomForAll, Turn
  <2>2. Held(CrosswalkGrp)' = Held(CrosswalkGrp) /\ Held(RoadGrp)' = {2}
    BY <1>2, <1>4, <1>8, <2>1, RoadsHear
  <2>3. \A h \in Fsm : /\ fsm'[h].flags = fsm[h].flags
                       /\ fsm'[h].wakeup = fsm[h].wakeup
                       /\ fsm'[h].currentState = fsm[h].currentState
    BY <1>1, <1>3, <1>8, MarkFields
  <2>4. Road \subseteq Fsm /\ Crosswalk \in Fsm
    BY Layout
  <2>5. ~RoadCalled("GreenLightOn")' /\ ~RoadCalled("ClearIntersection")'
    BY <1>1, <1>8, <2>3 DEF RoadCalled, IsIn
  <2>6. /\ Arming' <=> Arming
        /\ Disabling' <=> Disabling
        /\ Traffic' <=> Traffic
        /\ Waiting' <=> Waiting
    BY <1>1, <2>2, <2>3, <2>4 DEF Arming, Disabling, Traffic, Waiting, Turn, Brings, IsIn
  <2>7. \A q \in Road : /\ IsIn(q, "ClearIntersection")' => IsIn(q, "ClearIntersection")
                        /\ Due(q) => Due(q)'
                        /\ ~Calling(q)
    BY <1>1, <2>1, <2>3, <2>4 DEF IsIn, Due, Finite, Calling
  <2>8. QED
    BY <1>1, <1>2, <1>8, <2>5, <2>6, <2>7
    DEF ButtonInv, Calling, Due, Finite, IsIn, CrosswalkGrp, RoadGrp
<1>9. ASSUME loop.group = CrosswalkGrp, Brings(BUTTON_PRESSED), UNCHANGED fsm,
             QueueGroupEvent(RoadGrp, FALSE, pedestrian)
      PROVE  ButtonInv'
  <2>1. Held(CrosswalkGrp) = {} /\ Held(RoadGrp) = {}
    BY <1>1, <1>2, <1>9 DEF CrossingInv, RoomForAll, Turn
  <2>2. Held(CrosswalkGrp)' = {} /\ Held(RoadGrp)' = {1}
    BY <1>2, <1>4, <1>9, <2>1, RoadsHear
  <2>3. ~RoadCalled("GreenLightOn")' /\ ~RoadCalled("ClearIntersection")'
    BY <1>1, <1>9 DEF RoadCalled, CrosswalkGrp, RoadGrp
  <2>4. /\ Arming' <=> Arming
        /\ Disabling' <=> Disabling
        /\ Traffic' <=> Traffic
        /\ Waiting' <=> Waiting
    BY <1>1, <1>9, <2>1, <2>2
    DEF Arming, Disabling, Traffic, Waiting, Turn, Brings, IsIn
  <2>5. PEDESTRIAN_AWAITS \in Held(RoadGrp)'
    BY <2>2 DEF PEDESTRIAN_AWAITS
  <2>6. QED
    BY <1>1, <1>2, <1>9, <2>3, <2>4, <2>5 DEF ButtonInv, Calling, IsIn
<1>10. QED
  BY <1>6, <1>7, <1>8, <1>9, HandlerCalls
  DEF CrossingInv, arm, disable, green, pedestrian

\* A road enters the traffic mode when it has told the crosswalk to arm the
\* button, and leaves it when it has told it to disable it.
LEMMA ButtonRoadReturns ==
    ASSUME IndInv, CrossingInv, ButtonInv, loop.group = RoadGrp, HandlerEnds
    PROVE  ButtonInv'
<1> DEFINE r == CurrentFsm
<1>1. pc = "handler" /\ UNCHANGED << queue, clock >> /\ ~CallsLeft
  BY DEF HandlerEnds, HandlerReturns, CallsLeft
<1>2. /\ attached' = attached
      /\ \E newFsm \in FsmRecord : EndTurn(r, newFsm) /\ RoadDone(r, newFsm)
  BY RoadReturns DEF CrossingInv, RoadsInState
<1>3. PICK new \in FsmRecord : EndTurn(r, new) /\ RoadDone(r, new)
  BY <1>2
<1>4. TurnTo(new)
  BY <1>1, <1>3, TurnEnds DEF IndInv
<1>5. /\ fsm'[r] = new /\ fsm'[Crosswalk] = fsm[Crosswalk]
      /\ \/ /\ r = Road1 /\ fsm'[Road2] = fsm[Road2]
            /\ pc' = "fsm" /\ loop'.group = RoadGrp
            /\ visit'.pending = visit.pending /\ visit'.event = visit.event
         \/ /\ r = Road2 /\ fsm'[Road1] = fsm[Road1]
            /\ pc' = "decide"
  BY <1>4, RoadTurns
<1>6. PICK o \in Road : r \in Road /\ o # r /\ Road = {r, o} /\ fsm'[o] = fsm[o]
  BY <1>5, Layout
<1>7. visit.event.code = 0 /\ OneIsOff
  BY <1>1 DEF CrossingInv, HandlerKnown, TIMEOUT
<1>8. Held(CrosswalkGrp)' = Held(CrosswalkGrp) /\ Held(RoadGrp)' = Held(RoadGrp)
  BY <1>1, SameQueues
<1> HIDE DEF r
<1>9. ~RoadCalled("GreenLightOn")' /\ ~RoadCalled("ClearIntersection")'
  BY <1>5 DEF RoadCalled
<1>10. /\ Arming <=> ARM_BUTTON \in Held(CrosswalkGrp)
       /\ Arming' <=> ARM_BUTTON \in Held(CrosswalkGrp)
       /\ Disabling <=> DISABLE_BUTTON \in Held(CrosswalkGrp)
       /\ Disabling' <=> DISABLE_BUTTON \in Held(CrosswalkGrp)
       /\ Waiting' <=> Waiting
       /\ \A q \in Road : Calling(q) <=> PEDESTRIAN_AWAITS \in Held(RoadGrp)
       /\ \A s : RoadCalled(s) <=> IsIn(r, s)
  BY <1>1, <1>5, <1>7, <1>8
  DEF Arming, Disabling, Waiting, Calling, RoadCalled, Turn, Brings, IsIn, r,
      CrosswalkGrp, RoadGrp, PEDESTRIAN_AWAITS
<1>11. ~(ARM_BUTTON \in Held(CrosswalkGrp) /\ DISABLE_BUTTON \in Held(CrosswalkGrp))
  BY DEF Held, ARM_BUTTON, DISABLE_BUTTON
<1>12. CASE /\ IsIn(r, "GreenLightOn") /\ new.currentState = "ClearIntersection"
  <2>1. ARM_BUTTON \in Held(CrosswalkGrp)
    BY <1>10, <1>12 DEF ButtonInv
  <2>2. Traffic' /\ ~Waiting /\ ~Disabling'
    BY <1>5, <1>6, <1>10, <1>11, <1>12, <2>1 DEF ButtonInv, Traffic, IsIn
  <2>3. QED
    BY <1>2, <1>5, <1>9, <1>10, <2>1, <2>2 DEF ButtonInv
<1>13. CASE /\ IsIn(r, "ClearIntersection") /\ new.currentState = "GreenLightOff"
  <2>1. DISABLE_BUTTON \in Held(CrosswalkGrp)
    BY <1>10, <1>13 DEF ButtonInv
  <2>2. ~Traffic' /\ ~Arming'
    BY <1>5, <1>6, <1>7, <1>10, <1>11, <1>13, <2>1 DEF OneIsOff, Off, Traffic, IsIn
  <2>3. QED
    BY <1>2, <1>5, <1>9, <1>10, <2>1, <2>2 DEF ButtonInv, Traffic
<1>14. CASE /\ IsIn(r, "GreenLightOff") /\ new.currentState = "GreenLightOff"
  <2>1. Traffic' <=> Traffic
    BY <1>5, <1>6, <1>14 DEF Traffic, IsIn
  <2>2. ~RoadCalled("GreenLightOn") /\ ~RoadCalled("ClearIntersection")
    BY <1>10, <1>14 DEF IsIn
  <2>3. ASSUME NEW q \in Road, IsIn(q, "ClearIntersection")'
        PROVE  Arming' \/ Waiting' \/ PEDESTRIAN_AWAITS \in Held(RoadGrp)' \/ Due(q)'
    <3>1. q = o
      BY <1>5, <1>6, <1>14, <2>3 DEF IsIn
    <3>2. IsIn(q, "ClearIntersection") /\ (Due(q) => Due(q)')
      BY <1>1, <1>6, <2>3, <3>1 DEF IsIn, Due, Finite
    <3>3. QED
      BY <1>8, <1>10, <3>2 DEF ButtonInv
  <2>4. QED
    BY <1>2, <1>5, <1>9, <1>10, <2>1, <2>2, <2>3 DEF ButtonInv, Calling, IsIn, Due, Finite
<1>15. QED
  BY <1>3, <1>12, <1>13, <1>14 DEF RoadDone

\* Stuttering keeps the invariant of the button.
LEMMA ButtonIdle ==
    ASSUME ButtonInv, UNCHANGED crossingVars
    PROVE  ButtonInv'
<1>1. UNCHANGED << queue, fsm, clock, pc, loop, visit, handling, attached >>
  BY DEF crossingVars, vars, mainVars
<1>2. Held(CrosswalkGrp)' = Held(CrosswalkGrp) /\ Held(RoadGrp)' = Held(RoadGrp)
  BY <1>1, SameQueues
<1>3. QED
  BY <1>1, <1>2
  DEF ButtonInv, Arming, Disabling, Calling, RoadCalled, CallsLeft, CurrentFsm, Turn,
      Traffic, Waiting, IsIn, Due, Finite, Brings

\* Every step of the application keeps it.
LEMMA StepButtonInv ==
    ASSUME CoverInv, CoverInv', CrossingInv, ButtonInv, RestsInTime,
           [CalmNext]_crossingVars
    PROVE  ButtonInv'
<1>1. IndInv /\ loop.group \in {CrosswalkGrp, RoadGrp}
  BY Layout DEF CoverInv, IndInv, LocalsOK, LoopRecord
<1>2. CASE HandlerEnds
  BY <1>1, <1>2, ButtonCrosswalkReturns, ButtonRoadReturns
<1>3. CASE OtherStep
  <2>1. UNCHANGED attached
    BY <1>3 DEF OtherStep
  <2>2. CASE ProcessEvent
    BY <1>1, <2>1, <2>2, ButtonCrosswalkTurn, ButtonRoadTurn DEF ProcessEvent
  <2>3. CASE StartPass
    BY <2>1, <2>3, ButtonOutsideTurns DEF StartPass
  <2>4. CASE Decide
    <3>1. /\ pc = "decide" /\ pc' \in {"pass", "timeout", "presleep"}
          /\ UNCHANGED << queue, fsm, clock >>
      BY <2>4 DEF Decide
    <3>2. QED
      BY <2>1, <3>1, ButtonOutsideTurns
  <2>5. CASE WakeUp
    BY <2>1, <2>5, ButtonOutsideTurns DEF WakeUp
  <2>6. QED
    BY <1>1, <1>3, <2>1, <2>2, <2>3, <2>4, <2>5, ButtonDequeue, ButtonCallHandler,
       ButtonHandlerQueues, ButtonQueueTimeout, ButtonPrepareSleep DEF OtherStep
<1>4. CASE CalmPress
  BY <1>1, <1>4, ButtonPress
<1>5. CASE TimePasses
  BY <1>1, <1>5, ButtonTimePasses
<1>6. CASE UNCHANGED crossingVars
  BY <1>6, ButtonIdle
<1>7. QED
  BY <1>2, <1>3, <1>4, <1>5, <1>6 DEF CalmNext, Application

\* Nothing happens between the decision to rest and the sleep: no press is calm
\* then, and time passes in sleep only.
LEMMA StepRestsInTime ==
    ASSUME NoWrap, CoverInv, RestsInTime, [CalmNext]_crossingVars
    PROVE  RestsInTime'
<1> SUFFICES ASSUME pc' = "presleep" PROVE NotDueYet'
  BY DEF RestsInTime
<1>1. CASE Decide
  BY <1>1, DecidesToRest
<1>2. CASE Application /\ ~Decide
  <2>1. CASE HandlerEnds \/ ProcessEvent
    <3>1. /\ pc \in {"fsm", "handler"} /\ LocalsOK
          /\ \E newFsm \in FsmRecord : EndTurn(CurrentFsm, newFsm)
      BY <2>1, ProcessEventTurn, HandlerReturnsTurn
      DEF CoverInv, HandlerEnds, IndInv
    <3>2. PICK newFsm \in FsmRecord : EndTurn(CurrentFsm, newFsm)
      BY <3>1
    <3>3. pc' \in {"fsm", "dequeue", "decide"}
      BY <3>2 DEF EndTurn
    <3>4. QED
      BY <3>3
  <2>2. CASE OtherStep /\ ~ProcessEvent
    BY <1>2, <2>2
    DEF OtherStep, Application, StartPass, DequeueEvent, CallHandler, HandlerQueues,
        QueueTimeout, PrepareSleep, WakeUp
  <2>3. QED
    BY <1>2, <2>1, <2>2 DEF Application
<1>3. CASE CalmPress
  BY <1>3 DEF CalmPress, Asleep, ISR_ButtonPress, Interrupt
<1>4. CASE TimePasses
  BY <1>4 DEF TimePasses, Asleep, Heartbeat
<1>5. CASE UNCHANGED crossingVars
  BY <1>5 DEF crossingVars, vars, mainVars, RestsInTime, NotDueYet
<1>6. QED
  BY <1>1, <1>2, <1>3, <1>4, <1>5 DEF CalmNext

\* The application starts in it: no road in traffic mode, nobody waiting.
LEMMA InitButtonInv == CrossingInit => CoverInv /\ ButtonInv /\ RestsInTime
<1> SUFFICES ASSUME CrossingInit PROVE CoverInv /\ ButtonInv /\ RestsInTime
  OBVIOUS
<1>1. /\ Init /\ pc = "timeout" /\ CoverInv
  BY InitCoverInv DEF CrossingInit
<1>2. /\ queue = [g \in Groups |-> EmptyRing(QueueSize[g], TimeoutEvent)]
      /\ \A f \in Fsm : fsm[f].currentState = InitialStates[f]
  BY <1>1, IntersectionAssumption DEF Init
<1>3. \A g \in Groups : IsEmpty(queue[g])
  BY <1>2 DEF EmptyRing, IsEmpty
<1>4. Held(CrosswalkGrp) = {} /\ Held(RoadGrp) = {}
  BY <1>3, Layout DEF Held
<1>5. ~Waiting /\ ~Traffic
  BY <1>2, Layout DEF Waiting, Traffic, IsIn, InitialStates, Crosswalk, Road1, Road2
<1>6. ButtonInv
  BY <1>1, <1>4, <1>5
  DEF ButtonInv, Arming, Disabling, Calling, RoadCalled, Turn, Traffic
<1>7. QED
  BY <1>1, <1>6 DEF RestsInTime

\* The invariants of wakeup times, lights and button hold throughout.
LEMMA ButtonInvHolds ==
    ASSUME NoWrap
    PROVE  CalmSpec => [](CrossingInv /\ ButtonInv)
<1> DEFINE Inv == CoverInv /\ CrossingInv /\ ButtonInv /\ RestsInTime
<1>1. CrossingInit => Inv
  BY InitCrossingInv, InitButtonInv
<1>2. Inv /\ [CalmNext]_crossingVars => Inv'
  <2> SUFFICES ASSUME Inv, [CalmNext]_crossingVars PROVE Inv'
    OBVIOUS
  <2>1. [Next]_vars
    BY CalmStep
  <2>2. CoverInv'
    BY <2>1, StepIndInv, StepAgrees, StepNoneWraps, StepCovers DEF CoverInv
  <2>3. QED
    BY <2>2, StepCrossingInv, StepButtonInv, StepRestsInTime DEF CoverInv
<1>3. Inv => CrossingInv /\ ButtonInv
  OBVIOUS
<1> HIDE DEF Inv
<1>4. QED
  BY <1>1, <1>2, <1>3, PTL DEF CalmSpec, CalmNext

\* Until the time register wraps, the button agrees with the lights whenever
\* the loop sleeps: in traffic mode the crosswalk waits and its interrupt is
\* attached, so a press that was taken has ended the traffic mode; while a road
\* clears, the crosswalk does not listen.
THEOREM ButtonAgrees ==
    ASSUME NoWrap
    PROVE  CalmSpec => []ButtonFollowsLights
<1>1. ASSUME CrossingInv, ButtonInv, Asleep, NEW r \in Road
      PROVE  /\ InTraffic(r) =>
                   attached /\ fsm["CrosswalkFsm"].currentState = "WaitForButtonPress"
             /\ Clearing(r) => fsm["CrosswalkFsm"].currentState = "Disabled"
  <2>1. InTraffic(r) => attached /\ Waiting
    BY <1>1 DEF InTraffic, Asleep, ButtonInv, Traffic, IsIn
  <2>2. ASSUME Clearing(r) PROVE IsIn(Crosswalk, "Disabled")
    <3>1. ~Traffic
      BY <1>1, <2>2, Layout DEF Clearing, CrossingInv, OneIsOff, Off, Traffic, IsIn
    <3>2. ~Disabling
      BY <1>1
      DEF Asleep, CrossingInv, RoomForAll, Disabling, Turn,
          DISABLE_BUTTON, BUTTON_PRESSED, TIMEOUT
    <3>3. QED
      BY <1>1, <3>1, <3>2 DEF CrossingInv, RoadsInState, ButtonInv, Waiting
  <2>3. QED
    BY <2>1, <2>2 DEF Waiting, IsIn, Crosswalk
<1>2. CrossingInv /\ ButtonInv => ButtonFollowsLights
  BY <1>1 DEF ButtonFollowsLights
<1>3. QED
  BY <1>2, ButtonInvHolds, PTL
=============================================================================
