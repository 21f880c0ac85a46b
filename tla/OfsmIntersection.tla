-------------------------- MODULE OfsmIntersection --------------------------
(***************************************************************************)
(* The application examples/ofsmIntersection on the orchestra: two roads   *)
(* of one group that hand the green light to each other, and a crosswalk   *)
(* whose button interrupt is attached and detached as the lights change.   *)
(*                                                                         *)
(* The constants of Ofsm are those of this application (see                *)
(* IntersectionAssumption), but for the width of the time register, the    *)
(* layout of the queues in memory and the bounds, which stay free.         *)
(***************************************************************************)
EXTENDS Ofsm

CONSTANTS GREEN_LIGHT_TIMEOUT, CLEAR_INTERSECTION_TIMEOUT    \* in ticks

\* enum FsmGrpId; groups count from 1 here.
CrosswalkGrp == 1
RoadGrp == 2
ThisGroup == 0   \* fsm_queue_group_event..., the OwnGroup of Ofsm

PEDESTRIAN_AWAITS == 1
GO_GREEN == 2
BUTTON_PRESSED == 1
DISABLE_BUTTON == 2
ARM_BUTTON == 3

Road == {"RoadFsm1", "RoadFsm2"}
Members == << << "CrosswalkFsm" >>, << "RoadFsm1", "RoadFsm2" >> >>
InitialStates == [RoadFsm1 |-> "GreenLightOn", RoadFsm2 |-> "GreenLightOff",
                  CrosswalkFsm |-> "Disabled"]

Goes(h, s) == [eventHandler |-> h, newState |-> s]
NoHandler == Goes("none", "GreenLightOn")   \* {0, 0}; its state is not read

\* The columns of a row, one per event code from 0 on.
Columns(row) == [e \in 0 .. Len(row) - 1 |-> row[e + 1]]

\* TIMEOUT, PEDESTRIAN_AWAITS, GO_GREEN.
RoadRows(pedestrian) ==
    [GreenLightOn      |-> Columns(<< Goes("OnRoadGreen", "ClearIntersection"),
                                      NoHandler, NoHandler >>),
     ClearIntersection |-> Columns(<< Goes("OnRoadClearIntersection", "GreenLightOff"),
                                      pedestrian, NoHandler >>),
     GreenLightOff     |-> Columns(<< Goes("OnRoadRed", "GreenLightOff"),
                                      NoHandler, Goes("NOP", "GreenLightOn") >>)]

\* Plausible fault: a road in traffic mode does not listen to pedestrians.
roadTransitionTable_deaf == RoadRows(NoHandler)
roadTransitionTable == RoadRows(Goes("NOP", "ClearIntersection"))

\* TIMEOUT, BUTTON_PRESSED, DISABLE_BUTTON, ARM_BUTTON.
crosswalkTransitionTable ==
    [WaitForButtonPress |-> Columns(<< NoHandler, Goes("OnCrosswalkButtonPressed", "Disabled"),
                                       Goes("OnCrosswalkDisableButton", "Disabled"), NoHandler >>),
     Disabled           |-> Columns(<< NoHandler, NoHandler, NoHandler,
                                       Goes("OnCrosswalkArmButton", "WaitForButtonPress") >>)]

States == DOMAIN roadTransitionTable \cup DOMAIN crosswalkTransitionTable

\* Ofsm wants a row for every state; an FSM stays among its own.
Rows(table) ==
    [s \in States |-> IF s \in DOMAIN table THEN table[s]
                      ELSE [e \in {0} |-> NoHandler]]

Queues(g, code, exclude) ==
    [group |-> g, force |-> FALSE, exclude |-> exclude,
     event |-> [code |-> code, data |-> 0]]

\* What a handler asks of the library; a delay is one of a deep sleep.
Asks(calls, infinite, delay) ==
    {[prevent |-> FALSE, infinite |-> infinite, deep |-> delay # 0,
      setDelay |-> delay # 0, delay |-> delay, calls |-> calls]}

OnRoadGreen ==
    Asks(<< Queues(CrosswalkGrp, ARM_BUTTON, FALSE) >>, FALSE, GREEN_LIGHT_TIMEOUT)

\* Plausible fault: the road waits for an event to end the clearing.
OnRoadClearIntersection_waits ==
    Asks(<< Queues(CrosswalkGrp, DISABLE_BUTTON, FALSE) >>, TRUE, 0)

OnRoadClearIntersection ==
    Asks(<< Queues(CrosswalkGrp, DISABLE_BUTTON, FALSE) >>, FALSE,
         CLEAR_INTERSECTION_TIMEOUT)

\* Plausible fault: the road that has cleared hears its own GO_GREEN.
OnRoadRed_both == Asks(<< Queues(ThisGroup, GO_GREEN, FALSE) >>, TRUE, 0)
OnRoadRed == Asks(<< Queues(ThisGroup, GO_GREEN, TRUE) >>, TRUE, 0)

OnCrosswalkButtonPressed ==
    Asks(<< Queues(RoadGrp, PEDESTRIAN_AWAITS, FALSE) >>, FALSE, 0)

HandlerEffects ==
    [OnRoadGreen |-> OnRoadGreen, OnRoadRed |-> OnRoadRed,
     OnRoadClearIntersection |-> OnRoadClearIntersection,
     OnCrosswalkButtonPressed |-> OnCrosswalkButtonPressed,
     OnCrosswalkArmButton |-> Asks(<< >>, FALSE, 0),
     OnCrosswalkDisableButton |-> Asks(<< >>, FALSE, 0)]

Tables ==
    [f \in Road \cup {"CrosswalkFsm"} |->
        IF f \in Road THEN Rows(roadTransitionTable) ELSE Rows(crosswalkTransitionTable)]

ASSUME IntersectionAssumption ==
    /\ Fsm = Road \cup {"CrosswalkFsm"} /\ GroupFsms = Members
    /\ QueueSize = << 2, 2 >>
    /\ State = States /\ InitialState = InitialStates
    /\ Table = Tables /\ Effects = HandlerEffects
    /\ EventCode = 0 .. ARM_BUTTON /\ EventData = {0} /\ NoData = 0
    /\ NoSkip = 255 /\ NullHandler = "none" /\ NopHandler = "NOP"
    /\ DefaultDelay = 0
    /\ InterruptEvents = {Queues(CrosswalkGrp, BUTTON_PRESSED, FALSE)}
ASSUME TimeoutsAssumption ==
    /\ GREEN_LIGHT_TIMEOUT \in 1 .. MaxTime
    /\ CLEAR_INTERSECTION_TIMEOUT \in 1 .. MaxTime

VARIABLES
    light,      \* per road: the pin of its green light is HIGH
    attached    \* ISR_ButtonPress is attached to the button's pin

crossingVars == << vars, light, attached >>

\* loop() queues a global TIMEOUT before it starts the orchestra.
CrossingInit ==
    /\ Init /\ pc = "timeout"
    /\ light = [r \in Road |-> FALSE]
    /\ attached = FALSE

\* The handler that is running.
RunningHandler == Row(CurrentFsm)[visit.event.code].eventHandler

\* What a handler does to the pins, after its calls of the library.
HandlerEnds ==
    /\ HandlerReturns
    /\ light' = IF RunningHandler \in {"OnRoadGreen", "OnRoadRed"}
                THEN [light EXCEPT ![CurrentFsm] = (RunningHandler = "OnRoadGreen")]
                ELSE light
    /\ attached' = IF RunningHandler \in {"OnCrosswalkArmButton", "OnCrosswalkDisableButton"}
                   THEN RunningHandler = "OnCrosswalkArmButton" ELSE attached

OtherStep ==
    /\ \/ StartPass \/ DequeueEvent \/ ProcessEvent \/ CallHandler \/ HandlerQueues
       \/ Decide \/ QueueTimeout \/ PrepareSleep \/ WakeUp
    /\ UNCHANGED << light, attached >>

ISR_ButtonPress ==
    /\ attached
    /\ Interrupt
    /\ UNCHANGED << light, attached >>

\* The default provider advances time while the loop sleeps; the sleep ends as
\* soon as there is an event.
TimePasses ==
    /\ Asleep /\ "EVENT_QUEUED" \notin flags
    /\ \E ticks \in 0 .. MaxTick : Heartbeat(ticks)
    /\ UNCHANGED << light, attached >>

Application == HandlerEnds \/ OtherStep

CrossingNext == Application \/ ISR_ButtonPress \/ TimePasses

CrossingSpec == CrossingInit /\ [][CrossingNext]_crossingVars

\* A button that does not bounce: presses are so rare that they find the loop
\* asleep, with nothing left to do.
CalmPress ==
    /\ Asleep /\ "EVENT_QUEUED" \notin flags
    /\ ISR_ButtonPress

CalmSpec ==
    /\ CrossingInit
    /\ [][Application \/ CalmPress \/ TimePasses]_crossingVars
    /\ WF_crossingVars(Application)
    /\ WF_crossingVars(TimePasses)

-----------------------------------------------------------------------------

InTraffic(r) == light[r] /\ fsm[r].currentState = "ClearIntersection"
Clearing(r) == light[r] /\ fsm[r].currentState = "GreenLightOff"
Other(r) == CHOOSE s \in Road : s # r

\* ofsmIntersection.ino:5: "Only one green signal light can be turned on at any
\* point of time".  The two roads know of each other only by GO_GREEN, which
\* passes through a queue of two slots that TIMEOUTs and pedestrians use too.
NeverTwoGreens == \E r \in Road : ~light[r]

\* The roads take turns (:4): a light that comes on while there is time left
\* for its phase is followed by the light of the other road.
LightsAlternate ==
    \A r \in Road :
        (light[r] /\ clock + GREEN_LIGHT_TIMEOUT + 2 * CLEAR_INTERSECTION_TIMEOUT <= Horizon)
            ~> light[Other(r)]

\* Button and lights agree whenever the loop sleeps, though they belong to
\* different groups and reach each other through two queues: in traffic mode
\* the interrupt is attached and the crosswalk waits for it - so a press that
\* was taken has sent the road into clearing before the loop sleeps again (:7);
\* while the road clears, the crosswalk does not listen (:8).
ButtonFollowsLights ==
    Asleep => \A r \in Road :
        /\ InTraffic(r) => attached /\ fsm["CrosswalkFsm"].currentState = "WaitForButtonPress"
        /\ Clearing(r) => fsm["CrosswalkFsm"].currentState = "Disabled"
=============================================================================
