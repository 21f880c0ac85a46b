----------------------------- MODULE OfsmScript -----------------------------
(***************************************************************************)
(* The simulation in script mode: one thread that runs the application up  *)
(* to its first sleep and then obeys the commands of a script.  The main   *)
(* loop does not sleep but returns; a command calls it again, to make one  *)
(* step through the orchestra.                                             *)
(*                                                                         *)
(* Modelled: OFSM_CONFIG_SIMULATION_SCRIPT_MODE_WAKEUP_TYPE 1, 2 and 3.    *)
(* The commands print, delay and status change nothing; a command that     *)
(* queues a global event is one that queues it for each group.             *)
(***************************************************************************)
EXTENDS Ofsm

CONSTANT WakeupType     \* OFSM_CONFIG_SIMULATION_SCRIPT_MODE_WAKEUP_TYPE

ASSUME WakeupAssumption == WakeupType \in 1 .. 3

\* Where the thread is: a call of _ofsm_start is about to come, it is before
\* its first pass, in it, reading the script, or has ended.
VARIABLE at

scriptVars == << vars, at >>

\* setup() and loop(): the first call.
ScriptInit == Init /\ at = "start"

-----------------------------------------------------------------------------
(* A step through the orchestra *)

Call_ofsm_start ==
    /\ at = "called"
    /\ at' = "start"
    /\ pc' = "pass"
    /\ UNCHANGED << queue, fsm, flags, wakeupTime, clock, loop, visit, handling, interrupts >>

\* The condition of the do-while loop, which a continue evaluates too.
Repeats == "EVENT_QUEUED" \in flags

FirstPass == at = "start" /\ StartPass /\ at' = "step"
NextPass == at = "step" /\ Repeats /\ StartPass /\ UNCHANGED at

InPass ==
    /\ \/ DequeueEvent \/ ProcessEvent \/ CallHandler \/ HandlerQueues
       \/ HandlerReturns \/ Decide \/ QueueTimeout
    /\ UNCHANGED at

\* The end of the loop's body.  Nobody has queued anything since Decide looked:
\* the loop ends here with the break of type 3 and without it.
StepReturns ==
    /\ PrepareSleep
    /\ at' = IF WakeupType > 2 \/ ~Repeats THEN "script" ELSE "step"

Step == Call_ofsm_start \/ FirstPass \/ NextPass \/ InPass \/ StepReturns

-----------------------------------------------------------------------------
(* Commands *)

QueueCommand ==
    /\ at = "script"
    /\ Interrupt
    /\ UNCHANGED at

WakeupCommand ==
    /\ at = "script"
    /\ at' = "called"
    /\ UNCHANGED vars

\* What _ofsm_check_timeout has found.
TimedOut ==
    /\ flags' \cap {"IN_PROCESS", "INFINITE_SLEEP"} = {}
    /\ _OFSM_TIME_A_GTE_B(
           Register(clock'), "TIMER_OVERFLOW" \in flags',
           wakeupTime, "SCHEDULED_TIME_OVERFLOW" \in flags')

\* Plausible fault: the loop is called only for a TIMEOUT that found the flag
\* down.
HeartbeatCalls_once == WakeupType = 1 /\ TimedOut /\ "EVENT_QUEUED" \notin flags

\* In type 1 a timeout calls the loop, once for all groups.
HeartbeatCalls == WakeupType = 1 /\ TimedOut

\* (A script that sets the time back makes the library see a wrap; not here.)
HeartbeatCommand ==
    /\ at = "script"
    /\ \E ticks \in 0 .. MaxTick : Heartbeat(ticks)
    /\ at' = IF HeartbeatCalls THEN "called" ELSE "script"

Emptied(q) ==
    [q EXCEPT !.currentEventIndex = 0, !.nextEventIndex = 0, !.overflow = FALSE]

\* Back to the initial state, but for what the slots of the queues hold.
ResetCommand ==
    /\ at = "script"
    /\ queue' = [g \in Groups |-> Emptied(queue[g])]
    /\ fsm' = [f \in Fsm |-> [flags |-> {"INFINITE_SLEEP"}, wakeup |-> 0,
                              currentState |-> InitialState[f],
                              skipNextEventCode |-> NoSkip]]
    /\ flags' = {"INFINITE_SLEEP", "FIRST_ITERATION"}
    /\ wakeupTime' = 0
    /\ clock' = 0
    /\ pc' \in {"pass", "timeout"}
    /\ interrupts' = 0
    /\ at' = "start"
    /\ UNCHANGED << loop, visit, handling >>

\* exit, or the end of the script.
ExitCommand == at = "script" /\ at' = "ended" /\ UNCHANGED vars
Ended == at = "ended" /\ UNCHANGED scriptVars

Command ==
    \/ QueueCommand \/ WakeupCommand \/ HeartbeatCommand \/ ResetCommand
    \/ ExitCommand \/ Ended

\* The generator reads a line and obeys it.  What the line says is chosen by the
\* commands; how it is cut into tokens is left out.
ScriptNext == Step \/ Command

ScriptSpec == ScriptInit /\ [][ScriptNext]_scriptVars

\* A step runs; no command has to come.
ScriptFairSpec == ScriptSpec /\ WF_scriptVars(Step)

-----------------------------------------------------------------------------

ScriptTypeOK == TypeOK /\ at \in {"called", "start", "step", "script", "ended"}

\* When a step returns there is nothing left for another one: no event pends
\* in whatever group, also of those that handlers queued into groups whose turn
\* was over, and no FSM is due.  (Of types 2 and 3 alike: the break that should
\* end a step of type 3 after one event is passed by with a continue.)
StepLeavesNothing ==
    [][ at = "step" /\ at' = "script" =>
            /\ \A g \in Groups : IsEmpty(queue'[g])
            /\ \A f \in Fsm : ~Due(f)' ]_scriptVars

\* Every step returns: the loop is not called back to the same event or the
\* same wakeup time for ever.
StepsReturn == at \in {"called", "start", "step"} ~> at = "script"

\* In type 1 the script never sees an FSM that is due: the heartbeat that made
\* it so has served it, whatever was queued before and not waked up for.
TimeoutsServed == WakeupType = 1 /\ at = "script" => \A f \in Fsm : ~Due(f)
=============================================================================
