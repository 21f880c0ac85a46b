-------------------------- MODULE OfsmScript_proofs --------------------------
(***************************************************************************)
(* The orchestra stepped by a script: type correctness, and, as long as    *)
(* the time register does not wrap, what a step and a heartbeat leave      *)
(* behind.  The invariants are those of Ofsm; what is new is that the loop *)
(* is called again without an event, that a reset takes time back, and     *)
(* that nobody queues behind the loop's back during a step.                *)
(***************************************************************************)
EXTENDS OfsmScript, OfsmWakeup_proofs

\* The script is read, and the loop called, only while the loop is at rest.
Where ==
    /\ at \in {"called", "start", "step", "script", "ended"}
    /\ at \in {"called", "script", "ended"} => pc = "asleep"

-----------------------------------------------------------------------------
(* Steps and commands *)

\* All but the call of the loop and the reset are steps of the orchestra.
LEMMA ScriptStepIsOfsm ==
    ASSUME [ScriptNext]_scriptVars
    PROVE  \/ [Next]_vars
           \/ Call_ofsm_start
           \/ ResetCommand
<1>1. CASE Step
  BY <1>1 DEF Step, FirstPass, NextPass, InPass, StepReturns, Next, MainLoop
<1>2. CASE Command
  BY <1>2 DEF Command, QueueCommand, WakeupCommand, HeartbeatCommand, ExitCommand,
     Ended, Next, scriptVars
<1>3. CASE UNCHANGED scriptVars
  BY <1>3 DEF scriptVars
<1>4. QED
  BY <1>1, <1>2, <1>3 DEF ScriptNext

\* The thread stays where the loop is.
LEMMA StepWhere == Where /\ [ScriptNext]_scriptVars => Where'
<1> SUFFICES ASSUME Where, [ScriptNext]_scriptVars PROVE Where'
  OBVIOUS
<1>1. CASE Call_ofsm_start \/ FirstPass \/ NextPass
  BY <1>1 DEF Call_ofsm_start, FirstPass, NextPass, Where
<1>2. CASE InPass
  <2>1. pc # "asleep" /\ UNCHANGED at
    BY <1>2 DEF InPass, DequeueEvent, ProcessEvent, CallHandler, HandlerQueues,
       HandlerReturns, Decide, QueueTimeout
  <2>2. QED
    BY <2>1 DEF Where
<1>3. CASE StepReturns
  BY <1>3 DEF StepReturns, PrepareSleep, Where
<1>4. CASE QueueCommand
  BY <1>4 DEF QueueCommand, Interrupt, Where
<1>5. CASE HeartbeatCommand
  <2>1. UNCHANGED pc /\ at' \in {"called", "script"} /\ at = "script"
    BY <1>5 DEF HeartbeatCommand, Heartbeat
  <2>2. QED
    BY <2>1 DEF Where
<1>6. CASE ResetCommand
  BY <1>6 DEF ResetCommand, Where
<1>7. CASE WakeupCommand \/ ExitCommand \/ Ended \/ UNCHANGED scriptVars
  BY <1>7 DEF WakeupCommand, ExitCommand, Ended, scriptVars, vars, mainVars, Where
<1>8. QED
  BY <1>1, <1>2, <1>3, <1>4, <1>5, <1>6, <1>7 DEF ScriptNext, Step, Command

\* A ring that is reset is empty, whatever its slots hold.
LEMMA EmptiedRing ==
    ASSUME NEW size \in Nat \ {0}, NEW E, NEW q \in Ring(size, E)
    PROVE  Emptied(q) \in Ring(size, E) /\ IsEmpty(Emptied(q))
<1>1. /\ q.eventQueue \in [0 .. size - 1 -> E] /\ q.eventQueueSize = size
      /\ 0 \in 0 .. size - 1
  BY RingFields
<1>2. q \in RingType(size, E)
  BY DEF Ring
<1>3. Emptied(q) \in RingType(size, E)
  BY <1>1, <1>2 DEF Emptied, RingType
<1>4. /\ Emptied(q).currentEventIndex = 0 /\ Emptied(q).nextEventIndex = 0
      /\ Emptied(q).overflow = FALSE
  BY <1>2 DEF Emptied, RingType
<1>5. QED
  BY <1>3, <1>4 DEF Ring, RingConsistent, IsEmpty

\* The loop, called again, has everything it left.
LEMMA CallKeeps ==
    ASSUME IndInv, pc = "asleep", Call_ofsm_start
    PROVE  IndInv'
BY DEF IndInv, QueuesOK, LocalsOK, PendingIsSignalled, Unvisited, Call_ofsm_start

\* The reset leaves empty queues and FSMs as declared.
LEMMA ResetKeeps ==
    ASSUME IndInv, pc = "asleep", ResetCommand
    PROVE  IndInv'
<1>1. \A g \in Groups : queue'[g] \in Ring(QueueSize[g], Event) /\ IsEmpty(queue'[g])
  BY EmptiedRing, GroupsAssumption DEF IndInv, QueuesOK, ResetCommand
<1>2. QueuesOK' /\ PendingIsSignalled'
  BY <1>1 DEF QueuesOK, PendingIsSignalled, ResetCommand
<1>3. fsm' \in [Fsm -> FsmRecord]
  BY FsmAssumption DEF ResetCommand, FsmRecord, CommonFlags
<1>4. /\ pc' \in {"pass", "timeout"} /\ UNCHANGED << loop, visit, handling >>
      /\ flags' = {"INFINITE_SLEEP", "FIRST_ITERATION"} /\ wakeupTime' = 0
      /\ clock' = 0 /\ interrupts' = 0
  BY DEF ResetCommand
<1>5. LocalsOK'
  BY <1>3, <1>4 DEF IndInv, LocalsOK
<1>6. flags' \subseteq OfsmFlags /\ wakeupTime' \in 0 .. MaxTime
      /\ clock' \in 0 .. Horizon /\ interrupts' \in 0 .. MaxInterrupts
  BY <1>4, MaxTimeType, BoundAssumption DEF OfsmFlags, CommonFlags
<1>7. QED
  BY <1>2, <1>4, <1>5, <1>6 DEF IndInv

\* Every step of a script keeps the invariant of the orchestra.
LEMMA ScriptIndInv == IndInv /\ Where /\ [ScriptNext]_scriptVars => IndInv' /\ Where'
<1> SUFFICES ASSUME IndInv, Where, [ScriptNext]_scriptVars PROVE IndInv'
  BY StepWhere
<1>1. CASE [Next]_vars
  BY <1>1, StepIndInv
<1>2. CASE Call_ofsm_start \/ ResetCommand
  <2>1. pc = "asleep"
    BY <1>2 DEF Call_ofsm_start, ResetCommand, Where
  <2>2. QED
    BY <1>2, <2>1, CallKeeps, ResetKeeps
<1>3. QED
  BY <1>1, <1>2, ScriptStepIsOfsm

\* The first call finds the orchestra as declared.
LEMMA ScriptInitInv == ScriptInit => IndInv /\ Where
BY InitIndInv DEF ScriptInit, Where

\* Type correctness through steps, commands and resets, for every orchestra.
THEOREM ScriptTypeCorrect == ScriptSpec => []ScriptTypeOK
<1>1. IndInv => TypeOK
  BY DEF IndInv, QueuesOK, Ring, LocalsOK, LoopRecord, VisitRecord, FsmRecord, TypeOK
<1>2. IndInv /\ Where => ScriptTypeOK
  BY <1>1 DEF Where, ScriptTypeOK
<1>3. QED
  BY <1>2, ScriptInitInv, ScriptIndInv, PTL DEF ScriptSpec

-----------------------------------------------------------------------------
(* What a step leaves behind *)

\* The loop that has decided to rest has nothing to do, and nobody can give it
\* anything before it has returned.
Quiet ==
    pc = "presleep" =>
        /\ "EVENT_QUEUED" \notin flags
        /\ NotDueYet

StepInv == CoverInv /\ NotBeyond /\ BusyFlagDown /\ Where /\ Quiet

\* No command comes between the decision and the return.
LEMMA StepQuiet ==
    ASSUME NoWrap, StepInv, [ScriptNext]_scriptVars
    PROVE  Quiet'
<1>1. CASE InPass
  <2>1. CASE Decide
    BY <2>1, DecidesToRest DEF StepInv, Quiet
  <2>2. CASE ProcessEvent \/ HandlerReturns
    <3>1. pc' # "presleep"
      BY <2>2, ProcessEventTurn, HandlerReturnsTurn DEF StepInv, CoverInv, EndTurn
    <3>2. QED
      BY <3>1 DEF Quiet
  <2>3. CASE DequeueEvent \/ CallHandler \/ HandlerQueues \/ QueueTimeout
    BY <2>3 DEF DequeueEvent, CallHandler, HandlerQueues, QueueTimeout, Quiet
  <2>4. QED
    BY <1>1, <2>1, <2>2, <2>3 DEF InPass
<1>2. CASE Call_ofsm_start \/ FirstPass \/ NextPass \/ StepReturns
  BY <1>2 DEF Call_ofsm_start, FirstPass, NextPass, StepReturns, StartPass,
     PrepareSleep, Quiet
<1>3. CASE Command
  <2>1. CASE ResetCommand
    BY <2>1 DEF ResetCommand, Quiet
  <2>2. CASE ~ResetCommand
    <3>1. pc = "asleep" /\ UNCHANGED pc
      BY <1>3, <2>2 DEF Command, QueueCommand, WakeupCommand, HeartbeatCommand,
         ExitCommand, Ended, Interrupt, Heartbeat, scriptVars, vars, mainVars,
         StepInv, Where
    <3>2. QED
      BY <3>1 DEF Quiet
  <2>3. QED
    BY <2>1, <2>2
<1>4. CASE UNCHANGED scriptVars
  BY <1>4 DEF scriptVars, vars, mainVars, StepInv, Quiet, NotDueYet
<1>5. QED
  BY <1>1, <1>2, <1>3, <1>4 DEF ScriptNext, Step

\* The invariants of the orchestra hold in a script too.
LEMMA ScriptCover ==
    ASSUME NoWrap, StepInv, [ScriptNext]_scriptVars
    PROVE  CoverInv' /\ NotBeyond' /\ BusyFlagDown'
<1>1. CASE [Next]_vars
  <2>1. IndInv' /\ FlagsAgree' /\ NoneWraps' /\ Covers'
    BY <1>1, StepIndInv, StepAgrees, StepNoneWraps, StepCovers DEF StepInv, CoverInv
  <2>2. QED
    BY <1>1, <2>1, StepNotBeyond, StepBusyFlagDown DEF StepInv, CoverInv
<1>2. CASE Call_ofsm_start \/ ResetCommand
  <2>1. pc = "asleep" /\ pc' \in {"pass", "timeout"} /\ UNCHANGED << visit, handling >>
    BY <1>2 DEF Call_ofsm_start, ResetCommand, StepInv, Where
  <2>2. IndInv'
    BY <1>2, <2>1, CallKeeps, ResetKeeps DEF StepInv, CoverInv
  <2>3. fsm' \in [Fsm -> Unwrapped]
    <3>1. CASE Call_ofsm_start
      BY <3>1 DEF Call_ofsm_start, StepInv, CoverInv, NoneWraps
    <3>2. CASE ResetCommand
      <4>1. \A f \in Fsm : /\ fsm'[f].wakeup = 0
                           /\ fsm'[f].flags = {"INFINITE_SLEEP"}
        BY <3>2 DEF ResetCommand
      <4>2. QED
        BY <2>2, <4>1, MaxTimeType DEF IndInv, LocalsOK, Unwrapped
    <3>3. QED
      BY <1>2, <3>1, <3>2
  <2>4. NoneWraps'
    BY <2>1, <2>3 DEF StepInv, CoverInv, NoneWraps
  <2>5. FlagsAgree' /\ Covers'
    BY <2>1 DEF StepInv, CoverInv, FlagsAgree, Covers, Seen, DeepSleepIsUnanimous,
       WakeupCoversAll, Asleep
  <2>6. NotBeyond' /\ BusyFlagDown'
    BY <2>1 DEF NotBeyond, BusyFlagDown
  <2>7. QED
    BY <2>2, <2>4, <2>5, <2>6 DEF CoverInv
<1>3. QED
  BY <1>1, <1>2, ScriptStepIsOfsm

\* The invariant holds throughout.
LEMMA StepInvHolds ==
    ASSUME NoWrap
    PROVE  ScriptSpec => []StepInv
<1>1. ScriptInit => StepInv
  BY InitCoverInv DEF ScriptInit, Init, StepInv, NotBeyond, BusyFlagDown, Where, Quiet
<1>2. StepInv /\ [ScriptNext]_scriptVars => StepInv'
  <2> SUFFICES ASSUME StepInv, [ScriptNext]_scriptVars PROVE StepInv'
    OBVIOUS
  <2>1. Where'
    BY StepWhere DEF StepInv
  <2>2. QED
    BY <2>1, StepQuiet, ScriptCover DEF StepInv
<1>3. QED
  BY <1>1, <1>2, PTL DEF ScriptSpec

\* A loop that returns has emptied every queue and served every FSM.
LEMMA ReturnLeavesNothing ==
    ASSUME StepInv, CoverInv', PrepareSleep
    PROVE  /\ \A g \in Groups : IsEmpty(queue'[g])
           /\ NobodyDue'
<1>1. pc = "presleep" /\ pc' = "asleep" /\ UNCHANGED queue
  BY DEF PrepareSleep
<1>2. \A g \in Groups : IsEmpty(queue'[g])
  BY <1>1 DEF StepInv, Quiet, CoverInv, IndInv, PendingIsSignalled, Unvisited
<1>3. NobodyDue'
  BY <1>1, RestLeavesNobodyDue DEF StepInv, Quiet
<1>4. QED
  BY <1>2, <1>3

\* Until the time register wraps, a step of a script returns only when no
\* group has an event and no FSM is due, for every orchestra, every wakeup type
\* and whatever was queued before the step or by the handlers in it.
THEOREM StepsLeaveNothing ==
    ASSUME NoWrap
    PROVE  ScriptSpec => StepLeavesNothing
<1>1. ASSUME StepInv, StepInv', [ScriptNext]_scriptVars, at = "step", at' = "script"
      PROVE  /\ \A g \in Groups : IsEmpty(queue'[g])
             /\ \A f \in Fsm : ~Due(f)'
  <2>1. PrepareSleep
    BY <1>1 DEF ScriptNext, Step, Command, Call_ofsm_start, FirstPass, NextPass, InPass,
       StepReturns, QueueCommand, WakeupCommand, HeartbeatCommand, ResetCommand,
       ExitCommand, Ended, scriptVars
  <2>2. QED
    BY <1>1, <2>1, ReturnLeavesNothing DEF StepInv, NobodyDue
<1>2. QED
  BY <1>1, StepInvHolds, PTL DEF ScriptSpec, StepLeavesNothing

-----------------------------------------------------------------------------
(* What a heartbeat leaves behind *)

\* A heartbeat that does not call the loop has made nobody due.
LEMMA QuietHeartbeat ==
    ASSUME NoWrap, StepInv', HeartbeatCommand, pc = "asleep", ~TimedOut
    PROVE  NobodyDue'
<1> SUFFICES ASSUME NEW f \in Fsm, Due(f)' PROVE FALSE
  BY DEF NobodyDue
<1>1. UNCHANGED << pc, wakeupTime >>
  BY DEF HeartbeatCommand, Heartbeat
<1>2. /\ "INFINITE_SLEEP" \notin flags' /\ wakeupTime' <= fsm'[f].wakeup
      /\ fsm'[f].wakeup <= clock'
  BY <1>1 DEF StepInv, CoverInv, Covers, WakeupCoversAll, Asleep, Due, Finite
<1>3. "IN_PROCESS" \notin flags' /\ "SCHEDULED_TIME_OVERFLOW" \notin flags'
  BY <1>1 DEF StepInv, BusyFlagDown, NotBeyond
<1>4. /\ clock' \in Nat /\ wakeupTime' \in Nat /\ fsm'[f].wakeup \in Nat
      /\ Register(clock') = clock'
  <2>1. clock' \in Nat /\ clock' <= MaxTime
    BY BoundAssumption, MaxTimeType DEF StepInv, CoverInv, IndInv, NoWrap
  <2>2. wakeupTime' \in Nat /\ fsm'[f].wakeup \in Nat
    BY MaxTimeType DEF StepInv, CoverInv, IndInv, LocalsOK, FsmRecord
  <2>3. QED
    BY <2>1, <2>2, RegisterKeeps
<1>5. TimedOut
  BY <1>1, <1>2, <1>3, <1>4 DEF TimedOut, _OFSM_TIME_A_GTE_B
<1>6. QED
  BY <1>5

\* Until the time register wraps, a script of type 1 never sees an FSM that is
\* due: the heartbeat that makes it so calls the loop before the next command,
\* also when an event that nobody waked up for keeps EVENT_QUEUED up.
THEOREM TimeoutsAlwaysServed ==
    ASSUME NoWrap
    PROVE  ScriptSpec => []TimeoutsServed
<1>1. TimeoutsServed <=> (WakeupType = 1 /\ at = "script" => NobodyDue)
  BY DEF TimeoutsServed, NobodyDue
<1>2. ScriptInit => TimeoutsServed
  BY DEF ScriptInit, TimeoutsServed
<1>3. ASSUME StepInv, StepInv', TimeoutsServed, [ScriptNext]_scriptVars
      PROVE  TimeoutsServed'
  <2> SUFFICES ASSUME WakeupType = 1, at' = "script"
               PROVE  \A f \in Fsm : ~Due(f)'
    BY DEF TimeoutsServed
  <2>1. CASE StepReturns
    BY <1>3, <2>1, ReturnLeavesNothing DEF StepReturns, StepInv, NobodyDue
  <2>2. CASE HeartbeatCommand
    <3>1. ~TimedOut /\ pc = "asleep"
      BY <1>3, <2>2 DEF HeartbeatCommand, HeartbeatCalls, StepInv, Where
    <3>2. QED
      BY <1>3, <2>2, <3>1, QuietHeartbeat DEF NobodyDue
  <2>3. CASE ~StepReturns /\ ~HeartbeatCommand
    <3>1. at = "script" /\ UNCHANGED << fsm, clock >>
      <4>1. CASE Step
        BY <2>3, <4>1, <1>3 DEF Step, Call_ofsm_start, FirstPass, NextPass, InPass,
           DequeueEvent, ProcessEvent, CallHandler, HandlerQueues, HandlerReturns,
           Decide, QueueTimeout, StepInv, Where
      <4>2. CASE Command
        BY <2>3, <4>2 DEF Command, QueueCommand, Interrupt, WakeupCommand, ResetCommand,
           ExitCommand, Ended, scriptVars, vars, mainVars
      <4>3. CASE UNCHANGED scriptVars
        BY <4>3 DEF scriptVars, vars, mainVars
      <4>4. QED
        BY <1>3, <4>1, <4>2, <4>3 DEF ScriptNext
    <3>2. QED
      BY <1>3, <3>1 DEF TimeoutsServed, Due, Finite
  <2>4. QED
    BY <2>1, <2>2, <2>3
<1>4. QED
  BY <1>2, <1>3, StepInvHolds, PTL DEF ScriptSpec
=============================================================================
