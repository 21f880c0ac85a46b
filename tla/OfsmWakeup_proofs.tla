------------------------- MODULE OfsmWakeup_proofs -------------------------
(***************************************************************************)
(* The wakeup time of the orchestra covers every FSM: proved for every set *)
(* of groups, FSMs, tables and delays, as long as the time register does   *)
(* not wrap.  (After a wrap it is not so: MC_OfsmMcuWrap.cfg.)             *)
(***************************************************************************)
EXTENDS Ofsm_proofs

Unwrapped == {r \in FsmRecord : /\ r.wakeup <= MaxTime
                                /\ "SCHEDULED_TIME_OVERFLOW" \notin r.flags}

\* Every wakeup time, also the one being asked for, fits the register.
NoneWraps ==
    /\ fsm \in [Fsm -> Unwrapped]
    /\ handling.now + handling.effect.delay <= MaxTime

\* The earliest wakeup time of the FSMs seen so far is either in the loop's
\* variable or in that of the group at hand.
Covered(f) ==
    loop.earliest <= fsm[f].wakeup \/ visit.earliest <= fsm[f].wakeup

Covers ==
    /\ visit.earliest = MaxTime \/ "INFINITE_SLEEP" \notin visit.flags
    /\ pc \notin {"fsm", "handler"} => visit.earliest = MaxTime
    /\ \A f \in Fsm : Seen(f) /\ Finite(f) => Covered(f)
    /\ WakeupCoversAll

CoverInv == IndInv /\ FlagsAgree /\ NoneWraps /\ Covers

-----------------------------------------------------------------------------
(* Times that fit the register *)

\* The register keeps a time that fits.
LEMMA RegisterKeeps == \A t \in Nat : t <= MaxTime => Register(t) = t
BY ModulusAssumption DEF Register, MaxTime

\* A transition with a delay that fits leaves a wakeup time that fits.
LEMMA TransitionUnwrapped ==
    ASSUME NoWrap, LocalsOK, fsm \in [Fsm -> Unwrapped],
           NEW f \in Fsm, NEW s \in State, NEW now \in 0 .. Horizon,
           NEW effect \in Effect, now + effect.delay <= MaxTime
    PROVE  Transition(f, s, now, effect) \in Unwrapped
<1>1. /\ effect.delay \in Nat /\ DefaultDelay \in Nat /\ now \in Nat
      /\ MaxTime \in Nat /\ Horizon \in Nat
  BY MaxTimeType, BoundAssumption DEF Effect
<1>2. Transition(f, s, now, effect) \in FsmRecord
  BY <1>1, TransitionType
<1>3. TransitionWakeup(f, s, now, effect) <= MaxTime
  BY <1>1 DEF TransitionWakeup, NoWrap
<1>4. "SCHEDULED_TIME_OVERFLOW" \notin TransitionFlags(f, s, now, effect)
  <2>1. Register(now) = now /\ Register(now + effect.delay) = now + effect.delay
    BY <1>1, RegisterKeeps
  <2>2. ~(Register(Register(now) + effect.delay) < Register(now))
    BY <1>1, <2>1
  <2>3. QED
    BY <2>2 DEF TransitionFlags
<1>5. /\ Transition(f, s, now, effect).wakeup = TransitionWakeup(f, s, now, effect)
      /\ Transition(f, s, now, effect).flags = TransitionFlags(f, s, now, effect)
  BY DEF Transition, Unwrapped, FsmRecord
<1>6. QED
  BY <1>2, <1>3, <1>4, <1>5 DEF Unwrapped

\* A turn without a handler leaves a time that fits.
LEMMA ProcessEventUnwrapped ==
    ASSUME NoWrap, IndInv, NoneWraps, ProcessEvent
    PROVE  pc = "fsm" /\ \E newFsm \in Unwrapped : EndTurn(CurrentFsm, newFsm)
<1> DEFINE f == CurrentFsm
<1>1. f \in Fsm /\ fsm[f] \in Unwrapped /\ clock \in 0 .. Horizon
  BY CurrentFsmType DEF IndInv, NoneWraps
<1>2. CASE NoEvent(f) \/ IgnoreEvent(f)
  BY <1>1, <1>2 DEF NoEvent, IgnoreEvent, ProcessEvent
<1>3. CASE SkipEvent(f)
  <2>1. [fsm[f] EXCEPT !.skipNextEventCode = NoSkip] \in Unwrapped
    BY <1>1 DEF Unwrapped, FsmRecord
  <2>2. QED
    BY <1>3, <2>1 DEF SkipEvent, ProcessEvent
<1>4. CASE NopTransition(f)
  <2>1. Row(f)[visit.event.code].newState \in State
    BY <1>1, <1>4, FsmAssumption DEF NopTransition, Accepts, Row, Unwrapped, FsmRecord
  <2>2. NoEffect.delay = 0 /\ clock + 0 <= MaxTime
    BY <1>1, MaxTimeType, BoundAssumption DEF NoEffect, NoWrap
  <2>3. Transition(f, Row(f)[visit.event.code].newState, clock, NoEffect) \in Unwrapped
    BY <1>1, <2>1, <2>2, NoEffectType, TransitionUnwrapped DEF IndInv, NoneWraps
  <2>4. QED
    BY <1>4, <2>3 DEF NopTransition, ProcessEvent
<1>5. QED
  BY <1>2, <1>3, <1>4 DEF ProcessEvent

\* So does the return of a handler.
LEMMA HandlerReturnsUnwrapped ==
    ASSUME NoWrap, IndInv, NoneWraps, HandlerReturns
    PROVE  pc = "handler" /\ \E newFsm \in Unwrapped : EndTurn(CurrentFsm, newFsm)
<1> DEFINE f == CurrentFsm
           newFsm == IF handling.effect.prevent THEN fsm[f]
                     ELSE Transition(f, handling.newState, handling.now,
                                     handling.effect)
<1>1. f \in Fsm /\ fsm[f] \in Unwrapped
  BY CurrentFsmType DEF IndInv, NoneWraps
<1>2. /\ handling.newState \in State /\ handling.now \in 0 .. Horizon
      /\ handling.effect \in Effect
  BY DEF IndInv
<1>3. newFsm \in Unwrapped
  BY <1>1, <1>2, TransitionUnwrapped DEF IndInv, NoneWraps
<1>4. QED
  BY <1>3 DEF HandlerReturns

\* Every step leaves times that fit.
LEMMA StepNoneWraps ==
    ASSUME NoWrap, IndInv, NoneWraps, [Next]_vars
    PROVE  NoneWraps'
<1>1. Idle.now + Idle.effect.delay <= MaxTime
  BY MaxTimeType DEF Idle, NoEffect
<1>2. CASE ProcessEvent
  <2>1. PICK newFsm \in Unwrapped : EndTurn(CurrentFsm, newFsm)
    BY <1>2, ProcessEventUnwrapped
  <2>2. QED
    BY <1>2, <2>1 DEF ProcessEvent, EndTurn, NoneWraps
<1>3. CASE HandlerReturns
  <2>1. PICK newFsm \in Unwrapped : EndTurn(CurrentFsm, newFsm)
    BY <1>3, HandlerReturnsUnwrapped
  <2>2. QED
    BY <1>1, <1>3, <2>1 DEF HandlerReturns, EndTurn, NoneWraps
<1>4. CASE CallHandler
  <2> DEFINE f == CurrentFsm
             t == Row(f)[visit.event.code]
  <2>1. f \in Fsm /\ fsm[f] \in FsmRecord /\ clock \in 0 .. Horizon
    BY CurrentFsmType DEF IndInv, LocalsOK
  <2>2. /\ visit.event.code \in DOMAIN Row(f)
        /\ t.eventHandler \notin {NullHandler, NopHandler}
    BY <1>4 DEF CallHandler, Accepts
  <2>3. PICK effect \in Effects[t.eventHandler] :
           handling' = [newState |-> t.newState, now |-> clock, effect |-> effect]
    BY <1>4 DEF CallHandler
  <2>4. effect \in Effect /\ Horizon + effect.delay <= MaxTime
    BY <2>1, <2>2, <2>3, FsmAssumption DEF NoWrap, Row, FsmRecord
  <2>5. clock + effect.delay <= MaxTime
    BY <2>1, <2>4, MaxTimeType, BoundAssumption DEF Effect
  <2>6. QED
    BY <1>4, <2>3, <2>5 DEF CallHandler, NoneWraps
<1>5. CASE HandlerQueues
  <2>1. handling'.now = handling.now /\ handling'.effect.delay = handling.effect.delay
    BY <1>5 DEF HandlerQueues, IndInv, Effect
  <2>2. fsm' \in [Fsm -> Unwrapped]
    <3>1. CASE UNCHANGED fsm
      BY <3>1 DEF NoneWraps
    <3>2. CASE ~UNCHANGED fsm
      <4>1. fsm \in [Fsm -> Unwrapped] /\ fsm' \in [Fsm -> FsmRecord]
        BY <1>5, HandlerQueuesStep DEF IndInv, LocalsOK, NoneWraps
      <4>2. PICK code : fsm' = [fsm EXCEPT ![CurrentFsm].skipNextEventCode = code]
        BY <1>5, <3>2 DEF HandlerQueues
      <4>3. \A h \in Fsm : /\ fsm'[h].wakeup = fsm[h].wakeup
                           /\ fsm'[h].flags = fsm[h].flags
        BY <4>1, <4>2 DEF Unwrapped, FsmRecord
      <4>4. QED
        BY <4>1, <4>3 DEF Unwrapped
    <3>3. QED
      BY <3>1, <3>2
  <2>3. QED
    BY <2>1, <2>2 DEF NoneWraps
<1>6. CASE \/ StartPass \/ DequeueEvent \/ Decide \/ QueueTimeout \/ PrepareSleep
           \/ WakeUp \/ Interrupt \/ \E ticks \in 0 .. MaxTick : Heartbeat(ticks)
           \/ UNCHANGED vars
  <2>1. UNCHANGED << fsm, handling >>
    BY <1>6 DEF StartPass, DequeueEvent, Decide, QueueTimeout, PrepareSleep, WakeUp,
       Interrupt, Heartbeat, vars, mainVars
  <2>2. QED
    BY <2>1 DEF NoneWraps
<1>7. QED
  BY <1>2, <1>3, <1>4, <1>5, <1>6 DEF Next, MainLoop

-----------------------------------------------------------------------------
(* What the loop has collected *)

\* Collecting into a group: its earliest time covers those it had and the new
\* one, unless that sleeps for ever.
LEMMA CollectCovers ==
    ASSUME NEW acc, NEW fs \in SUBSET CommonFlags, NEW time \in 0 .. MaxTime,
           acc \in VisitRecord \/ acc \in LoopRecord,
           "SCHEDULED_TIME_OVERFLOW" \notin fs
    PROVE  LET seen == Collect(acc, fs, time) IN
           /\ seen.flags = acc.flags \cap fs
           /\ seen.earliest \in 0 .. MaxTime
           /\ seen.earliest <= acc.earliest
           /\ "INFINITE_SLEEP" \notin fs => seen.earliest <= time
           /\ "INFINITE_SLEEP" \in fs => seen.earliest = acc.earliest
<1> DEFINE seen == Collect(acc, fs, time)
<1>1. acc.earliest \in 0 .. MaxTime
  BY DEF VisitRecord, LoopRecord
<1>2. /\ seen.flags = acc.flags \cap fs
      /\ seen.earliest = IF Sooner(acc, fs, time) THEN time ELSE acc.earliest
  BY DEF Collect, VisitRecord, LoopRecord
<1>3. Sooner(acc, fs, time) <=> "INFINITE_SLEEP" \notin fs /\ acc.earliest > time
  BY DEF Sooner, _OFSM_TIME_A_GT_B
<1>4. QED
  BY <1>1, <1>2, <1>3, MaxTimeType

\* A turn leaves every FSM seen covered, whatever it has become in this turn.
LEMMA EndTurnCovers ==
    ASSUME IndInv, FlagsAgree, NoneWraps, Covers, pc \in {"fsm", "handler"},
           NEW newFsm \in Unwrapped, EndTurn(CurrentFsm, newFsm)
    PROVE  Covers'
<1> DEFINE f == CurrentFsm
           n == Len(GroupFsms[loop.group])
           w == newFsm.wakeup
           seen == Collect(visit, newFsm.flags, Register(w))
           total == Collect(loop, seen.flags, seen.earliest)
<1>1. /\ f \in Fsm /\ fsm \in [Fsm -> FsmRecord]
      /\ loop \in LoopRecord /\ visit \in VisitRecord
      /\ loop.earliest \in 0 .. MaxTime /\ visit.earliest \in 0 .. MaxTime
      /\ newFsm.flags \in SUBSET CommonFlags /\ newFsm \in FsmRecord
      /\ "SCHEDULED_TIME_OVERFLOW" \notin newFsm.flags
      /\ w \in 0 .. MaxTime /\ Register(w) = w
  <2>1. /\ f \in Fsm /\ fsm \in [Fsm -> FsmRecord]
        /\ loop \in LoopRecord /\ visit \in VisitRecord
    BY CurrentFsmType DEF IndInv, LocalsOK
  <2>2. loop.earliest \in 0 .. MaxTime /\ visit.earliest \in 0 .. MaxTime
    BY <2>1 DEF LoopRecord, VisitRecord
  <2>3. /\ newFsm \in FsmRecord /\ w <= MaxTime
        /\ "SCHEDULED_TIME_OVERFLOW" \notin newFsm.flags
    BY DEF Unwrapped
  <2>4. newFsm.flags \in SUBSET CommonFlags /\ w \in Nat
    BY <2>3 DEF FsmRecord
  <2>5. QED
    BY <2>1, <2>2, <2>3, <2>4, RegisterKeeps, MaxTimeType
<1>2. /\ seen.flags = visit.flags \cap newFsm.flags
      /\ seen.earliest \in 0 .. MaxTime
      /\ seen.earliest <= visit.earliest
      /\ "INFINITE_SLEEP" \notin newFsm.flags => seen.earliest <= w
      /\ seen.earliest = MaxTime \/ "INFINITE_SLEEP" \notin seen.flags
      /\ seen \in VisitRecord
  <2>1. /\ seen.flags = visit.flags \cap newFsm.flags
        /\ seen.earliest \in 0 .. MaxTime
        /\ seen.earliest <= visit.earliest
        /\ "INFINITE_SLEEP" \notin newFsm.flags => seen.earliest <= w
        /\ "INFINITE_SLEEP" \in newFsm.flags => seen.earliest = visit.earliest
    BY <1>1, CollectCovers
  <2>2. seen \in VisitRecord
    BY <1>1, CollectVisit
  <2> HIDE DEF seen
  <2>3. QED
    BY <2>1, <2>2 DEF Covers
<1>3. /\ total.earliest \in 0 .. MaxTime
      /\ total.earliest <= loop.earliest
      /\ total.earliest <= seen.earliest
      /\ total \in LoopRecord
  <2>1. /\ seen.flags \in SUBSET CommonFlags
        /\ "SCHEDULED_TIME_OVERFLOW" \notin seen.flags
    BY <1>1, <1>2
  <2> HIDE DEF seen
  <2>2. /\ total.earliest \in 0 .. MaxTime
        /\ total.earliest <= loop.earliest
        /\ "INFINITE_SLEEP" \notin seen.flags => total.earliest <= seen.earliest
    BY <1>1, <1>2, <2>1, CollectCovers
  <2>3. total \in LoopRecord
    BY <1>1, <1>2, <2>1, CollectLoop
  <2>4. QED
    BY <1>2, <2>2, <2>3, MaxTimeType
<1>4. fsm' = [fsm EXCEPT ![f] = newFsm]
  BY DEF EndTurn
<1>5. /\ pc' \in {"fsm", "dequeue", "decide"}
      /\ \/ /\ pc' = "fsm" /\ loop' = loop
            /\ visit'.earliest = seen.earliest /\ visit'.flags = seen.flags
         \/ /\ pc' # "fsm" /\ visit'.earliest = MaxTime
            /\ loop'.earliest = total.earliest
  <2>1. CASE visit.fsmIndex # n
    <3>1. /\ pc' = "fsm" /\ loop' = loop
          /\ visit' = [seen EXCEPT !.fsmIndex = seen.fsmIndex + 1]
      BY <2>1 DEF EndTurn
    <3> HIDE DEF seen
    <3>2. QED
      BY <1>2, <3>1 DEF VisitRecord
  <2>2. CASE visit.fsmIndex = n
    <3>1. /\ pc' \in {"dequeue", "decide"} /\ visit' = NoVisit
          /\ loop' = total \/ loop' = [total EXCEPT !.group = total.group + 1]
      BY <2>2 DEF EndTurn
    <3> HIDE DEF total
    <3>2. QED
      BY <1>3, <3>1 DEF LoopRecord, NoVisit
  <2>3. QED
    BY <2>1, <2>2
<1> HIDE DEF seen, total
<1>6. ASSUME NEW h \in Fsm, Seen(h)', Finite(h)'
      PROVE  Covered(h)'
  <2>1. CASE h = f
    <3>1. fsm'[h] = newFsm
      BY <1>1, <1>4, <2>1
    <3>2. seen.earliest <= w
      BY <1>2, <1>6, <3>1 DEF Finite
    <3>3. total.earliest <= w
      BY <1>1, <1>2, <1>3, <3>2, MaxTimeType
    <3>4. QED
      BY <1>5, <3>1, <3>2, <3>3 DEF Covered
  <2>2. CASE h # f
    <3>1. fsm'[h] = fsm[h] /\ fsm[h].wakeup \in Nat
      BY <1>1, <1>4, <2>2 DEF FsmRecord
    <3>2. Seen(h)
      BY <1>1, <1>6, <2>2, TurnSees
    <3>3. Covered(h)
      BY <1>6, <3>1, <3>2 DEF Covers, Finite
    <3>4. QED
      BY <1>1, <1>2, <1>3, <1>5, <3>1, <3>3, MaxTimeType DEF Covered
  <2>3. QED
    BY <2>1, <2>2
<1>7. /\ (visit.earliest = MaxTime \/ "INFINITE_SLEEP" \notin visit.flags)'
      /\ (pc \notin {"fsm", "handler"} => visit.earliest = MaxTime)'
      /\ WakeupCoversAll'
  BY <1>2, <1>5 DEF WakeupCoversAll, Asleep
<1>8. QED
  BY <1>6, <1>7 DEF Covers

\* A step that changes no FSM's flags and time and neither pc nor the locals.
LEMMA QuietStepCovers ==
    ASSUME Covers, UNCHANGED << pc, loop, visit, wakeupTime >>,
           \A f \in Fsm : /\ fsm'[f].flags = fsm[f].flags
                          /\ fsm'[f].wakeup = fsm[f].wakeup,
           "INFINITE_SLEEP" \in flags' => "INFINITE_SLEEP" \in flags
    PROVE  Covers'
<1>1. \A f \in Fsm : (Seen(f)' <=> Seen(f)) /\ (Finite(f)' <=> Finite(f))
  BY DEF Seen, Finite
<1>2. \A f \in Fsm : Covered(f) => Covered(f)'
  BY DEF Covered
<1>3. QED
  BY <1>1, <1>2 DEF Covers, WakeupCoversAll, Asleep

\* Every step keeps the cover.
LEMMA StepCovers ==
    ASSUME NoWrap, CoverInv, [Next]_vars
    PROVE  Covers'
<1>1. /\ CurrentFsm \in Fsm /\ fsm \in [Fsm -> FsmRecord] /\ loop \in LoopRecord
      /\ pc \notin {"fsm", "handler"} => visit.fsmIndex = 1
      /\ IndInv /\ FlagsAgree /\ NoneWraps /\ Covers
  BY CurrentFsmType DEF CoverInv, IndInv, LocalsOK
<1>2. CASE StartPass
  <2>1. \A f \in Fsm : ~Seen(f)'
    BY <1>1, <1>2 DEF StartPass, Seen, FreshLoop, Groups
  <2>2. QED
    BY <1>1, <1>2, <2>1 DEF StartPass, Covers, WakeupCoversAll, Asleep
<1>3. CASE DequeueEvent
  <2>1. /\ pc = "dequeue" /\ pc' = "fsm" /\ visit'.fsmIndex = 1
        /\ visit'.earliest = MaxTime /\ UNCHANGED << fsm, loop >>
    <3>1. /\ pc = "dequeue" /\ pc' = "fsm" /\ UNCHANGED << fsm, loop >>
          /\ \/ visit' = NoVisit
             \/ \E e : visit' = [NoVisit EXCEPT !.pending = TRUE, !.event = e]
      BY <1>3 DEF DequeueEvent
    <3>2. \A e : LET v == [NoVisit EXCEPT !.pending = TRUE, !.event = e]
                IN  v.fsmIndex = 1 /\ v.earliest = MaxTime
      BY DEF NoVisit
    <3>3. NoVisit.fsmIndex = 1 /\ NoVisit.earliest = MaxTime
      BY DEF NoVisit
    <3>4. QED
      BY <3>1, <3>2, <3>3
  <2>2. visit.earliest = MaxTime
    BY <1>1, <2>1 DEF Covers
  <2>3. \A f \in Fsm : /\ Seen(f)' <=> Seen(f)
                       /\ Finite(f)' <=> Finite(f)
                       /\ Covered(f)' <=> Covered(f)
    BY <1>1, <2>1, <2>2 DEF Seen, Finite, Covered
  <2>4. QED
    BY <1>1, <2>1, <2>3 DEF Covers, WakeupCoversAll, Asleep
<1>4. CASE ProcessEvent
  BY <1>1, <1>4, ProcessEventUnwrapped, EndTurnCovers
<1>5. CASE CallHandler
  BY <1>1, <1>5 DEF CallHandler, Covers, Covered, Seen, Finite, WakeupCoversAll, Asleep
<1>6. CASE HandlerQueues
  <2>1. \A f \in Fsm : /\ fsm'[f].flags = fsm[f].flags
                       /\ fsm'[f].wakeup = fsm[f].wakeup
    <3>1. \/ UNCHANGED fsm
          \/ \E code : fsm' = [fsm EXCEPT ![CurrentFsm].skipNextEventCode = code]
      BY <1>6 DEF HandlerQueues
    <3>2. QED
      BY <1>1, <3>1 DEF FsmRecord
  <2>2. "INFINITE_SLEEP" \in flags' => "INFINITE_SLEEP" \in flags
    BY <1>6 DEF HandlerQueues, QueueGroupEvent, Raise
  <2>3. QED
    BY <1>1, <1>6, <2>1, <2>2, QuietStepCovers DEF HandlerQueues
<1>7. CASE HandlerReturns
  BY <1>1, <1>7, HandlerReturnsUnwrapped, EndTurnCovers
<1>8. CASE Decide
  <2>1. /\ pc = "decide" /\ pc' \in {"pass", "timeout", "presleep"}
        /\ pc' = "presleep" => loop' = loop
        /\ UNCHANGED << fsm, visit >>
    BY <1>8 DEF Decide
  <2>2. QED
    BY <1>1, <2>1 DEF Covers, Covered, Seen, Finite, WakeupCoversAll, Asleep
<1>9. CASE QueueTimeout
  <2>1. pc = "timeout" /\ pc' \in {"timeout", "pass"} /\ UNCHANGED << fsm, visit >>
    BY <1>9 DEF QueueTimeout
  <2>2. QED
    BY <1>1, <2>1 DEF Covers, Seen, WakeupCoversAll, Asleep
<1>10. CASE PrepareSleep
  <2>1. /\ pc = "presleep" /\ pc' = "asleep" /\ UNCHANGED << fsm, visit >>
        /\ wakeupTime' = loop.earliest
        /\ "INFINITE_SLEEP" \in flags' => "INFINITE_SLEEP" \in loop.flags
    BY <1>10 DEF PrepareSleep, CommonFlags
  <2>2. /\ visit.earliest = MaxTime /\ visit.flags = CommonFlags
        /\ \A f \in Fsm : Seen(f)
    BY <1>1, <2>1 DEF Covers, FlagsAgree, Seen
  <2>3. ASSUME NEW f \in Fsm, Finite(f)'
        PROVE  "INFINITE_SLEEP" \notin flags' /\ wakeupTime' <= fsm'[f].wakeup
    <3>1. Finite(f) /\ Covered(f)
      BY <1>1, <2>1, <2>2, <2>3 DEF Finite, Covers
    <3>2. "INFINITE_SLEEP" \notin loop.flags
      BY <1>1, <2>2, <3>1 DEF FlagsAgree, Collected, Finite, CommonFlags
    <3>3. loop.earliest <= fsm[f].wakeup
      <4>1. fsm[f].wakeup \in Nat /\ loop.earliest \in 0 .. MaxTime
        BY <1>1 DEF FsmRecord, LoopRecord
      <4>2. QED
        BY <2>2, <3>1, <4>1, MaxTimeType DEF Covered
    <3>4. QED
      BY <2>1, <3>2, <3>3
  <2>4. WakeupCoversAll'
    BY <2>3 DEF WakeupCoversAll
  <2>5. \A f \in Fsm : ~Seen(f)'
    BY <2>1 DEF Seen
  <2>6. QED
    BY <2>1, <2>2, <2>4, <2>5 DEF Covers
<1>11. CASE WakeUp
  BY <1>1, <1>11 DEF WakeUp, Covers, Seen, WakeupCoversAll, Asleep
<1>12. CASE Interrupt
  <2>1. "INFINITE_SLEEP" \in flags' => "INFINITE_SLEEP" \in flags
    BY <1>12 DEF Interrupt, QueueGroupEvent, Raise
  <2>2. QED
    BY <1>1, <1>12, <2>1, QuietStepCovers DEF Interrupt
<1>13. CASE \E ticks \in 0 .. MaxTick : Heartbeat(ticks)
  <2>1. "INFINITE_SLEEP" \in flags' => "INFINITE_SLEEP" \in flags
    <3>1. flags' \subseteq flags \cup {"TIMER_OVERFLOW", "EVENT_QUEUED"}
      BY <1>13 DEF Heartbeat, QueueGlobalTimeout, Raise
    <3>2. QED
      BY <3>1
  <2>2. QED
    BY <1>1, <1>13, <2>1, QuietStepCovers DEF Heartbeat
<1>14. CASE UNCHANGED vars
  BY <1>1, <1>14, QuietStepCovers DEF vars, mainVars
<1>15. QED
  BY <1>2, <1>3, <1>4, <1>5, <1>6, <1>7, <1>8, <1>9, <1>10, <1>11, <1>12, <1>13,
     <1>14 DEF Next, MainLoop

-----------------------------------------------------------------------------
(* Theorems *)

\* At the start nobody waits for a time.
LEMMA InitCoverInv == Init => CoverInv
<1> SUFFICES ASSUME Init PROVE CoverInv
  OBVIOUS
<1>1. IndInv
  BY InitIndInv
<1>2. FlagsAgree
  BY FreshLocals DEF Init, FlagsAgree, Seen, NoVisit, DeepSleepIsUnanimous, Asleep
<1>3. NoneWraps
  <2>1. \A f \in Fsm : fsm[f].wakeup = 0 /\ fsm[f].flags = {"INFINITE_SLEEP"}
    BY DEF Init
  <2>2. fsm \in [Fsm -> Unwrapped]
    BY <1>1, <2>1, MaxTimeType DEF IndInv, LocalsOK, Unwrapped
  <2>3. Idle.now + Idle.effect.delay <= MaxTime
    BY MaxTimeType DEF Idle, NoEffect
  <2>4. QED
    BY <2>2, <2>3 DEF NoneWraps, Init
<1>4. Covers
  BY DEF Init, Covers, Seen, NoVisit, WakeupCoversAll, Asleep
<1>5. QED
  BY <1>1, <1>2, <1>3, <1>4 DEF CoverInv

\* The cover holds throughout.
LEMMA CoverInvHolds ==
    ASSUME NoWrap
    PROVE  Spec => []CoverInv
<1>1. Init => CoverInv
  BY InitCoverInv
<1>2. CoverInv /\ [Next]_vars => CoverInv'
  <2> SUFFICES ASSUME CoverInv, [Next]_vars PROVE CoverInv'
    OBVIOUS
  <2>1. IndInv' /\ FlagsAgree' /\ NoneWraps' /\ Covers'
    BY StepIndInv, StepAgrees, StepNoneWraps, StepCovers DEF CoverInv
  <2>2. QED
    BY <2>1 DEF CoverInv
<1>3. QED
  BY <1>1, <1>2, PTL DEF Spec

\* Until the time register wraps, what the loop goes to sleep with covers every
\* FSM of every group, in whatever mix of finite and infinite sleeps and however
\* often the FSMs that groups share have changed in the pass: the loop is in
\* infinite sleep only if all are, and no FSM is due before _ofsmWakeupTime.
THEOREM WakeupCoversEveryFsm ==
    ASSUME NoWrap
    PROVE  Spec => []WakeupCoversAll
<1>1. CoverInv => WakeupCoversAll
  BY DEF CoverInv, Covers
<1>2. QED
  BY <1>1, CoverInvHolds, PTL

-----------------------------------------------------------------------------
(* Heartbeats *)

\* The loop does not sleep for a wakeup time beyond the wrap.
NotBeyond == pc = "asleep" => "SCHEDULED_TIME_OVERFLOW" \notin flags

\* It could only if all FSMs did.
LEMMA StepNotBeyond == CoverInv /\ NotBeyond /\ [Next]_vars => NotBeyond'
<1> SUFFICES ASSUME CoverInv, NotBeyond, [Next]_vars, pc' = "asleep"
             PROVE  "SCHEDULED_TIME_OVERFLOW" \notin flags'
  BY DEF NotBeyond
<1>1. CASE PrepareSleep
  <2>1. CurrentFsm \in Fsm /\ Seen(CurrentFsm)
    BY <1>1, CurrentFsmType DEF CoverInv, IndInv, PrepareSleep, Seen
  <2>2. Collected \subseteq fsm[CurrentFsm].flags /\ visit.flags = CommonFlags
    BY <1>1, <2>1 DEF CoverInv, FlagsAgree, PrepareSleep
  <2>3. "SCHEDULED_TIME_OVERFLOW" \notin loop.flags
    BY <2>1, <2>2 DEF CoverInv, NoneWraps, Unwrapped, Collected, CommonFlags
  <2>4. flags' \subseteq (flags \ CommonFlags) \cup loop.flags
    BY <1>1 DEF PrepareSleep
  <2>5. QED
    BY <2>3, <2>4 DEF CommonFlags
<1>2. CASE ~PrepareSleep
  BY <1>2, FallsAsleep DEF NotBeyond
<1>3. QED
  BY <1>1, <1>2

\* A global TIMEOUT leaves EVENT_QUEUED up while the loop sleeps: a queue that
\* does not take it has an event, which was signalled before.
LEMMA TimeoutIsSignalled ==
    ASSUME IndInv, pc = "asleep", NEW fs, flags \subseteq fs, QueueGlobalTimeout(fs)
    PROVE  "EVENT_QUEUED" \in flags'
<1>1. 1 \in Groups
  BY FreshLocals
<1>2. CASE IsEmpty(queue[1])
  <2>1. BeforeTimeout(1) = queue[1]
    <3>1. \A g \in 1 .. 1 - 1 : FALSE
      OBVIOUS
    <3>2. QED
      BY <3>1 DEF BeforeTimeout, TrampleIf, HitFrom
  <2>2. TakesSlot(BeforeTimeout(1), FALSE, TimeoutEvent)
    BY <1>2, <2>1 DEF IsEmpty, TakesSlot, Compresses, Forced
  <2>3. QED
    BY <1>1, <2>2 DEF QueueGlobalTimeout, Raise
<1>3. CASE ~IsEmpty(queue[1])
  <2>1. "EVENT_QUEUED" \in flags
    BY <1>1, <1>3 DEF IndInv, PendingIsSignalled, Unvisited
  <2>2. QED
    BY <2>1 DEF QueueGlobalTimeout, Raise
<1>4. QED
  BY <1>2, <1>3

\* A heartbeat that makes an FSM due, or finds it so, leaves an event.
LEMMA HeartbeatSignals ==
    ASSUME NoWrap, CoverInv, CoverInv', NotBeyond, BusyFlagDown,
           pc = "asleep", NEW ticks \in 0 .. MaxTick, Heartbeat(ticks),
           NEW f \in Fsm, Due(f)'
    PROVE  "EVENT_QUEUED" \in flags'
<1> DEFINE wrapped == Register(clock') < Register(clock)
           fs == IF wrapped THEN flags \cup {"TIMER_OVERFLOW"} ELSE flags
<1>1. /\ clock' \in 0 .. Horizon /\ UNCHANGED << fsm, wakeupTime, pc >>
      /\ Register(clock') = clock'
  <2>1. clock' \in 0 .. Horizon /\ UNCHANGED << fsm, wakeupTime, pc >>
    BY DEF CoverInv, IndInv, Heartbeat
  <2>2. clock' \in Nat /\ clock' <= MaxTime
    BY <2>1, BoundAssumption, MaxTimeType DEF NoWrap
  <2>3. QED
    BY <2>1, <2>2, RegisterKeeps
<1>2. /\ "INFINITE_SLEEP" \notin flags /\ wakeupTime <= fsm[f].wakeup
      /\ fsm[f].wakeup <= clock'
  BY <1>1 DEF CoverInv, Covers, WakeupCoversAll, Asleep, Due, Finite
<1>3. wakeupTime <= clock'
  BY <1>1, <1>2, BoundAssumption, MaxTimeType
  DEF CoverInv, IndInv, LocalsOK, FsmRecord
<1>4. fs \cap {"IN_PROCESS", "INFINITE_SLEEP"} = {}
  BY <1>2 DEF BusyFlagDown
<1>5. _OFSM_TIME_A_GTE_B(Register(clock'), "TIMER_OVERFLOW" \in fs,
                         wakeupTime, "SCHEDULED_TIME_OVERFLOW" \in fs)
  <2>1. "SCHEDULED_TIME_OVERFLOW" \notin fs
    BY DEF NotBeyond
  <2>2. clock' >= wakeupTime
    BY <1>1, <1>3, BoundAssumption, MaxTimeType DEF CoverInv, IndInv
  <2>3. QED
    BY <1>1, <2>1, <2>2 DEF _OFSM_TIME_A_GTE_B
<1>6. QueueGlobalTimeout(fs)
  BY <1>4, <1>5 DEF Heartbeat
<1>7. QED
  BY <1>6, TimeoutIsSignalled DEF CoverInv

\* Until the time register wraps, no timeout is slept through: whatever moved
\* between the loop's last look at the time and its going to sleep, the first
\* heartbeat that finds an FSM due leaves an event to wake up to, even if every
\* queue is full.
THEOREM NoTimeoutSleptThrough ==
    ASSUME NoWrap
    PROVE  Spec => HeartbeatWakesDue
<1> DEFINE Inv == CoverInv /\ NotBeyond /\ BusyFlagDown
<1>1. Init => NotBeyond /\ BusyFlagDown
  BY DEF Init, NotBeyond, BusyFlagDown
<1>2. Spec => []Inv
  BY <1>1, CoverInvHolds, StepNotBeyond, StepBusyFlagDown, PTL DEF Spec
<1>3. Inv /\ Inv' /\ Asleep /\ (\E ticks \in 0 .. MaxTick : Heartbeat(ticks))
          => ((\E f \in Fsm : Due(f)') => "EVENT_QUEUED" \in flags')
  BY HeartbeatSignals DEF Asleep
<1> HIDE DEF Inv
<1>4. QED
  BY <1>2, <1>3, PTL DEF HeartbeatWakesDue

-----------------------------------------------------------------------------
(* The decision to rest *)

\* What the loop has collected does not ask for a TIMEOUT.
NotDueYet == "INFINITE_SLEEP" \in loop.flags \/ clock < loop.earliest

\* The overflow flag of the time that the loop has collected is down.
LEMMA CollectedUnwrapped ==
    ASSUME CoverInv, pc = "decide"
    PROVE  "SCHEDULED_TIME_OVERFLOW" \notin loop.flags
<1>1. CurrentFsm \in Fsm /\ Seen(CurrentFsm)
  BY CurrentFsmType DEF CoverInv, IndInv, Seen
<1>2. Collected \subseteq fsm[CurrentFsm].flags /\ visit.flags = CommonFlags
  BY <1>1 DEF CoverInv, FlagsAgree
<1>3. QED
  BY <1>1, <1>2 DEF CoverInv, NoneWraps, Unwrapped, Collected, CommonFlags

\* The loop decides to rest only if no time that it has collected has come.
LEMMA DecidesToRest ==
    ASSUME NoWrap, CoverInv, Decide, pc' = "presleep"
    PROVE  "EVENT_QUEUED" \notin flags' /\ NotDueYet'
<1>1. /\ pc = "decide" /\ UNCHANGED << loop, flags, clock >>
      /\ "EVENT_QUEUED" \notin flags
      /\ \/ "INFINITE_SLEEP" \in loop.flags
         \/ ~_OFSM_TIME_A_GTE_B(
                Register(clock), "TIMER_OVERFLOW" \in flags,
                loop.earliest, "SCHEDULED_TIME_OVERFLOW" \in loop.flags)
  BY DEF Decide
<1>2. Register(clock) = clock /\ clock \in Nat /\ loop.earliest \in Nat
  <2>1. clock \in Nat /\ clock <= MaxTime
    BY BoundAssumption, MaxTimeType DEF CoverInv, IndInv, NoWrap
  <2>2. loop.earliest \in Nat
    BY MaxTimeType DEF CoverInv, IndInv, LocalsOK, LoopRecord
  <2>3. QED
    BY <2>1, <2>2, RegisterKeeps
<1>3. "SCHEDULED_TIME_OVERFLOW" \notin loop.flags
  BY <1>1, CollectedUnwrapped
<1>4. QED
  BY <1>1, <1>2, <1>3 DEF _OFSM_TIME_A_GTE_B, NotDueYet

NobodyDue == \A f \in Fsm : ~Due(f)

\* A loop that goes to rest with nothing due leaves no FSM due.
LEMMA RestLeavesNobodyDue ==
    ASSUME CoverInv, CoverInv', NotDueYet, PrepareSleep
    PROVE  NobodyDue'
<1>1. /\ pc' = "asleep" /\ UNCHANGED << fsm, clock >> /\ wakeupTime' = loop.earliest
  BY DEF PrepareSleep
<1>2. ASSUME NEW f \in Fsm, Due(f)' PROVE FALSE
  <2>1. Finite(f)' /\ fsm[f].wakeup <= clock
    BY <1>1, <1>2 DEF Due
  <2>2. "INFINITE_SLEEP" \notin flags' /\ loop.earliest <= fsm[f].wakeup
    BY <1>1, <2>1 DEF CoverInv, Covers, WakeupCoversAll, Asleep
  <2>3. "INFINITE_SLEEP" \notin loop.flags
    BY <2>2 DEF PrepareSleep, ClearedForSleep
  <2>4. clock < loop.earliest
    BY <2>3 DEF NotDueYet
  <2>5. clock \in Nat /\ loop.earliest \in Nat /\ fsm[f].wakeup \in Nat
    BY MaxTimeType, BoundAssumption
    DEF CoverInv, IndInv, LocalsOK, LoopRecord, FsmRecord
  <2>6. QED
    BY <2>1, <2>2, <2>4, <2>5
<1>3. QED
  BY <1>2 DEF NobodyDue
=============================================================================
