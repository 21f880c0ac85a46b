------------------------------ MODULE OfsmMcu ------------------------------
(***************************************************************************)
(* The orchestra on a micro-controller: Ofsm with the inside of            *)
(* _ofsm_enter_sleep in the place of its WakeUp, and with the default      *)
(* heartbeat provider, whose time advances only when a sleep has ended.    *)
(*                                                                         *)
(* Interrupts are shut out (cli) except while the main loop is awake, in   *)
(* the window before a deep sleep, and while the CPU sleeps.  A sleep ends *)
(* with one interrupt: the instruction after sleep_cpu is cli.             *)
(*                                                                         *)
(* Modelled: a chip with WDP3 (watchdog up to 8 s).  micros() does not     *)
(* wrap within one sleep.                                                  *)
(***************************************************************************)
EXTENDS Ofsm, Integers

CONSTANTS
    TickUs,         \* OFSM_CONFIG_TICK_US
    FarTicks,       \* how far ahead an infinite sleep sets its wakeup time
    OverflowUs,     \* MICROSECONDS_PER_TIMER0_OVERFLOW
    MaxSleepMask,   \* _OFSM_MAX_SLEEP_MASK
    WatchdogUs      \* WatchdogUs[mask] = 16000L << mask

ASSUME McuAssumption ==
    /\ TickUs \in Nat \ {0} /\ FarTicks \in Nat /\ OverflowUs \in Nat \ {0}
    /\ MaxSleepMask \in Nat
    /\ WatchdogUs \in [0 .. MaxSleepMask -> Nat \ {0}]
    /\ \A m \in 1 .. MaxSleepMask : WatchdogUs[m] = 2 * WatchdogUs[m - 1]
    /\ MaxTick >= Horizon   \* a sleep may take time from 0 to the Horizon

\* Turned off for idle sleep, and for deep sleep.
IdlePeripherals == {"adc", "spi", "twi"}
DeepPeripherals == IdlePeripherals \cup {"usart0", "usart1"}

VARIABLES
    at,             \* where _ofsm_enter_sleep is; "out" of it
    idled,          \* bit 0 of sleepFlag
    sleepPeriodUs,  \* its local variable
    timer,          \* _ofsmSleepPeriodUs, _ofsmTimeBeforeSleep, and what
                    \* micros() has counted since _ofsmTimerStartTimeUs;
                    \* as history, which no step reads: the time that has
                    \* really passed since then and the deep sleeps that the
                    \* watchdog has ended, until another interrupt ends one
    watchdog,       \* the mask found and _ofsmWatchdogDelayUs
    inDeepSleep,    \* IN_DEEP_SLEEP of _ofsmFlags
    powered         \* the peripherals that have power

sleepVars == << at, idled, sleepPeriodUs, timer, watchdog, inDeepSleep, powered >>
mcuVars == << vars, sleepVars >>

\* The timer as it is set, now, for a period.
TimerFrom(now, periodUs) ==
    [periodUs |-> periodUs, timeBefore |-> now, elapsedUs |-> 0,
     realUs |-> 0, deepSleeps |-> 0, interrupted |-> FALSE]

NoTimer == TimerFrom(0, 0)
NoWatchdog == [mask |-> 0, delayUs |-> WatchdogUs[0]]

McuInit ==
    /\ Init
    /\ at = "out" /\ idled = FALSE /\ sleepPeriodUs = 0
    /\ timer = NoTimer /\ watchdog = NoWatchdog
    /\ inDeepSleep = FALSE
    /\ powered = DeepPeripherals

EventQueued == "EVENT_QUEUED" \in flags

-----------------------------------------------------------------------------
(* Awake *)

\* The main loop up to the call of the sleep function.
AwakeStep ==
    /\ at = "out" /\ pc # "asleep"
    /\ MainLoop
    /\ UNCHANGED sleepVars

\* An interrupt while the main loop is awake, also between the end of its pass
\* and the cli of the sleep function.
InterruptAwake ==
    /\ at = "out"
    /\ Interrupt
    /\ UNCHANGED sleepVars

EnterSleep ==
    /\ at = "out" /\ pc = "asleep"
    /\ flags' = flags \ {"IN_PROCESS"}
    /\ at' = "outer"
    /\ UNCHANGED << queue, fsm, wakeupTime, pc, loop, visit, handling, clock,
                    interrupts, idled, sleepPeriodUs, timer, watchdog,
                    inDeepSleep, powered >>

-----------------------------------------------------------------------------
(* The loops of _ofsm_enter_sleep *)

\* _ofsmWakeupTime as the sleep timer finds it.  The far time of an infinite
\* sleep is written to _ofsmWakeupTime, where nobody looks until it is
\* overwritten: the variable keeps the old one.
SleepsUntil == IF "INFINITE_SLEEP" \in flags THEN Register(clock + FarTicks)
               ELSE wakeupTime

\* _ofsm_sleep_timer_set, in unsigned arithmetic.
TimerPeriod == Register(Register(SleepsUntil + Modulus - Register(clock)) * TickUs)

SetTimer ==
    /\ at = "outer" /\ ~EventQueued
    /\ timer' = TimerFrom(clock, TimerPeriod)
    /\ sleepPeriodUs' = TimerPeriod
    /\ at' = "inner"
    /\ UNCHANGED << vars, idled, watchdog, inDeepSleep, powered >>

\* The inner loop ends: an event, or no time left.
LeaveInner ==
    /\ at = "inner"
    /\ EventQueued \/ sleepPeriodUs = 0
    /\ at' = "outer"
    /\ UNCHANGED << vars, idled, sleepPeriodUs, timer, watchdog, inDeepSleep, powered >>

\* The function returns.  (Locals and the dead timer are forgotten.)
LeaveSleep ==
    /\ at = "outer"
    /\ WakeUp
    /\ at' = "out" /\ idled' = FALSE /\ sleepPeriodUs' = 0
    /\ timer' = NoTimer /\ watchdog' = NoWatchdog
    /\ powered' = IF idled THEN powered \cup IdlePeripherals ELSE powered
    /\ UNCHANGED inDeepSleep

\* Every FSM has agreed, and the shortest period of the watchdog fits.
GoesDeep ==
    "ALLOW_DEEP_SLEEP" \in flags /\ sleepPeriodUs >= WatchdogUs[0]

IdleSleep ==
    /\ at = "inner" /\ ~EventQueued /\ sleepPeriodUs > 0
    /\ ~GoesDeep
    /\ powered' = IF idled THEN powered ELSE powered \ IdlePeripherals
    /\ idled' = TRUE
    /\ at' = "idle"
    /\ UNCHANGED << vars, sleepPeriodUs, timer, watchdog, inDeepSleep >>

\* Peripherals off; the search for the longest watchdog period starts.
DeepSleep ==
    /\ at = "inner" /\ ~EventQueued /\ sleepPeriodUs > 0
    /\ GoesDeep
    /\ powered' = powered \ DeepPeripherals
    /\ IF sleepPeriodUs >= WatchdogUs[MaxSleepMask]
       THEN /\ watchdog' = [mask |-> MaxSleepMask, delayUs |-> WatchdogUs[MaxSleepMask]]
            /\ at' = "window"
       ELSE watchdog' = NoWatchdog /\ at' = "search"
    /\ UNCHANGED << vars, idled, sleepPeriodUs, timer, inDeepSleep >>

\* Plausible fault: a period that fits exactly is passed over.
Doubles_strict(probe, mask) == probe < sleepPeriodUs - WatchdogUs[mask]

\* The condition of the search loop.
Doubles(probe, mask) == probe <= sleepPeriodUs - WatchdogUs[mask]

\* One turn of the search loop, or its end.
SearchPeriod ==
    /\ at = "search"
    /\ IF Doubles(watchdog.delayUs, watchdog.mask)
       THEN /\ watchdog' = [mask |-> watchdog.mask + 1, delayUs |-> 2 * watchdog.delayUs]
            /\ UNCHANGED at
       ELSE at' = "window" /\ UNCHANGED watchdog
    /\ UNCHANGED << vars, idled, sleepPeriodUs, timer, inDeepSleep, powered >>

\* Between sei and cli, two microseconds before a deep sleep.
InterruptInWindow ==
    /\ at = "window"
    /\ Interrupt
    /\ inDeepSleep' = FALSE
    /\ UNCHANGED << at, idled, sleepPeriodUs, timer, watchdog, powered >>

\* The watchdog is armed and the CPU powers down.  Nothing looks at
\* EVENT_QUEUED any more.
PowerDown ==
    /\ at = "window"
    /\ inDeepSleep' = TRUE
    /\ at' = "powerdown"
    /\ UNCHANGED << vars, idled, sleepPeriodUs, timer, watchdog, powered >>

-----------------------------------------------------------------------------
(* Asleep: one interrupt, and the CPU wakes *)

\* Time stops at the Horizon: the last microsecond before the tick after it.
LastUs == (Horizon - timer.timeBefore) * TickUs + TickUs - 1

\* A sleep of us microseconds, of which micros() counts some.
Passes(countedUs, us, deepSleeps) ==
    timer' = IF timer.elapsedUs + countedUs <= LastUs
             THEN [timer EXCEPT !.elapsedUs = @ + countedUs,
                                !.realUs = IF timer.interrupted THEN @ ELSE @ + us,
                                !.deepSleeps = IF timer.interrupted THEN @ ELSE @ + deepSleeps]
             ELSE [timer EXCEPT !.elapsedUs = LastUs,
                                !.realUs = IF timer.interrupted THEN @
                                           ELSE @ + (LastUs - timer.elapsedUs)]

WokenFromIdle(us) ==
    /\ at = "idle"
    /\ at' = "idleWoken"
    /\ Passes(us, us, 0)
    /\ UNCHANGED << idled, sleepPeriodUs, watchdog, inDeepSleep, powered >>

\* The overflow of timer0, within one period of it.
Timer0Wakes ==
    /\ \E us \in 1 .. OverflowUs : WokenFromIdle(us)
    /\ UNCHANGED vars

\* Any other interrupt, with or without an event.
InterruptWakes ==
    /\ \E us \in 0 .. OverflowUs - 1 : WokenFromIdle(us)
    /\ Interrupt \/ UNCHANGED vars

\* Plausible fault: the time is given to an interrupted deep sleep only.
CreditedUs_swapped(delayUs) ==
    IF inDeepSleep THEN 0 ELSE (delayUs \div OverflowUs) * OverflowUs

\* _ofsm_wdt_vector: what it adds to Arduino's count of time.
CreditedUs(delayUs) ==
    IF inDeepSleep THEN (delayUs \div OverflowUs) * OverflowUs ELSE 0

\* The watchdog ends a deep sleep.
WatchdogFires ==
    /\ at = "powerdown"
    /\ Passes(CreditedUs(watchdog.delayUs), watchdog.delayUs, 1)
    /\ at' = "deepWoken"
    /\ UNCHANGED << vars, idled, sleepPeriodUs, watchdog, inDeepSleep, powered >>

\* Another interrupt ends it.  The time slept is lost: nobody knows how long it
\* was, and from here on how late it is.
InterruptEndsDeepSleep ==
    /\ at = "powerdown"
    /\ at' = "deepWoken"
    /\ timer' = [timer EXCEPT !.realUs = 0, !.deepSleeps = 0, !.interrupted = TRUE]
    /\ \/ Interrupt /\ inDeepSleep' = FALSE
       \/ UNCHANGED << vars, inDeepSleep >>
    /\ UNCHANGED << idled, sleepPeriodUs, watchdog, powered >>

-----------------------------------------------------------------------------
(* Woken *)

\* A plausible fault: the ticks before the sleep are forgotten.
TicksNow_relative == timer.elapsedUs \div TickUs
TicksNow == timer.timeBefore + timer.elapsedUs \div TickUs

\* A plausible fault: a sleep that took too long is not seen.
TimeLeft_unchecked == timer.periodUs - timer.elapsedUs

TimeLeft == IF timer.elapsedUs >= timer.periodUs THEN 0
            ELSE timer.periodUs - timer.elapsedUs

\* A plausible fault: the peripherals of an idle sleep are switched on again.
DeepSleepEnablesPeripherals_idle == IdlePeripherals
DeepSleepEnablesPeripherals == DeepPeripherals

\* cli; the watchdog is disabled and the peripherals are switched on.
DeepSleepReturns ==
    /\ inDeepSleep' = FALSE
    /\ powered' = powered \cup DeepSleepEnablesPeripherals

\* After either sleep _ofsm_sleep_timer_get_time_left_us calls the heartbeat.
GetTimeLeft ==
    /\ at \in {"idleWoken", "deepWoken"}
    /\ IF at = "deepWoken" THEN DeepSleepReturns ELSE UNCHANGED << inDeepSleep, powered >>
    /\ Heartbeat(TicksNow - clock)
    /\ sleepPeriodUs' = TimeLeft
    /\ at' = "inner"
    /\ UNCHANGED << idled, timer, watchdog >>

Program ==
    \/ AwakeStep \/ EnterSleep \/ SetTimer \/ LeaveInner \/ LeaveSleep
    \/ IdleSleep \/ DeepSleep \/ SearchPeriod \/ PowerDown \/ GetTimeLeft

McuNext ==
    \/ Program
    \/ InterruptAwake \/ InterruptInWindow
    \/ Timer0Wakes \/ InterruptWakes
    \/ WatchdogFires \/ InterruptEndsDeepSleep

McuSpec == McuInit /\ [][McuNext]_mcuVars

\* The program runs; timer0 and the watchdog are not for ever forestalled by
\* other interrupts.
McuFairSpec ==
    /\ McuSpec
    /\ WF_mcuVars(Program)
    /\ SF_mcuVars(Timer0Wakes)
    /\ SF_mcuVars(WatchdogFires)

-----------------------------------------------------------------------------

\* Periods and times are unsigned, the mask is one the chip has.
McuTypeOK ==
    /\ at \in {"out", "outer", "inner", "search", "window", "powerdown",
               "deepWoken", "idle", "idleWoken"}
    /\ idled \in BOOLEAN /\ inDeepSleep \in BOOLEAN
    /\ sleepPeriodUs \in 0 .. MaxTime
    /\ timer \in [periodUs : 0 .. MaxTime, timeBefore : 0 .. Horizon, elapsedUs : Nat,
                  realUs : Nat, deepSleeps : Nat, interrupted : BOOLEAN]
    /\ watchdog \in [mask : 0 .. MaxSleepMask, delayUs : Nat]
    /\ powered \subseteq DeepPeripherals

\* The sleep function keeps the contract that Ofsm has in its place: it
\* returns when an event is queued and only then, and it does return, from
\* whatever sleep it is in; the default provider is a heartbeat.
ImplementsOrchestra == Spec /\ WF_vars(MainLoop)

\* Whatever sleeps, deep or idle, a call of the sleep function went through,
\* and whatever ended them, no peripheral is left off when the loop runs.
PeripheralsBack == at = "out" => powered = DeepPeripherals

\* The watchdog wakes the CPU after the time that will be credited for it,
\* which is the longest of its periods that does not exceed the time left.
WatchdogFits ==
    at \in {"window", "powerdown"} =>
        /\ watchdog.delayUs = WatchdogUs[watchdog.mask]
        /\ watchdog.delayUs <= sleepPeriodUs
        /\ watchdog.mask < MaxSleepMask => sleepPeriodUs < WatchdogUs[watchdog.mask + 1]

\* No delay that is asked for is longer than the given one.
DelaysWithin(longest) ==
    /\ DefaultDelay <= longest
    /\ \A f \in Fsm, s \in State : \A c \in DOMAIN Table[f][s] :
           Table[f][s][c].eventHandler \notin {NullHandler, NopHandler} =>
               \A effect \in Effects[Table[f][s][c].eventHandler] :
                   effect.delay <= longest

\* Every delay fits the register as a number of microseconds (with 32 bits: it
\* is shorter than 71 minutes), and the far wakeup time does not wrap.
PeriodsFit ==
    /\ FarTicks > 0 /\ Horizon + FarTicks <= MaxTime
    /\ \E longest \in 0 .. MaxTime :
           /\ DelaysWithin(longest)
           /\ FarTicks <= longest
           /\ longest * TickUs <= MaxTime

\* The sleep function never finds that there is nothing to sleep for while no
\* event is queued: it would spin with interrupts shut out, for ever.
NeverSpins == (at = "inner" /\ timer.elapsedUs = 0) => sleepPeriodUs > 0

\* The period of the sleep timer is not exceeded, through any mixture of deep and
\* idle sleeps.  As micros() counts it is exceeded by less than a period of
\* timer0.  In real time it is, too, but for what crediting a deep sleep in whole
\* periods of timer0 leaves out, less than one for each deep sleep -- unless an
\* interrupt has ended a deep sleep: ofsm.h:215 has no bound for that.
NotOverslept ==
    at # "out" =>
        /\ timer.elapsedUs < timer.periodUs + OverflowUs
        /\ timer.interrupted
           \/ timer.realUs < timer.periodUs + (timer.deepSleeps + 1) * OverflowUs

\* A sleep with a wakeup time ends.
SleepEnds ==
    (pc = "asleep" /\ "INFINITE_SLEEP" \notin flags /\ wakeupTime <= Horizon)
        ~> pc # "asleep"

\* What ofsm.impl.h:1235 says of IN_DEEP_SLEEP: it must be cleared on wakeup or
\* event queuing.
DeepSleepMeansNoEvent == inDeepSleep => ~EventQueued
=============================================================================
