--------------------------- MODULE OfsmMcu_proofs ---------------------------
(***************************************************************************)
(* Proofs about the sleep function of a micro-controller, for every        *)
(* orchestra, every chip (timer0, watchdog) and every width of the time    *)
(* register: it returns to the main loop as Ofsm assumes, the watchdog     *)
(* never exceeds the time left, no wakeup time is passed by a timer        *)
(* period, and every peripheral is on again; and, as long as neither the   *)
(* time nor a delay counted in microseconds wraps its register, it never   *)
(* spins.                                                                  *)
(***************************************************************************)
EXTENDS OfsmMcu, OfsmWakeup_proofs

-----------------------------------------------------------------------------
(* Division *)

\* A quotient of natural numbers is one.
LEMMA QuotientType == \A d \in Nat \ {0} : \A a \in Nat : a \div d \in Nat
OBVIOUS

\* Zero holds no period.
LEMMA ZeroQuotient == \A d \in Nat \ {0} : 0 \div d = 0
OBVIOUS

\* What a quotient means.
LEMMA QuotientBounds ==
    \A d \in Nat \ {0} : \A a \in Nat :
        (a \div d) * d <= a /\ a < (a \div d) * d + d
OBVIOUS

\* A multiple of a smaller number is smaller by a whole factor.
LEMMA MultiplesApart ==
    \A d \in Nat \ {0} : \A p, q \in Nat : q < p => q * d + d <= p * d
OBVIOUS

\* More time holds no fewer ticks.
LEMMA QuotientMonotone ==
    ASSUME NEW d \in Nat \ {0}, NEW a \in Nat, NEW b \in Nat, a <= b
    PROVE  a \div d <= b \div d
<1>1. (a \div d) * d <= a /\ b < (b \div d) * d + d
  BY QuotientBounds
<1>2. a \div d \in Nat /\ b \div d \in Nat
  BY QuotientType
<1>3. ASSUME b \div d < a \div d PROVE FALSE
  <2>1. (b \div d) * d + d <= (a \div d) * d
    BY <1>2, <1>3, MultiplesApart
  <2>2. (a \div d) * d \in Nat /\ (b \div d) * d \in Nat
    BY <1>2
  <2>3. QED
    BY <1>1, <2>1, <2>2
<1>4. QED
  BY <1>2, <1>3

-----------------------------------------------------------------------------
(* The inductive invariant *)

\* What is off is what the sleep at hand has turned off.
MayBeOff ==
    IF at \in {"search", "window", "powerdown", "deepWoken"} THEN DeepPeripherals
    ELSE IF idled THEN IdlePeripherals
    ELSE {}

Powers ==
    /\ DeepPeripherals \ powered \subseteq MayBeOff
    /\ at = "out" => ~idled

\* The search keeps within the time left, and below the longest period.
Searches ==
    /\ at \in {"search", "window", "powerdown"} =>
          /\ watchdog.delayUs = WatchdogUs[watchdog.mask]
          /\ watchdog.delayUs <= sleepPeriodUs
    /\ at = "search" => sleepPeriodUs < WatchdogUs[MaxSleepMask]
    /\ WatchdogFits

\* The types of the sleep timer, with its history.
TimerType == [periodUs : 0 .. MaxTime, timeBefore : 0 .. Horizon, elapsedUs : Nat,
              realUs : Nat, deepSleeps : Nat, interrupted : BOOLEAN]

\* Time that has passed has been counted, but for less than a period of timer0
\* for each deep sleep, unless an interrupt ended one.
TimeCounted ==
    timer.interrupted \/ timer.realUs <= timer.elapsedUs + timer.deepSleeps * OverflowUs

\* The sleep timer has not expired when a sleep begins, its local copy is
\* exact, and the time of the orchestra is not ahead of it.
Timed ==
    /\ at = "out" => timer = NoTimer
    /\ at \in {"inner", "search", "window", "powerdown", "idle"} =>
          sleepPeriodUs = TimeLeft
    /\ at \in {"search", "window", "powerdown", "idle"} => sleepPeriodUs > 0
    /\ at = "powerdown" => inDeepSleep
    /\ at \notin {"out", "outer"} => /\ timer.elapsedUs <= LastUs
                                     /\ clock <= TicksNow
                                     /\ TimeCounted
    /\ NotOverslept

McuInv == McuTypeOK /\ Powers /\ Searches /\ Timed

-----------------------------------------------------------------------------
(* The steps of the main loop and of interrupts *)

\* The shortest watchdog period is a period.
LEMMA NoWatchdogType ==
    /\ NoWatchdog \in [mask : 0 .. MaxSleepMask, delayUs : Nat]
    /\ NoWatchdog.mask = 0 /\ NoWatchdog.delayUs = WatchdogUs[0]
<1>1. 0 \in 0 .. MaxSleepMask
  BY McuAssumption
<1>2. WatchdogUs[0] \in Nat
  BY <1>1, McuAssumption
<1>3. QED
  BY <1>1, <1>2 DEF NoWatchdog

\* The dead timer is a timer.
LEMMA NoTimerType ==
    /\ NoTimer \in TimerType
    /\ 0 \in 0 .. MaxTime
BY MaxTimeType, BoundAssumption DEF NoTimer, TimerFrom, TimerType

\* The chip is on before the first sleep.
LEMMA McuInitInv == McuInit => McuInv
<1> SUFFICES ASSUME McuInit PROVE McuInv
  OBVIOUS
<1>1. McuTypeOK
  BY NoWatchdogType, NoTimerType DEF McuInit, McuTypeOK, TimerType
<1>2. Powers
  BY DEF McuInit, Powers, MayBeOff
<1>3. Searches /\ Timed
  BY DEF McuInit, Searches, WatchdogFits, Timed, NotOverslept
<1>4. QED
  BY <1>1, <1>2, <1>3 DEF McuInv

\* Outside of the sleep function nothing of it changes.
LEMMA AwakeKeepsMcuInv ==
    ASSUME McuInv, at = "out", UNCHANGED sleepVars
    PROVE  McuInv'
<1>1. McuTypeOK' /\ Powers'
  BY DEF sleepVars, McuInv, McuTypeOK, Powers, MayBeOff
<1>2. Searches' /\ Timed'
  BY DEF sleepVars, McuInv, Searches, WatchdogFits, Timed, NotOverslept
<1>3. QED
  BY <1>1, <1>2 DEF McuInv

-----------------------------------------------------------------------------
(* Entering and leaving *)

\* The sleep function is called.
LEMMA EnterSleepInv == McuInv /\ EnterSleep => McuInv'
<1> SUFFICES ASSUME McuInv, EnterSleep PROVE McuInv'
  OBVIOUS
<1>1. McuTypeOK' /\ Powers'
  BY DEF EnterSleep, McuInv, McuTypeOK, Powers, MayBeOff
<1>2. Searches'
  BY DEF EnterSleep, Searches, WatchdogFits
<1>3. Timed'
  <2>1. /\ NoTimer.elapsedUs < NoTimer.periodUs + OverflowUs
        /\ NoTimer.realUs < NoTimer.periodUs + (NoTimer.deepSleeps + 1) * OverflowUs
    BY McuAssumption DEF NoTimer, TimerFrom
  <2>2. QED
    BY <2>1 DEF EnterSleep, McuInv, Timed, NotOverslept
<1>4. QED
  BY <1>1, <1>2, <1>3 DEF McuInv

\* The period of the sleep timer is a value of the time register.
LEMMA TimerPeriodType == IndInv => TimerPeriod \in 0 .. MaxTime
<1> SUFFICES ASSUME IndInv PROVE TimerPeriod \in 0 .. MaxTime
  OBVIOUS
<1>1. clock \in Nat /\ clock + FarTicks \in Nat /\ wakeupTime \in Nat
  BY BoundAssumption, McuAssumption, MaxTimeType DEF IndInv
<1>2. SleepsUntil \in Nat
  BY <1>1, RegisterRange, MaxTimeType DEF SleepsUntil
<1>3. SleepsUntil + Modulus - Register(clock) \in Nat
  BY <1>1, <1>2, RegisterRange, ModulusAssumption DEF MaxTime
<1>4. Register(SleepsUntil + Modulus - Register(clock)) \in Nat
  BY <1>3, RegisterRange, MaxTimeType
<1>5. Register(SleepsUntil + Modulus - Register(clock)) * TickUs \in Nat
  BY <1>4, McuAssumption
<1>6. QED
  BY <1>5, RegisterRange DEF TimerPeriod

\* The sleep timer is set.
LEMMA SetTimerInv == IndInv /\ McuInv /\ SetTimer => McuInv'
<1> SUFFICES ASSUME IndInv, McuInv, SetTimer PROVE McuInv'
  OBVIOUS
<1>1. /\ timer' = [periodUs |-> TimerPeriod, timeBefore |-> clock, elapsedUs |-> 0,
                    realUs |-> 0, deepSleeps |-> 0, interrupted |-> FALSE]
      /\ sleepPeriodUs' = TimerPeriod /\ at' = "inner" /\ clock' = clock
      /\ UNCHANGED << idled, watchdog, inDeepSleep, powered >> /\ at = "outer"
  BY DEF SetTimer, TimerFrom, vars
<1>2. TimerPeriod \in 0 .. MaxTime /\ clock \in 0 .. Horizon
  BY TimerPeriodType DEF IndInv
<1>3. McuTypeOK' /\ Powers'
  BY <1>1, <1>2 DEF McuInv, McuTypeOK, Powers, MayBeOff
<1>4. Searches'
  BY <1>1 DEF Searches, WatchdogFits
<1>5. Timed'
  <2>1. TimeLeft' = sleepPeriodUs'
    BY <1>1, <1>2, MaxTimeType DEF TimeLeft
  <2>2. 0 <= (Horizon - clock) * TickUs + TickUs - 1
    <3>1. Horizon - clock \in Nat
      BY <1>2, BoundAssumption
    <3>2. (Horizon - clock) * TickUs \in Nat
      BY <3>1, McuAssumption
    <3>3. QED
      BY <3>2, McuAssumption
  <2>3. (timer.elapsedUs <= LastUs)'
    BY <1>1, <2>2 DEF LastUs
  <2>4. (clock <= TicksNow)'
    <3>1. TicksNow' = clock
      BY <1>1, <1>2, ZeroQuotient, McuAssumption, BoundAssumption DEF TicksNow
    <3>2. QED
      BY <3>1, <1>1, <1>2, BoundAssumption
  <2>5. NotOverslept'
    <3>1. TimerPeriod \in Nat /\ OverflowUs \in Nat \ {0}
      BY <1>2, McuAssumption, MaxTimeType
    <3>2. 0 < TimerPeriod + OverflowUs /\ 0 < TimerPeriod + (0 + 1) * OverflowUs
      BY <3>1
    <3>3. QED
      BY <1>1, <3>2 DEF NotOverslept
  <2>6. TimeCounted'
    BY <1>1, McuAssumption DEF TimeCounted
  <2>7. QED
    BY <1>1, <2>1, <2>3, <2>4, <2>5, <2>6 DEF Timed
<1>6. QED
  BY <1>3, <1>4, <1>5 DEF McuInv

\* The inner loop ends.
LEMMA LeaveInnerInv == McuInv /\ LeaveInner => McuInv'
<1> SUFFICES ASSUME McuInv, LeaveInner PROVE McuInv'
  OBVIOUS
<1>1. McuTypeOK' /\ Powers'
  BY DEF LeaveInner, vars, McuInv, McuTypeOK, Powers, MayBeOff
<1>2. Searches' /\ Timed'
  BY DEF LeaveInner, vars, McuInv, Searches, WatchdogFits, Timed, NotOverslept
<1>3. QED
  BY <1>1, <1>2 DEF McuInv

\* The function returns, with the peripherals of idle sleeps on again.
LEMMA LeaveSleepInv == McuInv /\ LeaveSleep => McuInv'
<1> SUFFICES ASSUME McuInv, LeaveSleep PROVE McuInv'
  OBVIOUS
<1>1. McuTypeOK'
  BY NoWatchdogType, NoTimerType
  DEF LeaveSleep, McuInv, McuTypeOK, TimerType, IdlePeripherals, DeepPeripherals
<1>2. Powers'
  BY DEF LeaveSleep, McuInv, Powers, MayBeOff
<1>3. Searches' /\ Timed'
  BY DEF LeaveSleep, Searches, WatchdogFits, Timed, NotOverslept
<1>4. QED
  BY <1>1, <1>2, <1>3 DEF McuInv

-----------------------------------------------------------------------------
(* Going to sleep *)

\* The CPU idles.
LEMMA IdleSleepInv == McuInv /\ IdleSleep => McuInv'
<1> SUFFICES ASSUME McuInv, IdleSleep PROVE McuInv'
  OBVIOUS
<1>1. /\ at = "inner" /\ at' = "idle" /\ sleepPeriodUs > 0 /\ idled' = TRUE
      /\ powered' = IF idled THEN powered ELSE powered \ IdlePeripherals
      /\ UNCHANGED << clock, sleepPeriodUs, timer, watchdog, inDeepSleep >>
  BY DEF IdleSleep, vars
<1>2. McuTypeOK'
  BY <1>1 DEF McuInv, McuTypeOK
<1>3. Powers'
  BY <1>1 DEF McuInv, Powers, MayBeOff
<1>4. Searches'
  BY <1>1 DEF Searches, WatchdogFits
<1>5. Timed'
  BY <1>1 DEF McuInv, Timed, NotOverslept, TimeLeft, LastUs, TicksNow, TimeCounted
<1>6. QED
  BY <1>2, <1>3, <1>4, <1>5 DEF McuInv

\* The peripherals go off and the search for a watchdog period starts.
LEMMA DeepSleepInv == McuInv /\ DeepSleep => McuInv'
<1> SUFFICES ASSUME McuInv, DeepSleep PROVE McuInv'
  OBVIOUS
<1>1. /\ at = "inner" /\ at' \in {"search", "window"} /\ sleepPeriodUs > 0
      /\ powered' = powered \ DeepPeripherals
      /\ UNCHANGED << clock, idled, sleepPeriodUs, timer, inDeepSleep >>
      /\ sleepPeriodUs >= WatchdogUs[0]
  BY DEF DeepSleep, vars, GoesDeep
<1>2. MaxSleepMask \in 0 .. MaxSleepMask /\ WatchdogUs[MaxSleepMask] \in Nat
  BY McuAssumption
<1>3. McuTypeOK' /\ Searches'
  <2>1. CASE sleepPeriodUs >= WatchdogUs[MaxSleepMask]
    <3>1. /\ watchdog' = [mask |-> MaxSleepMask, delayUs |-> WatchdogUs[MaxSleepMask]]
          /\ at' = "window"
      BY <2>1 DEF DeepSleep
    <3>2. McuTypeOK'
      BY <1>1, <1>2, <3>1 DEF McuInv, McuTypeOK
    <3>3. Searches'
      BY <1>1, <1>2, <2>1, <3>1, McuAssumption DEF McuInv, McuTypeOK, Searches, WatchdogFits
    <3>4. QED
      BY <3>2, <3>3
  <2>2. CASE ~(sleepPeriodUs >= WatchdogUs[MaxSleepMask])
    <3>1. watchdog' = NoWatchdog /\ at' = "search"
      BY <2>2 DEF DeepSleep
    <3>2. McuTypeOK'
      BY <1>1, <3>1, NoWatchdogType DEF McuInv, McuTypeOK
    <3>3. sleepPeriodUs \in Nat /\ WatchdogUs[0] \in Nat
      BY MaxTimeType, McuAssumption DEF McuInv, McuTypeOK
    <3>4. sleepPeriodUs < WatchdogUs[MaxSleepMask] /\ WatchdogUs[0] <= sleepPeriodUs
      BY <1>1, <1>2, <2>2, <3>3
    <3>5. Searches'
      BY <1>1, <3>1, <3>4, NoWatchdogType DEF Searches, WatchdogFits
    <3>6. QED
      BY <3>2, <3>5
  <2>3. QED
    BY <2>1, <2>2
<1>4. Powers'
  <2>1. MayBeOff' = DeepPeripherals
    BY <1>1 DEF MayBeOff
  <2>2. QED
    BY <1>1, <2>1 DEF Powers
<1>5. Timed'
  BY <1>1 DEF McuInv, Timed, NotOverslept, TimeLeft, LastUs, TicksNow, TimeCounted
<1>6. QED
  BY <1>3, <1>4, <1>5 DEF McuInv

\* The next period is doubled as long as it fits; the last one that fits is the
\* longest.
LEMMA SearchPeriodInv == McuInv /\ SearchPeriod => McuInv'
<1> SUFFICES ASSUME McuInv, SearchPeriod PROVE McuInv'
  OBVIOUS
<1>1. /\ at = "search" /\ at' \in {"search", "window"}
      /\ UNCHANGED << clock, idled, sleepPeriodUs, timer, inDeepSleep, powered >>
  BY DEF SearchPeriod, vars
<1> DEFINE mask == watchdog.mask
<1>2. /\ mask \in 0 .. MaxSleepMask /\ sleepPeriodUs \in Nat
      /\ watchdog.delayUs = WatchdogUs[mask] /\ WatchdogUs[mask] <= sleepPeriodUs
      /\ sleepPeriodUs < WatchdogUs[MaxSleepMask]
      /\ WatchdogUs[mask] \in Nat
  BY <1>1, MaxTimeType, McuAssumption DEF McuInv, McuTypeOK, Searches
<1>3. mask < MaxSleepMask =>
          /\ mask + 1 \in 0 .. MaxSleepMask
          /\ WatchdogUs[mask + 1] = 2 * WatchdogUs[mask]
  <2>1. SUFFICES ASSUME mask < MaxSleepMask
                 PROVE  /\ mask + 1 \in 1 .. MaxSleepMask
                        /\ WatchdogUs[mask + 1] = 2 * WatchdogUs[mask]
    BY McuAssumption
  <2>2. mask + 1 \in 1 .. MaxSleepMask /\ (mask + 1) - 1 = mask
    <3>1. mask \in Nat /\ MaxSleepMask \in Nat
      BY <1>2, McuAssumption
    <3>2. QED
      BY <2>1, <3>1
  <2>3. QED
    BY <2>2, McuAssumption
<1>4. McuTypeOK' /\ Searches'
  <2>1. CASE Doubles(watchdog.delayUs, mask)
    <3>1. /\ watchdog' = [mask |-> mask + 1, delayUs |-> 2 * watchdog.delayUs]
          /\ at' = "search"
      BY <1>1, <2>1 DEF SearchPeriod
    <3>2. 2 * WatchdogUs[mask] <= sleepPeriodUs
      BY <1>2, <2>1 DEF Doubles
    <3>3. mask < MaxSleepMask
      BY <1>2, <3>2, McuAssumption
    <3>4. McuTypeOK'
      BY <1>1, <1>2, <1>3, <3>1, <3>3 DEF McuInv, McuTypeOK
    <3>5. Searches'
      BY <1>1, <1>2, <1>3, <3>1, <3>2, <3>3 DEF Searches, WatchdogFits
    <3>6. QED
      BY <3>4, <3>5
  <2>2. CASE ~Doubles(watchdog.delayUs, mask)
    <3>1. at' = "window" /\ watchdog' = watchdog
      BY <2>2 DEF SearchPeriod
    <3>2. sleepPeriodUs < 2 * WatchdogUs[mask]
      BY <1>2, <2>2 DEF Doubles
    <3>3. McuTypeOK'
      BY <1>1, <3>1 DEF McuInv, McuTypeOK
    <3>4. Searches'
      BY <1>1, <1>2, <1>3, <3>1, <3>2 DEF Searches, WatchdogFits
    <3>5. QED
      BY <3>3, <3>4
  <2>3. QED
    BY <2>1, <2>2
<1>5. Powers'
  BY <1>1 DEF McuInv, Powers, MayBeOff
<1>6. Timed'
  BY <1>1 DEF McuInv, Timed, NotOverslept, TimeLeft, LastUs, TicksNow, TimeCounted
<1>7. QED
  BY <1>4, <1>5, <1>6 DEF McuInv

\* The steps in the window before a deep sleep: an interrupt, and its end.
LEMMA WindowInv == McuInv /\ (InterruptInWindow \/ PowerDown) => McuInv'
<1> SUFFICES ASSUME McuInv, InterruptInWindow \/ PowerDown PROVE McuInv'
  OBVIOUS
<1>1. /\ at = "window" /\ at' \in {"window", "powerdown"}
      /\ inDeepSleep' \in BOOLEAN
      /\ UNCHANGED << clock, idled, sleepPeriodUs, timer, watchdog, powered >>
  BY DEF InterruptInWindow, PowerDown, Interrupt, vars
<1>2. McuTypeOK' /\ Powers'
  BY <1>1 DEF McuInv, McuTypeOK, Powers, MayBeOff
<1>3. Searches'
  BY <1>1 DEF McuInv, Searches, WatchdogFits
<1>4. (at = "powerdown" => inDeepSleep)'
  BY DEF InterruptInWindow, PowerDown
<1>5. Timed'
  BY <1>1, <1>4
  DEF McuInv, Timed, NotOverslept, TimeLeft, LastUs, TicksNow, TimeCounted
<1>6. QED
  BY <1>2, <1>3, <1>5 DEF McuInv

-----------------------------------------------------------------------------
(* Waking up *)

\* n + 1 periods of timer0 are one more than n.
LEMMA OnePeriodMore ==
    ASSUME NEW n \in Nat
    PROVE  /\ n * OverflowUs \in Nat
           /\ (n + 1) * OverflowUs = n * OverflowUs + OverflowUs
BY McuAssumption

\* Periods of timer0 add up.
LEMMA PeriodsAdd ==
    ASSUME NEW m \in Nat, NEW n \in Nat
    PROVE  /\ (m + n) * OverflowUs = m * OverflowUs + n * OverflowUs
           /\ m * OverflowUs \in Nat /\ n * OverflowUs \in Nat
BY McuAssumption

\* What passes at most until the Horizon is a number of microseconds.
LEMMA LastUsType == McuInv => LastUs \in Nat
<1> SUFFICES ASSUME McuInv PROVE LastUs \in Nat
  OBVIOUS
<1>1. Horizon - timer.timeBefore \in Nat
  BY BoundAssumption DEF McuInv, McuTypeOK
<1>2. (Horizon - timer.timeBefore) * TickUs \in Nat
  BY <1>1, McuAssumption
<1>3. QED
  BY <1>2, McuAssumption DEF LastUs

\* Time passes for the timer: no more is counted than that, and what is not
\* counted is that of the deep sleeps.
LEMMA TimerPasses ==
    ASSUME McuInv, at \notin {"out", "outer"},
           NEW counted \in Nat, NEW us \in Nat, NEW n \in Nat,
           us <= counted + n * OverflowUs, Passes(counted, us, n)
    PROVE  /\ timer' \in TimerType
           /\ timer'.periodUs = timer.periodUs /\ timer'.timeBefore = timer.timeBefore
           /\ timer.elapsedUs <= timer'.elapsedUs
           /\ timer'.elapsedUs <= timer.elapsedUs + counted
           /\ timer'.elapsedUs <= LastUs
           /\ TimeCounted'
<1>1. /\ timer \in TimerType /\ timer.elapsedUs \in Nat /\ timer.realUs \in Nat
      /\ timer.deepSleeps \in Nat
      /\ timer.elapsedUs <= LastUs /\ LastUs \in Nat
      /\ timer.interrupted \/ timer.realUs <= timer.elapsedUs + timer.deepSleeps * OverflowUs
  BY LastUsType DEF McuInv, McuTypeOK, Timed, TimeCounted, TimerType
<1>2. /\ (timer.deepSleeps + n) * OverflowUs = timer.deepSleeps * OverflowUs + n * OverflowUs
      /\ timer.deepSleeps * OverflowUs \in Nat /\ n * OverflowUs \in Nat
  BY <1>1, PeriodsAdd
<1> DEFINE CountsOn(elapsed, real, sleeps) ==
        /\ timer' = [timer EXCEPT !.elapsedUs = elapsed, !.realUs = real,
                                  !.deepSleeps = sleeps]
        /\ timer.elapsedUs <= elapsed /\ elapsed <= timer.elapsedUs + counted
        /\ elapsed <= LastUs
        /\ ~timer.interrupted => real <= elapsed + sleeps * OverflowUs
<1> DEFINE Ended == timer.elapsedUs + counted > LastUs
<1>3. ASSUME ~Ended, timer.interrupted
      PROVE  CountsOn(timer.elapsedUs + counted, timer.realUs, timer.deepSleeps)
  BY <1>1, <1>3 DEF Passes
<1>4. ASSUME ~Ended, ~timer.interrupted
      PROVE  CountsOn(timer.elapsedUs + counted, timer.realUs + us, timer.deepSleeps + n)
  <2>1. timer' = [timer EXCEPT !.elapsedUs = timer.elapsedUs + counted,
                               !.realUs = timer.realUs + us,
                               !.deepSleeps = timer.deepSleeps + n]
    BY <1>1, <1>4 DEF Passes
  <2>2. timer.realUs + us
            <= (timer.elapsedUs + counted) + (timer.deepSleeps + n) * OverflowUs
    BY <1>1, <1>2, <1>4
  <2>3. timer.elapsedUs <= timer.elapsedUs + counted /\ timer.elapsedUs + counted <= LastUs
    BY <1>1, <1>4
  <2>4. QED
    BY <1>1, <2>1, <2>2, <2>3
<1>5. ASSUME Ended, timer.interrupted
      PROVE  CountsOn(LastUs, timer.realUs, timer.deepSleeps)
  <2>1. timer' = [timer EXCEPT !.elapsedUs = LastUs, !.realUs = timer.realUs]
    BY <1>1, <1>5 DEF Passes
  <2>2. timer' = [timer EXCEPT !.elapsedUs = LastUs, !.realUs = timer.realUs,
                               !.deepSleeps = timer.deepSleeps]
    BY <1>1, <2>1 DEF TimerType
  <2>3. QED
    BY <1>1, <1>5, <2>2
<1>6. ASSUME Ended, ~timer.interrupted
      PROVE  CountsOn(LastUs, timer.realUs + (LastUs - timer.elapsedUs), timer.deepSleeps)
  <2>1. timer' = [timer EXCEPT !.elapsedUs = LastUs,
                               !.realUs = timer.realUs + (LastUs - timer.elapsedUs)]
    BY <1>1, <1>6 DEF Passes
  <2>2. timer' = [timer EXCEPT !.elapsedUs = LastUs,
                               !.realUs = timer.realUs + (LastUs - timer.elapsedUs),
                               !.deepSleeps = timer.deepSleeps]
    BY <1>1, <2>1 DEF TimerType
  <2>3. timer.realUs + (LastUs - timer.elapsedUs)
            <= LastUs + timer.deepSleeps * OverflowUs
    BY <1>1, <1>2, <1>6
  <2>4. QED
    BY <1>1, <1>6, <2>2, <2>3
<1>7. /\ timer.elapsedUs + counted \in Nat /\ timer.realUs + us \in Nat
      /\ timer.deepSleeps + n \in Nat
      /\ timer.realUs + (LastUs - timer.elapsedUs) \in Nat
  BY <1>1
<1>8. PICK elapsed \in Nat, real \in Nat, sleeps \in Nat : CountsOn(elapsed, real, sleeps)
  <2> HIDE DEF CountsOn, Ended
  <2>1. QED
    BY <1>1, <1>3, <1>4, <1>5, <1>6, <1>7
<1>9. /\ timer' \in TimerType
      /\ timer'.periodUs = timer.periodUs /\ timer'.timeBefore = timer.timeBefore
      /\ timer'.elapsedUs = elapsed /\ timer'.realUs = real /\ timer'.deepSleeps = sleeps
      /\ timer'.interrupted = timer.interrupted
  <2>1. timer' = [timer EXCEPT !.elapsedUs = elapsed, !.realUs = real,
                               !.deepSleeps = sleeps]
    BY <1>8
  <2>2. timer \in TimerType
    BY <1>1
  <2> HIDE DEF CountsOn
  <2>3. timer' \in TimerType
    BY <2>1, <2>2 DEF TimerType
  <2>4. timer'.periodUs = timer.periodUs /\ timer'.timeBefore = timer.timeBefore
    BY <2>1, <2>2 DEF TimerType
  <2>5. timer'.elapsedUs = elapsed /\ timer'.realUs = real /\ timer'.deepSleeps = sleeps
    BY <2>1, <2>2 DEF TimerType
  <2>6. timer'.interrupted = timer.interrupted
    BY <2>1, <2>2 DEF TimerType
  <2>7. QED
    BY <2>3, <2>4, <2>5, <2>6
<1>10. TimeCounted'
  BY <1>8, <1>9 DEF TimeCounted
<1>11. QED
  BY <1>8, <1>9, <1>10

\* Time that passes brings neither the timer nor the ticks back.
LEMMA TimePasses ==
    ASSUME IndInv, McuInv, at \notin {"out", "outer"},
           NEW counted \in Nat, NEW us \in Nat, NEW n \in Nat,
           us <= counted + n * OverflowUs, Passes(counted, us, n), clock' = clock
    PROVE  /\ timer' \in TimerType /\ timer'.periodUs = timer.periodUs
           /\ timer'.elapsedUs <= timer.elapsedUs + counted
           /\ (timer.elapsedUs <= LastUs)'
           /\ (clock <= TicksNow)'
           /\ TimeCounted'
<1>1. /\ timer.elapsedUs \in Nat /\ timer.timeBefore \in 0 .. Horizon
      /\ clock <= TicksNow /\ clock \in Nat
  BY BoundAssumption DEF McuInv, McuTypeOK, Timed, IndInv
<1>2. /\ timer' \in TimerType /\ timer'.periodUs = timer.periodUs
      /\ timer'.timeBefore = timer.timeBefore
      /\ timer.elapsedUs <= timer'.elapsedUs
      /\ timer'.elapsedUs <= timer.elapsedUs + counted
      /\ timer'.elapsedUs <= LastUs
      /\ TimeCounted'
  BY TimerPasses
<1>3. LastUs' = LastUs
  BY <1>2 DEF LastUs
<1>4. timer'.elapsedUs \in Nat
  BY <1>2 DEF TimerType
<1>5. timer.elapsedUs \div TickUs <= timer'.elapsedUs \div TickUs
  BY <1>1, <1>2, <1>4, QuotientMonotone, McuAssumption
<1>6. timer.elapsedUs \div TickUs \in Nat /\ timer'.elapsedUs \div TickUs \in Nat
  BY <1>1, <1>4, QuotientType, McuAssumption
<1>7. (clock <= TicksNow)'
  <2>1. clock <= timer.timeBefore + timer'.elapsedUs \div TickUs
    BY <1>1, <1>5, <1>6, BoundAssumption DEF TicksNow
  <2>2. QED
    BY <1>2, <2>1 DEF TicksNow
<1>8. QED
  BY <1>2, <1>3, <1>7

\* A timer whose count is within a period of timer0 of its wakeup time is so in
\* real time, but for the deep sleeps.
LEMMA WithinRealTime ==
    ASSUME timer' \in TimerType, TimeCounted',
           timer'.elapsedUs < timer'.periodUs + OverflowUs
    PROVE  NotOverslept'
<1>1. /\ timer'.elapsedUs \in Nat /\ timer'.periodUs \in Nat /\ timer'.realUs \in Nat
      /\ timer'.deepSleeps \in Nat /\ OverflowUs \in Nat
  BY MaxTimeType, McuAssumption DEF TimerType
<1>2. /\ timer'.deepSleeps * OverflowUs \in Nat
      /\ (timer'.deepSleeps + 1) * OverflowUs = timer'.deepSleeps * OverflowUs + OverflowUs
  BY <1>1, OnePeriodMore
<1>3. \/ timer'.interrupted
      \/ timer'.realUs < timer'.periodUs + (timer'.deepSleeps + 1) * OverflowUs
  BY <1>1, <1>2 DEF TimeCounted
<1>4. QED
  BY <1>3 DEF NotOverslept

\* An interrupt ends an idle sleep, within a period of timer0.
LEMMA IdleWokenInv ==
    IndInv /\ McuInv /\ (Timer0Wakes \/ InterruptWakes) => McuInv'
<1> SUFFICES ASSUME IndInv, McuInv, Timer0Wakes \/ InterruptWakes PROVE McuInv'
  OBVIOUS
<1>1. PICK us \in 0 .. OverflowUs : WokenFromIdle(us)
  BY McuAssumption DEF Timer0Wakes, InterruptWakes
<1>2. clock' = clock
  BY DEF Timer0Wakes, InterruptWakes, Interrupt, vars
<1>3. /\ at = "idle" /\ at' = "idleWoken" /\ us \in Nat /\ us <= OverflowUs
      /\ Passes(us, us, 0)
      /\ UNCHANGED << idled, sleepPeriodUs, watchdog, inDeepSleep, powered >>
  BY <1>1, McuAssumption DEF WokenFromIdle
<1>4. /\ timer' \in TimerType /\ timer'.periodUs = timer.periodUs
      /\ timer'.elapsedUs <= timer.elapsedUs + us
      /\ (timer.elapsedUs <= LastUs)' /\ (clock <= TicksNow)' /\ TimeCounted'
  <2>1. us <= us + 0 * OverflowUs
    BY <1>3, McuAssumption
  <2>2. QED
    BY <1>2, <1>3, <2>1, TimePasses
<1>5. McuTypeOK' /\ Powers' /\ Searches'
  BY <1>3, <1>4
  DEF McuInv, McuTypeOK, TimerType, Powers, MayBeOff, Searches, WatchdogFits
<1>6. NotOverslept'
  <2>1. timer.elapsedUs < timer.periodUs
    BY <1>3, MaxTimeType DEF McuInv, McuTypeOK, Timed, TimeLeft
  <2>2. /\ timer.elapsedUs \in Nat /\ timer.periodUs \in Nat /\ OverflowUs \in Nat
        /\ timer'.elapsedUs \in Nat
    BY <1>4, McuAssumption, MaxTimeType DEF McuInv, McuTypeOK, TimerType
  <2>3. timer'.elapsedUs < timer'.periodUs + OverflowUs
    BY <1>3, <1>4, <2>1, <2>2
  <2>4. QED
    BY <1>4, <2>3, WithinRealTime
<1>7. Timed'
  BY <1>3, <1>4, <1>6 DEF Timed
<1>8. QED
  BY <1>5, <1>7 DEF McuInv

\* What is credited for a deep sleep is whole periods of timer0 that fit.
LEMMA CreditedType ==
    ASSUME NEW delayUs \in Nat
    PROVE  CreditedUs(delayUs) \in Nat /\ CreditedUs(delayUs) <= delayUs
<1>1. /\ (delayUs \div OverflowUs) * OverflowUs <= delayUs
      /\ delayUs \div OverflowUs \in Nat
  BY QuotientBounds, QuotientType, McuAssumption
<1>2. (delayUs \div OverflowUs) * OverflowUs \in Nat
  BY <1>1, McuAssumption
<1>3. QED
  BY <1>1, <1>2 DEF CreditedUs

\* What is left out is less than one period.
LEMMA CreditedFor ==
    ASSUME NEW delayUs \in Nat, inDeepSleep = TRUE
    PROVE  delayUs <= CreditedUs(delayUs) + 1 * OverflowUs
<1>1. /\ delayUs < (delayUs \div OverflowUs) * OverflowUs + OverflowUs
      /\ delayUs \div OverflowUs \in Nat
  BY QuotientBounds, QuotientType, McuAssumption
<1>2. (delayUs \div OverflowUs) * OverflowUs \in Nat /\ OverflowUs \in Nat
  BY <1>1, McuAssumption
<1>3. QED
  BY <1>1, <1>2 DEF CreditedUs

\* The watchdog ends a deep sleep.
LEMMA WatchdogFiresInv == IndInv /\ McuInv /\ WatchdogFires => McuInv'
<1> SUFFICES ASSUME IndInv, McuInv, WatchdogFires PROVE McuInv'
  OBVIOUS
<1> DEFINE us == CreditedUs(watchdog.delayUs)
<1>1. /\ at = "powerdown" /\ at' = "deepWoken" /\ clock' = clock
      /\ Passes(us, watchdog.delayUs, 1)
      /\ UNCHANGED << idled, sleepPeriodUs, watchdog, inDeepSleep, powered >>
  BY DEF WatchdogFires, vars
<1>2. us \in Nat /\ us <= watchdog.delayUs /\ watchdog.delayUs \in Nat
  BY CreditedType DEF McuInv, McuTypeOK
<1>3. /\ timer' \in TimerType /\ timer'.periodUs = timer.periodUs
      /\ timer'.elapsedUs <= timer.elapsedUs + us
      /\ (timer.elapsedUs <= LastUs)' /\ (clock <= TicksNow)' /\ TimeCounted'
  <2>1. inDeepSleep = TRUE
    BY <1>1 DEF McuInv, Timed
  <2>2. watchdog.delayUs <= us + 1 * OverflowUs
    BY <1>2, <2>1, CreditedFor
  <2> HIDE DEF us
  <2>3. QED
    BY <1>1, <1>2, <2>2, TimePasses
<1>4. McuTypeOK' /\ Powers' /\ Searches'
  BY <1>1, <1>3
  DEF McuInv, McuTypeOK, TimerType, Powers, MayBeOff, Searches, WatchdogFits
<1>5. NotOverslept'
  <2>1. /\ timer.elapsedUs < timer.periodUs
        /\ watchdog.delayUs <= timer.periodUs - timer.elapsedUs
    BY <1>1, MaxTimeType DEF McuInv, McuTypeOK, Timed, TimeLeft, Searches
  <2>2. /\ timer.elapsedUs \in Nat /\ timer.periodUs \in Nat /\ OverflowUs \in Nat \ {0}
        /\ timer'.elapsedUs \in Nat
    BY <1>3, McuAssumption, MaxTimeType DEF McuInv, McuTypeOK, TimerType
  <2>3. timer'.elapsedUs < timer'.periodUs + OverflowUs
    BY <1>2, <1>3, <2>1, <2>2
  <2>4. QED
    BY <1>3, <2>3, WithinRealTime
<1>6. Timed'
  BY <1>1, <1>3, <1>5 DEF Timed
<1>7. QED
  BY <1>4, <1>6 DEF McuInv

\* Another interrupt ends it.
LEMMA InterruptEndsDeepSleepInv == McuInv /\ InterruptEndsDeepSleep => McuInv'
<1> SUFFICES ASSUME McuInv, InterruptEndsDeepSleep PROVE McuInv'
  OBVIOUS
<1>1. /\ at = "powerdown" /\ at' = "deepWoken"
      /\ inDeepSleep' \in BOOLEAN
      /\ timer' = [timer EXCEPT !.realUs = 0, !.deepSleeps = 0, !.interrupted = TRUE]
      /\ UNCHANGED << clock, idled, sleepPeriodUs, watchdog, powered >>
  BY DEF InterruptEndsDeepSleep, Interrupt, vars, McuInv, McuTypeOK
<1>2. /\ timer' \in TimerType /\ timer'.interrupted
      /\ timer'.periodUs = timer.periodUs /\ timer'.timeBefore = timer.timeBefore
      /\ timer'.elapsedUs = timer.elapsedUs
  BY <1>1 DEF McuInv, McuTypeOK, TimerType
<1>3. McuTypeOK' /\ Powers' /\ Searches'
  BY <1>1, <1>2
  DEF McuInv, McuTypeOK, TimerType, Powers, MayBeOff, Searches, WatchdogFits
<1>4. Timed'
  BY <1>1, <1>2 DEF McuInv, Timed, NotOverslept, TimeLeft, LastUs, TicksNow, TimeCounted
<1>5. QED
  BY <1>3, <1>4 DEF McuInv

\* The timer and the ticks are natural numbers.
LEMMA TicksNowType == IndInv /\ McuInv => TicksNow \in Nat /\ clock \in 0 .. Horizon
<1> SUFFICES ASSUME IndInv, McuInv PROVE TicksNow \in Nat /\ clock \in 0 .. Horizon
  OBVIOUS
<1>1. timer.elapsedUs \in Nat /\ timer.timeBefore \in Nat
  BY BoundAssumption DEF McuInv, McuTypeOK
<1>2. timer.elapsedUs \div TickUs \in Nat
  BY <1>1, QuotientType, McuAssumption
<1>3. QED
  BY <1>1, <1>2 DEF TicksNow, IndInv

\* The time left is what the timer says, the clock is what the heartbeat makes.
LEMMA GetTimeLeftInv == IndInv /\ McuInv /\ GetTimeLeft => McuInv'
<1> SUFFICES ASSUME IndInv, McuInv, GetTimeLeft PROVE McuInv'
  OBVIOUS
<1>1. /\ at \in {"idleWoken", "deepWoken"} /\ at' = "inner"
      /\ clock' = clock + (TicksNow - clock)
      /\ sleepPeriodUs' = TimeLeft
      /\ UNCHANGED << idled, timer, watchdog >>
      /\ IF at = "deepWoken"
         THEN inDeepSleep' = FALSE /\ powered' = powered \cup DeepPeripherals
         ELSE UNCHANGED << inDeepSleep, powered >>
  BY DEF GetTimeLeft, DeepSleepReturns, Heartbeat, DeepSleepEnablesPeripherals
<1>2. TimeLeft \in 0 .. MaxTime
  BY MaxTimeType DEF McuInv, McuTypeOK, TimeLeft
<1>3. McuTypeOK'
  BY <1>1, <1>2 DEF McuInv, McuTypeOK
<1>4. Powers' /\ Searches'
  BY <1>1 DEF McuInv, Powers, MayBeOff, Searches, WatchdogFits
<1>5. Timed'
  <2>1. clock' = TicksNow /\ TicksNow' = TicksNow
    BY <1>1, TicksNowType, BoundAssumption DEF TicksNow
  <2>2. (clock <= TicksNow)'
    BY <2>1, TicksNowType
  <2>3. /\ (timer.elapsedUs <= LastUs)' /\ NotOverslept' /\ sleepPeriodUs' = TimeLeft'
        /\ TimeCounted'
    BY <1>1 DEF McuInv, Timed, NotOverslept, LastUs, TimeLeft, TimeCounted
  <2>4. QED
    BY <1>1, <2>2, <2>3 DEF Timed
<1>6. QED
  BY <1>3, <1>4, <1>5 DEF McuInv

-----------------------------------------------------------------------------
(* Every step *)

\* Every step keeps what holds of the sleep function.
LEMMA McuStepInv == IndInv /\ McuInv /\ [McuNext]_mcuVars => McuInv'
<1> SUFFICES ASSUME IndInv, McuInv, [McuNext]_mcuVars PROVE McuInv'
  OBVIOUS
<1>1. CASE AwakeStep \/ InterruptAwake
  BY <1>1, AwakeKeepsMcuInv DEF AwakeStep, InterruptAwake
<1>2. CASE EnterSleep \/ SetTimer \/ LeaveInner \/ LeaveSleep
  BY <1>2, EnterSleepInv, SetTimerInv, LeaveInnerInv, LeaveSleepInv
<1>3. CASE IdleSleep \/ DeepSleep \/ SearchPeriod
  BY <1>3, IdleSleepInv, DeepSleepInv, SearchPeriodInv
<1>4. CASE PowerDown \/ InterruptInWindow
  BY <1>4, WindowInv
<1>5. CASE \/ Timer0Wakes \/ InterruptWakes \/ WatchdogFires
           \/ InterruptEndsDeepSleep \/ GetTimeLeft
  BY <1>5, IdleWokenInv, WatchdogFiresInv, InterruptEndsDeepSleepInv, GetTimeLeftInv
<1>6. CASE UNCHANGED mcuVars
  <2>1. UNCHANGED sleepVars /\ clock' = clock
    BY <1>6 DEF mcuVars, vars
  <2>2. McuTypeOK' /\ Powers' /\ Searches'
    BY <2>1 DEF sleepVars, McuInv, McuTypeOK, Powers, MayBeOff, Searches, WatchdogFits
  <2>3. Timed'
    BY <2>1 DEF sleepVars, McuInv, Timed, NotOverslept, TimeLeft, LastUs, TicksNow, TimeCounted
  <2>4. QED
    BY <2>2, <2>3 DEF McuInv
<1>7. QED
  BY <1>1, <1>2, <1>3, <1>4, <1>5, <1>6 DEF McuNext, Program

\* Every step is one of the orchestra, or none for it: the end of a sleep is a
\* heartbeat, the return of the sleep function a WakeUp.
LEMMA McuStepRefines ==
    IndInv /\ McuInv /\ BusyFlagDown /\ [McuNext]_mcuVars => [Next]_vars
<1> SUFFICES ASSUME IndInv, McuInv, BusyFlagDown, [McuNext]_mcuVars
             PROVE  [Next]_vars
  OBVIOUS
<1>1. CASE AwakeStep \/ LeaveSleep
  BY <1>1 DEF AwakeStep, LeaveSleep, MainLoop, Next
<1>2. CASE \/ InterruptAwake \/ InterruptInWindow \/ InterruptWakes
           \/ InterruptEndsDeepSleep
  BY <1>2 DEF InterruptAwake, InterruptInWindow, InterruptWakes,
     InterruptEndsDeepSleep, Next
<1>3. CASE EnterSleep
  BY <1>3 DEF EnterSleep, BusyFlagDown, vars, mainVars
<1>4. CASE \/ SetTimer \/ LeaveInner \/ IdleSleep \/ DeepSleep \/ SearchPeriod
           \/ PowerDown \/ Timer0Wakes \/ WatchdogFires
  BY <1>4 DEF SetTimer, LeaveInner, IdleSleep, DeepSleep, SearchPeriod, PowerDown,
     Timer0Wakes, WatchdogFires
<1>5. CASE GetTimeLeft
  <2>1. at \in {"idleWoken", "deepWoken"} /\ Heartbeat(TicksNow - clock)
    BY <1>5 DEF GetTimeLeft
  <2>2. clock <= TicksNow
    BY <2>1 DEF McuInv, Timed
  <2>3. clock + (TicksNow - clock) <= Horizon
    BY <2>1 DEF Heartbeat
  <2>4. TicksNow - clock \in 0 .. MaxTick
    BY <2>2, <2>3, TicksNowType, BoundAssumption, McuAssumption
  <2>5. QED
    BY <2>1, <2>4 DEF Next
<1>6. CASE UNCHANGED mcuVars
  BY <1>6 DEF mcuVars
<1>7. QED
  BY <1>1, <1>2, <1>3, <1>4, <1>5, <1>6 DEF McuNext, Program

\* The inductive invariant of the orchestra on a micro-controller.
LEMMA McuInvHolds == McuSpec => [](IndInv /\ McuInv /\ BusyFlagDown)
<1>1. McuInit => IndInv /\ McuInv /\ BusyFlagDown
  <2>1. McuInit => Init /\ BusyFlagDown
    BY DEF McuInit, Init, BusyFlagDown
  <2>2. QED
    BY <2>1, McuInitInv, InitIndInv
<1>2. IndInv /\ McuInv /\ BusyFlagDown /\ [McuNext]_mcuVars
          => (IndInv /\ McuInv /\ BusyFlagDown)'
  BY McuStepInv, McuStepRefines, StepIndInv, StepBusyFlagDown
<1>3. QED
  BY <1>1, <1>2, PTL DEF McuSpec

-----------------------------------------------------------------------------
(* Theorems *)

\* _ofsm_enter_sleep, its timer, its watchdog and its peripherals, put in the
\* place of the sleep that Ofsm assumes, give an orchestra of Ofsm: the safety
\* part of ImplementsOrchestra.
THEOREM McuImplementsOfsm == McuSpec => Spec
<1>1. McuInit => Init
  BY DEF McuInit
<1>2. QED
  BY <1>1, McuStepRefines, McuInvHolds, PTL DEF McuSpec, Spec

\* Periods and elapsed times never go below zero or beyond the register, and
\* the search for a watchdog period ends at a mask the chip has.
THEOREM McuTypeCorrect == McuSpec => []McuTypeOK
<1>1. McuInv => McuTypeOK
  BY DEF McuInv
<1>2. QED
  BY <1>1, McuInvHolds, PTL

\* The watchdog period found is the longest that does not exceed the time left.
THEOREM WatchdogAlwaysFits == McuSpec => []WatchdogFits
<1>1. McuInv => WatchdogFits
  BY DEF McuInv, Searches
<1>2. QED
  BY <1>1, McuInvHolds, PTL

\* No sleep goes on for a period of timer0 after its wakeup time, as micros()
\* counts, through any mixture of idle and deep sleeps.  In real time, too, but
\* for less than such a period for each deep sleep, which is what Arduino's clock
\* is not credited with; and only if no interrupt other than the watchdog's ends a
\* deep sleep, since nothing at all is counted for that one (ofsm.h:215).
THEOREM NeverOverslept == McuSpec => []NotOverslept
<1>1. McuInv => NotOverslept
  BY DEF McuInv, Timed
<1>2. QED
  BY <1>1, McuInvHolds, PTL

\* Every peripheral that a sleep turned off is on when the main loop runs.
THEOREM PeripheralsAlwaysBack == McuSpec => []PeripheralsBack
<1>1. McuInv => PeripheralsBack
  BY DEF McuInv, McuTypeOK, Powers, MayBeOff, PeripheralsBack
<1>2. QED
  BY <1>1, McuInvHolds, PTL

-----------------------------------------------------------------------------
(* Sleep does not spin: a loop that sleeps without an event sleeps for a    *)
(* time that is ahead, and not further ahead than the longest delay.        *)

\* No wakeup time, be it an FSM's or one collected, is further from now than
\* the longest delay.
Near(longest) ==
    /\ \A f \in Fsm : fsm[f].wakeup <= clock + longest
    /\ handling.now <= clock /\ handling.effect.delay <= longest
    /\ "INFINITE_SLEEP" \notin loop.flags => loop.earliest <= clock + longest
    /\ "INFINITE_SLEEP" \notin visit.flags => visit.earliest <= clock + longest
    /\ pc = "asleep" /\ "INFINITE_SLEEP" \notin flags => wakeupTime <= clock + longest

\* The loop sleeps for a time that is ahead, or has been told to wake up.
Ahead ==
    /\ pc = "presleep" => NotDueYet
    /\ (/\ pc = "asleep"
        /\ flags \cap {"INFINITE_SLEEP", "EVENT_QUEUED"} = {}) => clock < wakeupTime

\* The sleep timer has been set to something.
TimerSet ==
    /\ at # "out" => pc = "asleep"
    /\ at \notin {"out", "outer"} => timer.periodUs > 0

NearRecord(longest) == {r \in Unwrapped : r.wakeup <= clock + longest}

-----------------------------------------------------------------------------
(* Wakeup times are near *)

\* What was near stays so while time goes on.
LEMMA LaterBounds ==
    ASSUME NEW now \in Nat, NEW later \in Nat, NEW longest \in Nat, now <= later
    PROVE  /\ \A t \in Nat : t <= now + longest => t <= later + longest
           /\ \A t \in Nat : t <= now => t <= later
<1>1. \A t \in Nat : t <= now + longest => t <= later + longest
  OBVIOUS
<1>2. \A t \in Nat : t <= now => t <= later
  OBVIOUS
<1>3. QED
  BY <1>1, <1>2

\* A transition asks for a time that is near.
LEMMA TransitionNear ==
    ASSUME NoWrap, NEW longest \in Nat, DelaysWithin(longest), IndInv, NoneWraps,
           NEW f \in Fsm, NEW s \in State, NEW now \in 0 .. Horizon, now <= clock,
           NEW effect \in Effect, now + effect.delay <= MaxTime,
           effect.delay <= longest
    PROVE  Transition(f, s, now, effect) \in NearRecord(longest)
<1>1. /\ effect.delay \in Nat /\ DefaultDelay \in Nat /\ now \in Nat /\ clock \in Nat
      /\ DefaultDelay <= longest
  BY BoundAssumption, MaxTimeType DEF Effect, IndInv, DelaysWithin
<1>2. Transition(f, s, now, effect) \in Unwrapped
  BY TransitionUnwrapped DEF IndInv, NoneWraps
<1>3. TransitionWakeup(f, s, now, effect) <= clock + longest
  BY <1>1 DEF TransitionWakeup
<1>4. Transition(f, s, now, effect).wakeup = TransitionWakeup(f, s, now, effect)
  BY DEF Transition, IndInv, LocalsOK, FsmRecord
<1>5. QED
  BY <1>2, <1>3, <1>4 DEF NearRecord

\* A turn without a handler leaves a time that is near.
LEMMA ProcessEventNear ==
    ASSUME NoWrap, NEW longest \in Nat, DelaysWithin(longest), IndInv, NoneWraps,
           Near(longest), ProcessEvent
    PROVE  \E newFsm \in NearRecord(longest) : EndTurn(CurrentFsm, newFsm)
<1> DEFINE f == CurrentFsm
<1>1. f \in Fsm /\ fsm[f] \in NearRecord(longest) /\ clock \in 0 .. Horizon
  BY CurrentFsmType DEF IndInv, NoneWraps, Near, NearRecord
<1>2. CASE NoEvent(f) \/ IgnoreEvent(f)
  BY <1>1, <1>2 DEF NoEvent, IgnoreEvent
<1>3. CASE SkipEvent(f)
  <2>1. [fsm[f] EXCEPT !.skipNextEventCode = NoSkip] \in NearRecord(longest)
    BY <1>1 DEF NearRecord, Unwrapped, FsmRecord
  <2>2. QED
    BY <1>3, <2>1 DEF SkipEvent
<1>4. CASE NopTransition(f)
  <2>1. Row(f)[visit.event.code].newState \in State
    BY <1>1, <1>4, FsmAssumption
    DEF NopTransition, Accepts, Row, NearRecord, Unwrapped, FsmRecord
  <2>2. NoEffect.delay = 0 /\ clock + 0 <= MaxTime /\ 0 <= longest /\ clock <= clock
    BY <1>1, MaxTimeType, BoundAssumption DEF NoEffect, NoWrap
  <2>3. Transition(f, Row(f)[visit.event.code].newState, clock, NoEffect)
            \in NearRecord(longest)
    BY <1>1, <2>1, <2>2, NoEffectType, TransitionNear
  <2>4. QED
    BY <1>4, <2>3 DEF NopTransition
<1>5. QED
  BY <1>2, <1>3, <1>4 DEF ProcessEvent

\* So does the return of a handler.
LEMMA HandlerReturnsNear ==
    ASSUME NoWrap, NEW longest \in Nat, DelaysWithin(longest), IndInv, NoneWraps,
           Near(longest), HandlerReturns
    PROVE  \E newFsm \in NearRecord(longest) : EndTurn(CurrentFsm, newFsm)
<1> DEFINE f == CurrentFsm
           newFsm == IF handling.effect.prevent THEN fsm[f]
                     ELSE Transition(f, handling.newState, handling.now,
                                     handling.effect)
<1>1. f \in Fsm /\ fsm[f] \in NearRecord(longest)
  BY CurrentFsmType DEF IndInv, NoneWraps, Near, NearRecord
<1>2. /\ handling.newState \in State /\ handling.now \in 0 .. Horizon
      /\ handling.effect \in Effect /\ handling.now <= clock
      /\ handling.effect.delay <= longest
      /\ handling.now + handling.effect.delay <= MaxTime
  BY DEF IndInv, Near, NoneWraps
<1>3. newFsm \in NearRecord(longest)
  BY <1>1, <1>2, TransitionNear
<1>4. QED
  BY <1>3 DEF HandlerReturns

\* Collecting near times gives a near time.
LEMMA CollectNear ==
    ASSUME NEW acc, NEW fs \in SUBSET CommonFlags, NEW time \in 0 .. MaxTime,
           acc \in VisitRecord \/ acc \in LoopRecord,
           "SCHEDULED_TIME_OVERFLOW" \notin fs, NEW bound \in Nat,
           "INFINITE_SLEEP" \notin acc.flags => acc.earliest <= bound,
           "INFINITE_SLEEP" \notin fs => time <= bound
    PROVE  /\ Collect(acc, fs, time).flags = acc.flags \cap fs
           /\ Collect(acc, fs, time).earliest \in 0 .. MaxTime
           /\ "INFINITE_SLEEP" \notin Collect(acc, fs, time).flags =>
                  Collect(acc, fs, time).earliest <= bound
<1> DEFINE seen == Collect(acc, fs, time)
<1>1. /\ seen.flags = acc.flags \cap fs
      /\ seen.earliest \in 0 .. MaxTime
      /\ "INFINITE_SLEEP" \notin fs => seen.earliest <= time
      /\ "INFINITE_SLEEP" \in fs => seen.earliest = acc.earliest
  BY CollectCovers
<1> HIDE DEF seen
<1>2. "INFINITE_SLEEP" \notin seen.flags => seen.earliest <= bound
  BY <1>1, MaxTimeType
<1>3. QED
  BY <1>1, <1>2 DEF seen

\* What a turn collects is near, in the group and in the loop.
LEMMA EndTurnNear ==
    ASSUME NEW longest \in Nat, IndInv, NoneWraps, Near(longest),
           NEW newFsm \in NearRecord(longest), EndTurn(CurrentFsm, newFsm)
    PROVE  /\ \A f \in Fsm : fsm'[f].wakeup <= clock + longest
           /\ "INFINITE_SLEEP" \notin loop'.flags => loop'.earliest <= clock + longest
           /\ "INFINITE_SLEEP" \notin visit'.flags => visit'.earliest <= clock + longest
           /\ pc' # "asleep" /\ pc' # "presleep"
<1> DEFINE time == Register(newFsm.wakeup)
           seen == Collect(visit, newFsm.flags, time)
           total == Collect(loop, seen.flags, seen.earliest)
<1>1. /\ newFsm.wakeup \in Nat /\ newFsm.wakeup <= MaxTime
      /\ newFsm.wakeup <= clock + longest /\ clock \in Nat
      /\ newFsm.flags \in SUBSET CommonFlags
      /\ "SCHEDULED_TIME_OVERFLOW" \notin newFsm.flags
      /\ visit \in VisitRecord /\ loop \in LoopRecord
  BY BoundAssumption DEF NearRecord, Unwrapped, FsmRecord, IndInv, LocalsOK
<1>2. time = newFsm.wakeup /\ time \in 0 .. MaxTime
  BY <1>1, RegisterKeeps, MaxTimeType
<1>3. clock + longest \in Nat /\ time <= clock + longest
  BY <1>1, <1>2
<1> HIDE DEF time
<1>4. /\ seen.flags = visit.flags \cap newFsm.flags
      /\ seen.earliest \in 0 .. MaxTime
      /\ "INFINITE_SLEEP" \notin seen.flags => seen.earliest <= clock + longest
  BY <1>1, <1>2, <1>3, CollectNear DEF Near
<1>5. /\ seen.flags \in SUBSET CommonFlags
      /\ "SCHEDULED_TIME_OVERFLOW" \notin seen.flags
  BY <1>1, <1>4
<1>6. "INFINITE_SLEEP" \notin total.flags => total.earliest <= clock + longest
  <2> HIDE DEF seen
  <2>1. QED
    BY <1>1, <1>3, <1>4, <1>5, CollectNear DEF Near
<1>7. seen \in VisitRecord /\ total \in LoopRecord
  <2>1. seen \in VisitRecord
    BY <1>1, <1>2, CollectVisit
  <2> HIDE DEF seen
  <2>2. QED
    BY <1>1, <1>4, <1>5, <2>1, CollectLoop
<1>8. fsm' = [fsm EXCEPT ![CurrentFsm] = newFsm]
  BY DEF EndTurn
<1>9. \A f \in Fsm : fsm'[f].wakeup <= clock + longest
  BY <1>1, <1>8 DEF Near, IndInv, LocalsOK
<1>10. CASE visit.fsmIndex # Len(GroupFsms[loop.group])
  <2>1. /\ pc' = "fsm" /\ loop' = loop
        /\ visit' = [seen EXCEPT !.fsmIndex = seen.fsmIndex + 1]
    BY <1>10 DEF EndTurn, time
  <2> HIDE DEF seen
  <2>2. visit'.flags = seen.flags /\ visit'.earliest = seen.earliest
    BY <1>7, <2>1 DEF VisitRecord
  <2>3. QED
    BY <1>4, <1>9, <2>1, <2>2 DEF Near
<1>11. CASE visit.fsmIndex = Len(GroupFsms[loop.group])
  <2>1. /\ visit' = NoVisit /\ pc' \in {"dequeue", "decide"}
        /\ loop' = total \/ loop' = [total EXCEPT !.group = total.group + 1]
    BY <1>11 DEF EndTurn, time
  <2> HIDE DEF total
  <2>2. loop'.flags = total.flags /\ loop'.earliest = total.earliest
    BY <1>7, <2>1 DEF LoopRecord
  <2>3. "INFINITE_SLEEP" \in NoVisit.flags
    BY DEF NoVisit, CommonFlags
  <2>4. QED
    BY <1>6, <1>9, <2>1, <2>2, <2>3
<1>12. QED
  BY <1>10, <1>11

\* Every step of the orchestra leaves near times.
LEMMA StepNear ==
    ASSUME NoWrap, NEW longest \in Nat, DelaysWithin(longest), CoverInv,
           Near(longest), [Next]_vars
    PROVE  Near(longest)'
<1>1. /\ IndInv /\ NoneWraps /\ clock \in Nat /\ clock' \in Nat
      /\ fsm \in [Fsm -> FsmRecord] /\ loop \in LoopRecord /\ visit \in VisitRecord
  <2>1. IndInv /\ IndInv' /\ NoneWraps
    BY StepIndInv DEF CoverInv
  <2>2. clock \in Nat /\ clock' \in Nat /\ LocalsOK
    BY <2>1, BoundAssumption DEF IndInv
  <2>3. QED
    BY <2>1, <2>2 DEF LocalsOK
<1>2. /\ "INFINITE_SLEEP" \in NoVisit.flags
      /\ "INFINITE_SLEEP" \in FreshLoop(1).flags
      /\ Idle.now = 0 /\ Idle.effect.delay = 0
  BY DEF NoVisit, FreshLoop, CommonFlags, Idle, NoEffect
<1>3. CASE ProcessEvent
  <2>1. PICK newFsm \in NearRecord(longest) : EndTurn(CurrentFsm, newFsm)
    BY <1>1, <1>3, ProcessEventNear
  <2>2. UNCHANGED << clock, handling, flags, wakeupTime >>
    BY <1>3 DEF ProcessEvent
  <2>3. QED
    BY <1>1, <2>1, <2>2, EndTurnNear DEF Near
<1>4. CASE HandlerReturns
  <2>1. PICK newFsm \in NearRecord(longest) : EndTurn(CurrentFsm, newFsm)
    BY <1>1, <1>4, HandlerReturnsNear
  <2>2. UNCHANGED << clock, flags, wakeupTime >> /\ handling' = Idle
    BY <1>4 DEF HandlerReturns
  <2>3. QED
    BY <1>1, <1>2, <2>1, <2>2, EndTurnNear DEF Near
<1>5. CASE CallHandler
  <2> DEFINE t == Row(CurrentFsm)[visit.event.code]
  <2>1. CurrentFsm \in Fsm
    BY <1>1, CurrentFsmType DEF IndInv
  <2>2. /\ visit.event.code \in DOMAIN Row(CurrentFsm)
        /\ t.eventHandler \notin {NullHandler, NopHandler}
    BY <1>5 DEF CallHandler, Accepts
  <2>3. PICK effect \in Effects[t.eventHandler] :
           handling' = [newState |-> t.newState, now |-> clock, effect |-> effect]
    BY <1>5 DEF CallHandler
  <2>4. effect.delay <= longest
    BY <1>1, <2>1, <2>2, <2>3 DEF DelaysWithin, Row, FsmRecord
  <2>5. handling'.now <= clock /\ handling'.effect.delay <= longest
    BY <1>1, <2>3, <2>4
  <2>6. pc' = "handler" /\ UNCHANGED << fsm, loop, visit, clock >>
    BY <1>5 DEF CallHandler
  <2>7. QED
    BY <2>5, <2>6 DEF Near
<1>6. CASE HandlerQueues
  <2>1. handling'.now = handling.now /\ handling'.effect.delay = handling.effect.delay
    BY <1>1, <1>6 DEF HandlerQueues, IndInv, Effect
  <2>2. \A f \in Fsm : fsm'[f].wakeup = fsm[f].wakeup
    <3>1. \/ UNCHANGED fsm
          \/ \E code : fsm' = [fsm EXCEPT ![CurrentFsm].skipNextEventCode = code]
      BY <1>6 DEF HandlerQueues
    <3>2. QED
      BY <1>1, <3>1 DEF FsmRecord
  <2>3. pc' = "handler" /\ UNCHANGED << loop, visit, clock >>
    BY <1>6 DEF HandlerQueues
  <2>4. QED
    BY <2>1, <2>2, <2>3 DEF Near
<1>7. CASE StartPass \/ WakeUp
  BY <1>2, <1>7 DEF StartPass, WakeUp, Near
<1>8. CASE DequeueEvent
  <2>1. /\ pc' = "fsm" /\ UNCHANGED << fsm, loop, handling, clock >>
        /\ \/ visit' = NoVisit
           \/ \E e : visit' = [NoVisit EXCEPT !.pending = TRUE, !.event = e]
    BY <1>8 DEF DequeueEvent
  <2>2. \A e : LET v == [NoVisit EXCEPT !.pending = TRUE, !.event = e]
               IN  v.flags = NoVisit.flags
    BY DEF NoVisit
  <2>3. QED
    BY <1>2, <2>1, <2>2 DEF Near
<1>9. CASE Decide
  <2>1. /\ pc' # "asleep" /\ UNCHANGED << fsm, visit, handling, clock >>
        /\ loop' = loop \/ loop' = FreshLoop(1)
    BY <1>9 DEF Decide
  <2>2. QED
    BY <1>2, <2>1 DEF Near
<1>10. CASE QueueTimeout
  <2>1. /\ pc' # "asleep" /\ UNCHANGED << fsm, visit, handling, clock >>
        /\ loop' = FreshLoop(1) \/ loop' = [loop EXCEPT !.group = loop.group + 1]
    BY <1>10 DEF QueueTimeout
  <2>2. CASE loop' = [loop EXCEPT !.group = loop.group + 1]
    <3>1. loop'.flags = loop.flags /\ loop'.earliest = loop.earliest
      BY <1>1, <2>2 DEF LoopRecord
    <3>2. QED
      BY <2>1, <3>1 DEF Near
  <2>3. QED
    BY <1>2, <2>1, <2>2 DEF Near
<1>11. CASE PrepareSleep
  <2>1. /\ UNCHANGED << fsm, visit, handling, clock >> /\ loop' = FreshLoop(1)
        /\ wakeupTime' = loop.earliest
    BY <1>11 DEF PrepareSleep
  <2>2. "INFINITE_SLEEP" \notin flags' => "INFINITE_SLEEP" \notin loop.flags
    BY <1>11 DEF PrepareSleep, ClearedForSleep
  <2>3. QED
    BY <1>2, <2>1, <2>2 DEF Near
<1>12. CASE Interrupt
  <2>1. flags \subseteq flags'
    BY <1>12 DEF Interrupt, QueueGroupEvent, Raise
  <2>2. QED
    BY <1>12, <2>1 DEF Interrupt, Near
<1>13. CASE \E ticks \in 0 .. MaxTick : Heartbeat(ticks)
  <2>1. PICK ticks \in 0 .. MaxTick : Heartbeat(ticks)
    BY <1>13
  <2>2. clock <= clock' /\ UNCHANGED << fsm, wakeupTime, pc, loop, visit, handling >>
    BY <1>1, <2>1, BoundAssumption DEF Heartbeat
  <2>3. flags \subseteq flags'
    BY <2>1 DEF Heartbeat, QueueGlobalTimeout, Raise
  <2>4. /\ \A f \in Fsm : fsm[f].wakeup \in Nat
        /\ handling.now \in Nat
        /\ loop.earliest \in Nat /\ visit.earliest \in Nat /\ wakeupTime \in Nat
    <3>1. \A f \in Fsm : fsm[f].wakeup \in Nat
      BY <1>1 DEF FsmRecord
    <3>2. handling.now \in Nat /\ wakeupTime \in Nat
      BY <1>1, BoundAssumption, MaxTimeType DEF IndInv
    <3>3. loop.earliest \in Nat /\ visit.earliest \in Nat
      BY <1>1, MaxTimeType DEF LoopRecord, VisitRecord
    <3>4. QED
      BY <3>1, <3>2, <3>3
  <2>5. longest \in Nat /\ clock \in Nat /\ clock' \in Nat /\ clock <= clock'
    BY <1>1, <2>2
  <2>6. /\ \A t \in Nat : t <= clock + longest => t <= clock' + longest
        /\ \A t \in Nat : t <= clock => t <= clock'
    BY <2>5, LaterBounds
  <2>7. QED
    BY <2>2, <2>3, <2>4, <2>5, <2>6 DEF Near
<1>14. CASE UNCHANGED vars
  BY <1>14 DEF vars, mainVars, Near
<1>15. QED
  BY <1>3, <1>4, <1>5, <1>6, <1>7, <1>8, <1>9, <1>10, <1>11, <1>12, <1>13, <1>14
  DEF Next, MainLoop

-----------------------------------------------------------------------------
(* The loop sleeps for a time that is ahead *)

\* Only the decision to rest leads to the atomic block before sleep.
LEMMA OnlyDecideRests ==
    ASSUME MainLoop, pc' = "presleep"
    PROVE  Decide
<1>1. CASE ProcessEvent \/ HandlerReturns
  <2>1. \E f, newFsm : EndTurn(f, newFsm)
    BY <1>1 DEF ProcessEvent, HandlerReturns, NoEvent, SkipEvent, IgnoreEvent,
       NopTransition
  <2>2. QED
    BY <2>1 DEF EndTurn
<1>2. CASE \/ StartPass \/ DequeueEvent \/ CallHandler \/ HandlerQueues
           \/ QueueTimeout \/ PrepareSleep \/ WakeUp
  BY <1>2 DEF StartPass, DequeueEvent, CallHandler, HandlerQueues,
     QueueTimeout, PrepareSleep, WakeUp
<1>3. QED
  BY <1>1, <1>2 DEF MainLoop

\* A step of the main loop goes to sleep for a time that is ahead.
LEMMA MainLoopAhead ==
    ASSUME NoWrap, CoverInv, Ahead, MainLoop
    PROVE  Ahead'
<1>1. CASE Decide
  BY <1>1, DecidesToRest DEF Decide, Ahead
<1>2. CASE PrepareSleep
  <2>1. /\ pc = "presleep" /\ pc' = "asleep" /\ clock' = clock
        /\ wakeupTime' = loop.earliest
    BY <1>2 DEF PrepareSleep
  <2>2. "INFINITE_SLEEP" \notin flags' => "INFINITE_SLEEP" \notin loop.flags
    BY <1>2 DEF PrepareSleep, ClearedForSleep
  <2>3. QED
    BY <2>1, <2>2 DEF Ahead, NotDueYet
<1>3. CASE ~Decide /\ ~PrepareSleep
  <2>1. pc' # "presleep"
    BY <1>3, OnlyDecideRests
  <2>2. pc' = "asleep" => pc = "asleep"
    BY <1>3, FallsAsleep DEF Next
  <2>3. pc = "asleep" => WakeUp
    <3>1. CASE ProcessEvent \/ HandlerReturns
      BY <3>1 DEF ProcessEvent, HandlerReturns
    <3>2. CASE \/ StartPass \/ DequeueEvent \/ CallHandler \/ HandlerQueues
               \/ QueueTimeout \/ WakeUp
      BY <3>2 DEF StartPass, DequeueEvent, CallHandler, HandlerQueues, QueueTimeout
    <3>3. QED
      BY <1>3, <3>1, <3>2 DEF MainLoop
  <2>4. pc' # "asleep"
    BY <2>2, <2>3 DEF WakeUp
  <2>5. QED
    BY <2>1, <2>4 DEF Ahead
<1>4. QED
  BY <1>1, <1>2, <1>3

\* An interrupt can only wake the loop.
LEMMA InterruptAhead ==
    ASSUME Ahead, Interrupt
    PROVE  Ahead'
<1>1. flags \subseteq flags' /\ UNCHANGED << wakeupTime, clock, pc, loop >>
  BY DEF Interrupt, QueueGroupEvent, Raise
<1>2. QED
  BY <1>1 DEF Ahead, NotDueYet

\* A heartbeat that reaches the time the loop sleeps for wakes the loop.
LEMMA HeartbeatAhead ==
    ASSUME NoWrap, IndInv, IndInv', NotBeyond, BusyFlagDown,
           pc = "asleep", NEW ticks, Heartbeat(ticks)
    PROVE  Ahead'
<1> DEFINE wrapped == Register(clock') < Register(clock)
           fs == IF wrapped THEN flags \cup {"TIMER_OVERFLOW"} ELSE flags
<1>1. UNCHANGED << wakeupTime, pc >>
  BY DEF Heartbeat
<1>2. SUFFICES ASSUME "INFINITE_SLEEP" \notin flags', "EVENT_QUEUED" \notin flags'
               PROVE  clock' < wakeupTime
  BY <1>1 DEF Ahead
<1>3. flags \subseteq flags'
  BY DEF Heartbeat, QueueGlobalTimeout, Raise
<1>4. fs \cap {"IN_PROCESS", "INFINITE_SLEEP"} = {} /\ flags \subseteq fs
  BY <1>2, <1>3 DEF BusyFlagDown
<1>5. clock' \in Nat /\ wakeupTime \in Nat /\ Register(clock') = clock'
  <2>1. clock' \in Nat /\ clock' <= MaxTime /\ wakeupTime \in Nat
    BY BoundAssumption, MaxTimeType DEF IndInv, NoWrap
  <2>2. QED
    BY <2>1, RegisterKeeps
<1>6. ~_OFSM_TIME_A_GTE_B(Register(clock'), "TIMER_OVERFLOW" \in fs,
                          wakeupTime, "SCHEDULED_TIME_OVERFLOW" \in fs)
  <2>1. ~QueueGlobalTimeout(fs)
    BY <1>2, <1>4, TimeoutIsSignalled
  <2>2. QED
    BY <1>4, <2>1 DEF Heartbeat
<1>7. "SCHEDULED_TIME_OVERFLOW" \notin fs
  BY DEF NotBeyond
<1>8. QED
  BY <1>5, <1>6, <1>7 DEF _OFSM_TIME_A_GTE_B

\* Every step on a micro-controller leaves a time that is ahead.
LEMMA StepAhead ==
    ASSUME NoWrap, CoverInv, IndInv', NotBeyond, BusyFlagDown, TimerSet, Ahead,
           [McuNext]_mcuVars
    PROVE  Ahead'
<1>1. CASE AwakeStep \/ LeaveSleep
  BY <1>1, MainLoopAhead DEF AwakeStep, LeaveSleep, MainLoop
<1>2. CASE GetTimeLeft
  <2>1. pc = "asleep" /\ Heartbeat(TicksNow - clock)
    BY <1>2 DEF GetTimeLeft, TimerSet
  <2>2. QED
    BY <2>1, HeartbeatAhead DEF CoverInv
<1>3. CASE \/ InterruptAwake \/ InterruptInWindow \/ InterruptWakes
           \/ InterruptEndsDeepSleep
  <2>1. Interrupt \/ UNCHANGED vars
    BY <1>3 DEF InterruptAwake, InterruptInWindow, InterruptWakes,
       InterruptEndsDeepSleep
  <2>2. QED
    BY <2>1, InterruptAhead DEF vars, mainVars, Ahead, NotDueYet
<1>4. CASE EnterSleep
  BY <1>4 DEF EnterSleep, Ahead, NotDueYet
<1>5. CASE \/ SetTimer \/ LeaveInner \/ IdleSleep \/ DeepSleep \/ SearchPeriod
           \/ PowerDown \/ Timer0Wakes \/ WatchdogFires \/ UNCHANGED mcuVars
  <2>1. UNCHANGED vars
    BY <1>5 DEF SetTimer, LeaveInner, IdleSleep, DeepSleep, SearchPeriod, PowerDown,
       Timer0Wakes, WatchdogFires, mcuVars
  <2>2. QED
    BY <2>1 DEF vars, mainVars, Ahead, NotDueYet
<1>6. QED
  BY <1>1, <1>2, <1>3, <1>4, <1>5 DEF McuNext, Program

-----------------------------------------------------------------------------
(* The sleep timer is set *)

\* The difference of two times in unsigned arithmetic.
LEMMA UnsignedDifference ==
    ASSUME NEW now \in Nat, NEW d \in Nat, d <= MaxTime
    PROVE  Register((now + d) + Modulus - now) = d
<1>1. Modulus \in Nat \ {0} /\ d < Modulus
  BY ModulusAssumption DEF MaxTime
<1>2. (now + d) + Modulus - now = d + Modulus
  BY <1>1
<1>3. (d + Modulus) % Modulus = d
  <2> DEFINE q == (d + Modulus) \div Modulus
             r == (d + Modulus) % Modulus
  <2>1. d + Modulus \in Nat /\ q \in Nat
    BY <1>1, QuotientType
  <2>2. r \in 0 .. Modulus - 1 /\ d + Modulus = Modulus * q + r
    BY <1>1
  <2> HIDE DEF q, r
  <2>3. q * Modulus <= d + Modulus /\ d + Modulus < q * Modulus + Modulus
    BY <1>1, <2>1, <2>2
  <2>4. q = 1
    <3>1. ASSUME q < 1 PROVE FALSE
      BY <1>1, <2>1, <2>3, <3>1
    <3>2. ASSUME 1 < q PROVE FALSE
      <4>1. 1 * Modulus + Modulus <= q * Modulus
        BY <1>1, <2>1, <3>2, MultiplesApart
      <4>2. QED
        BY <1>1, <2>1, <2>3, <4>1
    <3>3. QED
      BY <2>1, <3>1, <3>2
  <2>5. r = d
    BY <1>1, <2>1, <2>2, <2>4
  <2>6. QED
    BY <2>5 DEF r
<1>4. QED
  BY <1>2, <1>3 DEF Register

\* Whoever sleeps without an event sleeps for at least a tick, and the period is
\* a number of microseconds that the register can hold.
LEMMA PeriodIsSet ==
    ASSUME NoWrap, PeriodsFit, NEW longest \in 0 .. MaxTime, FarTicks <= longest,
           longest * TickUs <= MaxTime, IndInv, Near(longest), Ahead,
           pc = "asleep", ~EventQueued
    PROVE  TimerPeriod > 0
<1>1. /\ clock \in Nat /\ clock <= Horizon /\ clock <= MaxTime
      /\ Horizon \in Nat /\ MaxTime \in Nat /\ longest \in Nat
      /\ FarTicks \in Nat /\ wakeupTime \in Nat /\ TickUs \in Nat \ {0}
  BY BoundAssumption, McuAssumption, MaxTimeType DEF IndInv, NoWrap
<1>2. Register(clock) = clock
  BY <1>1, RegisterKeeps
<1>3. PICK d \in Nat : d > 0 /\ d <= longest /\ SleepsUntil = clock + d
  <2>1. CASE "INFINITE_SLEEP" \in flags
    <3>1. FarTicks > 0 /\ clock + FarTicks \in Nat /\ clock + FarTicks <= MaxTime
      BY <1>1 DEF PeriodsFit
    <3>2. SleepsUntil = clock + FarTicks
      BY <2>1, <3>1, RegisterKeeps DEF SleepsUntil
    <3>3. QED
      BY <1>1, <3>1, <3>2
  <2>2. CASE "INFINITE_SLEEP" \notin flags
    <3>1. clock < wakeupTime
      BY <2>2 DEF Ahead, EventQueued
    <3>2. wakeupTime <= clock + longest /\ SleepsUntil = wakeupTime
      BY <2>2 DEF Near, SleepsUntil
    <3>3. wakeupTime - clock \in Nat /\ wakeupTime - clock > 0
          /\ wakeupTime - clock <= longest
          /\ wakeupTime = clock + (wakeupTime - clock)
      BY <1>1, <3>1, <3>2
    <3>4. QED
      BY <3>2, <3>3
  <2>3. QED
    BY <2>1, <2>2
<1>4. Register(SleepsUntil + Modulus - Register(clock)) = d
  BY <1>1, <1>2, <1>3, UnsignedDifference
<1>5. d * TickUs \in Nat /\ d * TickUs <= longest * TickUs /\ d * TickUs > 0
  <2>1. d * TickUs \in Nat /\ longest * TickUs \in Nat
    BY <1>1
  <2>2. d = longest \/ d * TickUs + TickUs <= longest * TickUs
    BY <1>1, <1>3, MultiplesApart
  <2>3. 0 * TickUs + TickUs <= d * TickUs
    BY <1>1, <1>3, MultiplesApart
  <2>4. QED
    BY <1>1, <2>1, <2>2, <2>3
<1>6. TimerPeriod = d * TickUs
  <2>1. d * TickUs <= MaxTime
    BY <1>1, <1>5
  <2>2. QED
    BY <1>4, <1>5, <2>1, RegisterKeeps DEF TimerPeriod
<1>7. QED
  BY <1>5, <1>6

\* Every step leaves the timer set while the sleep function sleeps.
LEMMA StepTimerSet ==
    ASSUME NoWrap, PeriodsFit, NEW longest \in 0 .. MaxTime, FarTicks <= longest,
           longest * TickUs <= MaxTime, IndInv, Near(longest), Ahead, TimerSet,
           [McuNext]_mcuVars
    PROVE  TimerSet'
<1>1. CASE AwakeStep \/ InterruptAwake
  BY <1>1 DEF AwakeStep, InterruptAwake, sleepVars, TimerSet
<1>2. CASE EnterSleep \/ LeaveSleep
  BY <1>2 DEF EnterSleep, LeaveSleep, TimerSet
<1>3. CASE SetTimer
  <2>1. pc = "asleep" /\ pc' = pc /\ ~EventQueued /\ timer'.periodUs = TimerPeriod
    BY <1>3 DEF SetTimer, TimerFrom, TimerSet, vars, mainVars
  <2>2. TimerPeriod > 0
    BY <2>1, PeriodIsSet
  <2>3. QED
    BY <2>1, <2>2 DEF TimerSet
<1>4. CASE \/ LeaveInner \/ IdleSleep \/ DeepSleep \/ SearchPeriod \/ PowerDown
           \/ InterruptInWindow \/ GetTimeLeft \/ UNCHANGED mcuVars
  <2>1. UNCHANGED << pc, timer >>
    BY <1>4 DEF LeaveInner, IdleSleep, DeepSleep, SearchPeriod, PowerDown,
       InterruptInWindow, GetTimeLeft, Interrupt, Heartbeat,
       mcuVars, sleepVars, vars, mainVars
  <2>2. \/ at \notin {"out", "outer"}
        \/ at' = at
    BY <1>4 DEF LeaveInner, IdleSleep, DeepSleep, SearchPeriod, PowerDown,
       InterruptInWindow, GetTimeLeft, mcuVars, sleepVars
  <2>3. QED
    BY <2>1, <2>2 DEF TimerSet
<1>5. CASE Timer0Wakes \/ InterruptWakes \/ WatchdogFires \/ InterruptEndsDeepSleep
  <2>1. /\ at \notin {"out", "outer"} /\ pc' = pc
    BY <1>5 DEF Timer0Wakes, InterruptWakes, WatchdogFires, InterruptEndsDeepSleep,
       WokenFromIdle, Interrupt, vars, mainVars
  <2>2. timer'.periodUs = timer.periodUs
    <3>1. CASE Timer0Wakes \/ InterruptWakes \/ WatchdogFires
      <4>1. \E counted, us, n : Passes(counted, us, n)
        BY <3>1 DEF Timer0Wakes, InterruptWakes, WatchdogFires, WokenFromIdle
      <4>2. QED
        BY <4>1 DEF Passes
    <3>2. CASE InterruptEndsDeepSleep
      BY <3>2 DEF InterruptEndsDeepSleep
    <3>3. QED
      BY <1>5, <3>1, <3>2
  <2>3. QED
    BY <2>1, <2>2 DEF TimerSet
<1>6. QED
  BY <1>1, <1>2, <1>3, <1>4, <1>5 DEF McuNext, Program

-----------------------------------------------------------------------------
(* Theorem *)

\* As long as time does not wrap and every delay fits the register as a number
\* of microseconds, the sleep function never finds a period of zero while no
\* event is queued: the outer loop of _ofsm_enter_sleep does not spin with
\* interrupts shut out.
THEOREM SleepNeverSpins ==
    ASSUME NoWrap, PeriodsFit
    PROVE  McuSpec => []NeverSpins
<1>1. PICK longest \in 0 .. MaxTime :
          /\ DelaysWithin(longest)
          /\ FarTicks <= longest
          /\ longest * TickUs <= MaxTime
  BY DEF PeriodsFit
<1> DEFINE Inv == /\ IndInv /\ McuInv /\ BusyFlagDown
                  /\ CoverInv /\ NotBeyond
                  /\ Near(longest) /\ Ahead /\ TimerSet
<1>2. longest \in Nat
  BY <1>1, MaxTimeType
<1>3. McuInit => Inv
  <2> SUFFICES ASSUME McuInit PROVE Inv
    OBVIOUS
  <2>1. Init
    BY DEF McuInit
  <2>2. IndInv /\ McuInv /\ CoverInv
    BY <2>1, InitIndInv, McuInitInv, InitCoverInv
  <2>3. BusyFlagDown /\ NotBeyond /\ Ahead /\ TimerSet
    BY <2>1 DEF Init, McuInit, BusyFlagDown, NotBeyond, Ahead, TimerSet
  <2>4. Near(longest)
    BY <1>2, <2>1
    DEF Init, Near, FreshLoop, NoVisit, CommonFlags, Idle, NoEffect
  <2>5. QED
    BY <2>2, <2>3, <2>4
<1>4. Inv /\ [McuNext]_mcuVars => Inv'
  <2> SUFFICES ASSUME Inv, [McuNext]_mcuVars PROVE Inv'
    OBVIOUS
  <2>1. [Next]_vars
    BY McuStepRefines
  <2>2. IndInv' /\ McuInv' /\ BusyFlagDown' /\ NotBeyond'
    BY <2>1, StepIndInv, McuStepInv, StepBusyFlagDown, StepNotBeyond
  <2>3. CoverInv'
    BY <2>1, StepIndInv, StepAgrees, StepNoneWraps, StepCovers DEF CoverInv
  <2>4. Near(longest)'
    BY <1>1, <1>2, <2>1, StepNear
  <2>5. Ahead'
    BY <2>2, StepAhead
  <2>6. TimerSet'
    BY <1>1, StepTimerSet
  <2>7. QED
    BY <2>2, <2>3, <2>4, <2>5, <2>6
<1>5. Inv => NeverSpins
  <2> SUFFICES ASSUME Inv, at = "inner", timer.elapsedUs = 0 PROVE sleepPeriodUs > 0
    BY DEF NeverSpins
  <2>1. timer.periodUs > 0 /\ sleepPeriodUs = TimeLeft
    BY DEF TimerSet, McuInv, Timed
  <2>2. timer.periodUs \in 0 .. MaxTime
    BY DEF McuInv, McuTypeOK
  <2>3. QED
    BY <2>1, <2>2, MaxTimeType DEF TimeLeft
<1> HIDE DEF Inv
<1>6. QED
  BY <1>3, <1>4, <1>5, PTL DEF McuSpec
=============================================================================
