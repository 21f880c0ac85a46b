# OFSM: a verification project

OFSM ("orchestrated" finite state machines) is a C/C++ macro library for
micro-controllers, with a simulation mode for PCs. An application declares FSMs
(transition tables of event handlers), puts them into groups that share an event
queue, and hands control to a main loop that processes queued events and
timeouts and otherwise sleeps. Interrupt handlers queue events at any moment; a
heartbeat advances time.

This directory holds TLA+ modules translated from `src/src/ofsm.impl.h` (called
*impl* below) and `src/src/ofsm.decl.h` (*decl*), TLC configurations that check
them on small instances, and TLAPS proofs that hold for every instance. The
comment block of `src/src/ofsm.h` is the documentation the code is held against.

## 1. Inventory

| Component | State | Operations | Talks to |
|---|---|---|---|
| Group event queue | `eventQueue[]`, `nextEventIndex`, `currentEventIndex`, `BUFFER_OVERFLOW` | `_ofsm_queue_group_event`, the dequeuing block of `_ofsm_group_process_pending_event` | raises `EVENT_QUEUED` |
| FSM | `flags`, `wakeupTime`, `currentState`, `skipNextEventCode` | `_ofsm_fsm_process_event`; the `fsm_...` macros that handlers call | calls handlers, which queue events |
| Main loop | `_ofsmFlags`, `_ofsmWakeupTime`, locals of `_ofsm_start` | passes over groups and FSMs, timeout check, preparation of sleep | dequeues, calls the sleep function |
| Time | `_ofsmTime`, `TIMER_OVERFLOW`, `SCHEDULED_TIME_OVERFLOW` | `ofsm_heartbeat`, `_ofsm_check_timeout`, comparison macros | queues a global TIMEOUT |
| Public queueing API | none | `ofsm_queue_group_event`, `ofsm_queue_global_event` | the queues; called by interrupts, handlers, `loop()`, the heartbeat |
| Initialisation | declared globals | `OFSM_DECLARE_...`, `OFSM_SETUP`, initialization handlers | everything above |
| MCU sleep | `_ofsmTimerStartTimeUs`, `_ofsmSleepPeriodUs`, watchdog delay, `IN_DEEP_SLEEP` | `_ofsm_enter_sleep`, sleep timer, idle and deep sleep, watchdog vector | calls the heartbeat, returns on `EVENT_QUEUED` |
| Interactive simulation | mutex, condition variable, `SIMULATION_EXIT`, threads | `_ofsm_simulation_enter_sleep/_wakeup`, threads, exit and reset in `main` | the library from three threads |
| Script mode | script position | event generator, status report, asserts | calls the library synchronously |
| Examples | their transition tables | handlers of ofsmBlink, ofsmIntersection, tomatoGarden | the `fsm_...` API |

Interaction is by shared variables and atomic blocks (interrupts off on an MCU, a
recursive mutex in simulation), never by return values: a caller that queues an
event learns nothing, and the loop learns of it only through `EVENT_QUEUED`.

What is hard here:

* **Interleaving.** A queueing call can come between any two atomic blocks of the
  loop: behind the loop's back in a group already visited, between its last look
  at `EVENT_QUEUED` and its going to sleep, between two queueing calls of a handler.
* **Signals that are not counted.** `EVENT_QUEUED` is lowered at the head of a
  pass and raised again by whoever leaves something to do. Compression does not
  raise it; it has to be up already.
* **A bounded buffer with two indices and a flag**, with compression of the
  youngest event, and everything that happens at the wrap of an index.
* **Stale time.** Time moves while the loop is in process and heartbeats are told
  not to look; what the loop missed must be found by the first heartbeat of sleep.
* **Wrap of the time register**, for which the code keeps one overflow flag per
  side of a comparison.
* **A sleep made of sleeps.** On an MCU one call of the sleep function goes through
  idle and deep sleeps, interrupts that queue nothing, a window of two microseconds and
  two ways of counting time before it may return.
* **Steps on demand.** In script mode the loop returns instead of sleeping, and events and
  time pile up between two calls of it.
* **Aggregation.** One wakeup time and one set of flags stand for all FSMs of all
  groups, collected FSM by FSM while they change, some of them twice in a pass
  because groups can share FSMs.

What makes each component correct:

* queue: it is a bounded FIFO with overwriting of the youngest; no event is
  disturbed, lost below capacity, or left behind;
* signal: a pending event is always either in front of the loop or signalled;
* FSM: TIMEOUT reaches it when its delay is over, not before, not in infinite sleep;
  an event it excluded itself from does not reach it;
* loop: what it sleeps with covers every FSM; deep sleep needs everybody's consent;
* time: a due FSM is found by a heartbeat, and served in the end;
* MCU sleep: it returns for an event and only then, does not pass its wakeup time by a timer
  period as far as time is counted (the time of a deep sleep that an interrupt ends is lost,
  `ofsm.h:215-216`), does not spin, and leaves every peripheral on;
* script mode: a step returns, and leaves nothing that another step would do;
* ofsmIntersection: never two green lights, roads that take turns, a button that is armed
  exactly in traffic mode.

`PROJECT.json` lists every component with what is modelled of it, and under
"hazards" the places in the code that are hard to test.

## 2. Modules

| Module | Models | Composes |
|---|---|---|
| `OfsmRing` | the queue of a group as values and operators (no variables) | |
| `OfsmTime` | the tick register and the two comparison macros | |
| `OfsmFifo` | abstract: what `ofsm.h` promises of a queue, strong (`Spec`) and weak (`WeakSpec`) | |
| `OfsmQueue` | one queue, its callers, the loop seen from the queue | `OfsmRing`, refines `OfsmFifo` |
| `Ofsm` | the orchestra: loop, groups, FSMs, handlers, interrupts, heartbeat | `OfsmRing`, `OfsmTime`; each queue against `OfsmFifo` |
| `OfsmSim` | the interactive simulation: FSM, heartbeat and main threads, condition variable, exit and reset | `OfsmRing` |
| `OfsmAtomic` | the simulation's ATOMIC_BLOCK macro, statement by statement | |
| `OfsmMcu` | the sleep function of a micro-controller inside: timers, watchdog, interrupts | `Ofsm`, and implements it |
| `OfsmScript` | script mode: the orchestra stepped by commands | `Ofsm` |
| `OfsmIntersection` | the example application: tables, handlers, button | `Ofsm` with its constants assumed |
| `MC_OfsmQueue`, `MC_Ofsm`, `MC_OfsmSim`, `MC_OfsmAtomic`, `MC_OfsmMcu`, `MC_OfsmScript`, `MC_OfsmIntersection` | instances for TLC | |
| `OfsmRing_proofs`, `OfsmQueue_proofs`, `Ofsm_proofs`, `OfsmWakeup_proofs` (of `Ofsm`), `OfsmMcu_proofs`, `OfsmScript_proofs`, `OfsmSim_proofs`, `OfsmIntersection_proofs` | lemmas and theorems | the module of that name |

Operators named `X_something` before a definition `X` are plausible faults of `X`
(a dropped test, a swapped comparison). No specification uses them; each property
of a passing run is violated when one of them takes the place of its original.

### OfsmRing

A ring is a record with the fields of `OFSMGroup`. `Enqueue` is the atomic block of
`_ofsm_queue_group_event` (impl 335-395) and `Dequeue` the removal in impl 167-174.
`Forced` is `forceNewEvent` after the adjustments of impl 341-351, `Compresses` the
decision of impl 354-370 to update the youngest event.

Slots keep the events that were processed, as in the code, because of what
`StoreSlot` says: `copyNextEventIndex` is turned from 0 into `eventQueueSize` to
look at the youngest event, and if that event has another code it stays there. The
event is then written to `eventQueue[eventQueueSize]` (`Misses`). What lies there
depends on the build: in a gcc build of two groups it was slot 0 of the queue of the
group declared next, which is what `QueueAfter` and `Trample` in `Ofsm` say; with
`QueueAfter` 0 the write changes nothing that is modelled.

### OfsmQueue

Variables: `group` (the ring), `eventQueued` (the flag), `pc`. The loop lowers the
flag, takes an event, decides by the flag, sleeps; `QueueGroupEvent` can come at
any time with any event, forced or not. No bound is needed: the state is finite.

### Ofsm

| Variable | Code |
|---|---|
| `queue[g]` | the `OFSMGroup` `g` |
| `fsm[f]` | flags, wakeupTime, currentState, skipNextEventCode of the `OFSM` `f` |
| `flags`, `wakeupTime` | `_ofsmFlags` as the set of flags that are up, `_ofsmWakeupTime` |
| `clock` | ticks since start; `_ofsmTime` is `Register(clock)` |
| `pc`, `loop`, `visit` | position and locals of `_ofsm_start` and `_ofsm_group_process_pending_event` |
| `handling` | the handler that is running, with what it has still to do |
| `interrupts` | how many queueing calls interrupts have made (a bound) |

| Action | Code |
|---|---|
| `StartPass` | the atomic block at the head of the loop, impl 257-275 |
| `DequeueEvent` | impl 161-181 |
| `ProcessEvent` | a turn of an FSM without a handler: no event, unknown code, skip mark, no handler, asleep, NOP transition; with the collecting after it |
| `CallHandler`, `HandlerQueues`, `HandlerReturns` | impl 81-150: the handler starts, makes its queueing calls one at a time, returns; transition or prevention; collecting |
| `Decide` | impl 288-301 |
| `QueueTimeout` | `ofsm_queue_global_event(false, 0, 0)`, one group per step (impl 298); also what `loop()` may do before `OFSM_LOOP()` |
| `PrepareSleep` | impl 303-312 |
| `WakeUp` | the contract of the sleep function: it returns when and only when `EVENT_QUEUED` is up, with `IN_PROCESS` set (impl 1072, 1102) |
| `Interrupt` | a queueing call out of an interrupt handler |
| `Heartbeat` | `ofsm_heartbeat` with `_ofsm_check_timeout`, impl 450-477, one atomic block |

Handlers belong to the application. What they can do to the library is the
`Effect` of a handler: prevent the transition, set a delay, ask for infinite or deep
sleep, and a sequence of queueing calls. The constants give each handler a set of
effects; a run of the handler takes one of them. The clearing of the FSM's flags and
wakeup time before the handler runs (impl 83-84) is not a step of its own: only the main
loop looks at them, and not until the handler is back.

`fsm[f].wakeup` is kept as a moment on the unbounded clock. The code stores
`Register` of it, and every comparison in the model is made on `Register` values and
flags; the moment serves the properties only.

Not in the model: `IN_DEEP_SLEEP` (used by the watchdog only, and in `OfsmMcu`), `fsm_set_next_state` (its macro, decl 392, names a member
that does not exist and cannot be compiled), debug output.

### OfsmSim

The library seen from its threads. One group with one FSM stands for the orchestra; all the FSM does is to
choose how long it wants to sleep. Time is counted in ticks that are left, so the model
has no clock to bound.

| Variable | Code |
|---|---|
| `queue`, `flags`, `wakeup`, `fsm` | the group, `_ofsmFlags`, `_ofsmWakeupTime`, the FSM's `INFINITE_SLEEP` and `wakeupTime` |
| `declared` | `_ofsmGroups` and `_ofsmGroupCount` have been set by `OFSM_SETUP` |
| `pc[s]`, `local[s]` | where the FSM thread of session `s` is; its event, the sleep it collected, the flags it has read |
| `heart[s]` | where the heartbeat thread of session `s` is |
| `main`, `session` | where the main thread is, which session runs |

| Action | Code |
|---|---|
| `Setup` | `OFSM_SETUP` in the FSM thread, decl 540-545 |
| `StartPass`, `DequeueEvent`, `ProcessEvent`, `Decide`, `QueueTimeout`, `PrepareSleep` | the main loop as in `Ofsm` |
| `EnterSleep` | `_ofsm_simulation_enter_sleep`, impl 610-617, in five steps |
| `SpuriousWakeup` | a wait may return by itself |
| `LookForExit`, `Beat`, `HeartbeatNotifies` | the heartbeat thread, impl 656-681, with `ofsm_heartbeat` |
| `QueueCommand`, `CommandNotifies` | a queueing command of the event generator |
| `Exit`, `ExitNotifies` | the end of a session in `main`, impl 961-967, with the mutex held until the notification |
| `ResetGlobals`, `ResetGroup` | the reset after a fixed sleep, impl 969-997, one statement per step |
| `NewSession` | the threads of the next session, impl 930-939 |

Atomic blocks are single steps. Three things are not: an update of `_ofsmFlags` outside of any
block is a read and a write (decl 543, impl 611 and 615), the heartbeat and the end of a
session hold the library's mutex until they have notified (`MutexFree`), for which they need the
mutex of the condition variable (`CvmFree`), and the reset takes no mutex, so a thread can be
anywhere, and go on, between any two of its statements.

`main` sleeps for a fixed time before the reset (impl 971) and waits for nobody. So `ResetGlobals` can come at any
time after the notification: EXIT can be overwritten (impl 982) before a thread has seen it, and be brought
back by a thread that had read the flags before. A thread that missed it works on in the library that is being
reset. When time is set back to 0 (`SetTimeBack`), what was due at the old time is late by any number of ticks, up
to the bound; a heartbeat thread from before the reset still has the old time, and its next heartbeat
moves time ahead by any number of ticks (`TicksOf`). Threads of a new session have a place in `Session`, of which
there are `MaxSessions`; `main` waits for a free place. That is the only limit on sessions, and with one place it
means that a second FSM thread is never started beside the first.

### OfsmAtomic

The macro of decl 192, `for(type.lock(), counter = 0; counter++ < 1; type.unlock())`, as a step per
read and write, with blocks nested in blocks and a recursive mutex. `OfsmSim`, like the
library, relies on the blocks being atomic; this module shows that they are not quite.

### OfsmMcu

`Ofsm` says of the sleep function only that it returns when an event is queued.
`OfsmMcu` replaces `WakeUp` by the function itself (impl 1060-1250) and the heartbeat that may
come at any time by the default provider, which counts time when a sleep has ended.

| Variable | Code |
|---|---|
| `at` | where `_ofsm_enter_sleep` is, `"out"` when the main loop runs |
| `idled`, `sleepPeriodUs` | bit 0 of `sleepFlag`, the local of that name |
| `timer` | `_ofsmSleepPeriodUs`, `_ofsmTimeBeforeSleep`, `micros()` since the start of the sleep; as history that no step reads, the real time since then, the deep sleeps the watchdog has ended, and whether another interrupt has ended one |
| `watchdog` | the mask found and `_ofsmWatchdogDelayUs` |
| `inDeepSleep`, `powered` | `IN_DEEP_SLEEP`, the peripherals with power |

| Action | Code |
|---|---|
| `EnterSleep`, `SetTimer`, `LeaveInner`, `LeaveSleep` | the two loops, impl 1060-1110; `_ofsm_sleep_timer_set` in unsigned arithmetic |
| `IdleSleep`, `Timer0Wakes`, `InterruptWakes` | idle sleep, ended by timer0 or by another interrupt, with or without an event |
| `DeepSleep`, `SearchPeriod`, `PowerDown` | peripherals off, the search for the watchdog period, the watchdog armed |
| `InterruptInWindow` | an interrupt between `sei` and `cli` before a deep sleep |
| `WatchdogFires`, `InterruptEndsDeepSleep` | `_ofsm_wdt_vector` with the time it credits; any other interrupt |
| `GetTimeLeft` | after every sleep: peripherals, time left, heartbeat |

Interrupts come only where the code enables them. A sleep ends with one interrupt, since the
instruction after `sleep_cpu` is `cli`. The chip has WDP3, so the watchdog goes up to 8 s; registers
written in a fixed order are not state. The far wakeup time of an infinite sleep (impl 1075) is
kept out of `wakeupTime`, at which nobody looks before it is overwritten. Time spent awake is not
counted, which is what the default provider does. `micros()` does not wrap within a sleep. In real time
a watchdog period is taken for exact, and code between two sleeps for instantaneous. What a deep sleep took that another
interrupt ended, nobody knows, and `micros()` counts nothing of it (`ofsm.h:215-216`): `interrupted` says that
real time is unknown from then on.

### OfsmScript

One thread: `at` says whether it runs a step (`called`, `start`, `step`), reads the script or has
ended. The step is the loop of `Ofsm` with its do-while condition and its ending (impl 254-327,
`FirstPass`, `NextPass`, `StepReturns`). The commands (impl 707-911) are `QueueCommand`, `WakeupCommand`,
`HeartbeatCommand` (which calls the loop when something timed out, impl 450-464),
`ResetCommand` (impl 927-1003; slots of the queues keep what they hold) and `ExitCommand`.

### OfsmIntersection

The tables, handlers and events of `ofsmIntersection.ino`, lines 31-162, on top of `Ofsm`, whose constants
`IntersectionAssumption` fixes (width of the register, memory layout, timeouts and bounds stay free); `light`
and `attached` are the pins and the attachment of the button's interrupt, which handlers change after
their library calls (`HandlerEnds`). `ISR_ButtonPress` is `Interrupt` guarded by `attached`. `CalmSpec`
lets presses come only while the loop is asleep with nothing to do; `CrossingSpec` at any moment.

## 3. Runs

| Run | Instance | Checks |
|---|---|---|
| `queue` | 3 slots, 3 codes, 2 data values, unbounded; 12 thousand states | `TypeOK`, `PendingIsSignalled`, `ImplementsWeakFifo`, `CallsArePutsUnlessMissed`, `OldestIsTaken` |
| `orchestra` | 3 FSMs, 2 groups of 2 slots sharing one FSM, 2 interrupts, 4 ticks; 1.8 million states | `TypeOK`, `PendingIsSignalled`, `WakeupCoversAll`, `DeepSleepIsUnanimous`, `HeartbeatWakesDue`, `QueuesAreWeakFifos` |
| `orchestra_live` | the same with a queue of one slot, 3 ticks, fair | `DueIsServed`, `QueuesDrain` |
| `atomic` | 2 threads, blocks nested once | `AtomicBlocksExclude` is violated |
| `sim` | 2 slots, TIMEOUT and one more code, delays up to 2 ticks, one place for threads, fair; 210 thousand states | `TypeOK`, `RescuedByHeartbeat`, `NotifiedIsTaken`, no deadlock |
| `sim_lost` | the same with delays of 1 tick | `QueuedIsTaken` is violated |
| `mcu` | 2 FSMs that sleep idle, deep or for ever, 2 interrupts, watchdog periods 4, 8, 16 us, 10 ticks of 2 us, fair; 207 thousand states | `McuTypeOK`, `PeripheralsBack`, `WatchdogFits`, `NeverSpins`, `NotOverslept`, `ImplementsOrchestra`, `SleepEnds` |
| `mcu_window` | the same | `DeepSleepMeansNoEvent` is violated |
| `mcu_wrap` | 1 FSM, a 2-bit time register, 8 ticks | `NeverSpins` is violated |
| `script` | the orchestra of `orchestra_live` in wakeup type 1, 3 queueing commands per session, fair; 80 thousand states | `ScriptTypeOK`, `TimeoutsServed`, `StepLeavesNothing`, `StepsReturn` |
| `intersection` | the example, 8 calm presses, 16 ticks, fair; 73 thousand states | `NeverTwoGreens`, `ButtonFollowsLights`, `LightsAlternate` |
| `intersection_bounce` | the same, 3 presses at any moment, 12 ticks | `NeverTwoGreens` is violated |

What the properties say:

* `ImplementsWeakFifo`: the ring refines `OfsmFifo!WeakSpec` with
  `pending <- Pending(group)`: order, length, overwriting and dropping are those of a
  bounded FIFO, except that an appended event may come out as another one.
  `CallsArePutsUnlessMissed` closes the exception: every call is the strong `Put` of
  its own event unless `Misses` holds, and every removal is a `Get`.
* `QueuesAreWeakFifos`: the same of every queue of the orchestra, step by step, whoever queues, in whatever order, and
  also for the TIMEOUT that one heartbeat queues to all groups; except while the queue before it in memory could be
  written past its end (`Exposed`), which does happen in this instance.
* `PendingIsSignalled`: a pending event is in front of the loop in this pass or
  `EVENT_QUEUED` is up. Together with `WakeUp` this is "no lost wakeup".
* `WakeupCoversAll`: while the loop sleeps, no FSM with a finite wakeup time is taken
  for one in infinite sleep or is due before `_ofsmWakeupTime`.
* `DeepSleepIsUnanimous`: while the loop sleeps with `ALLOW_DEEP_SLEEP`, every FSM
  has that flag.
* `HeartbeatWakesDue`: a heartbeat during sleep that finds an FSM due leaves
  `EVENT_QUEUED` up, also when time passed the wakeup time while the loop was still
  in process.
* `OldestIsTaken`, `QueuesDrain`, `DueIsServed`: nothing stays in a queue; a due FSM gets
  its turn though its TIMEOUT was dropped by a full queue.
* `RescuedByHeartbeat`: an event whose notification the FSM thread missed is taken all the same
  if the FSM has a wakeup time, because a due heartbeat notifies again until the thread waits. It needs the
  heartbeat thread of the session, and no other FSM thread.
* `NotifiedIsTaken`: a notification that finds a thread waiting leads to a pass that takes an
  event, whatever the unlocked writes did to the flags: the loop does not look at the
  flag after the wait, which is what saves it. Both properties end with the session, and hold as well for a thread that
  has missed the end of its session and works on after the reset.
* That a request to exit is seen is no property: the code does not see to it (section 4).
* `ImplementsOrchestra`: the sleep function of an MCU keeps the contract that `Ofsm` puts in its place
  (`Spec /\ WF_vars(MainLoop)`, with the variables of `Ofsm` mapped to themselves): it returns
  for an event and only then, and does return.
* `NeverSpins`: a sleep is never computed as 0 while nothing is queued; the loop would spin with
  interrupts shut out.
* `NotOverslept`: through any mixture of idle and deep sleeps the period of the sleep timer is passed by less than a
  period of timer0 as `micros()` counts. In real time it is passed by less than that and another such period for each
  deep sleep, because a deep sleep is credited in whole periods of timer0; this holds as long as no interrupt other
  than the watchdog's ends a deep sleep, for then time is lost without a bound. The period is what
  `_ofsm_sleep_timer_set` computes, after truncation to the register.
* `SleepEnds`: a sleep with a wakeup time ends, interruptions included, if the watchdog gets its turn in the end.
* `WatchdogFits`: the period armed is the longest the chip has that does not exceed the time left.
* `PeripheralsBack`: no peripheral is left off when the loop runs.
* `StepLeavesNothing`, `StepsReturn`: a step of a script ends, and then no event pends and no FSM is due.
* `TimeoutsServed`: in type 1 the script never sees a due FSM.
* `NeverTwoGreens`, `LightsAlternate`, `ButtonFollowsLights`: what `ofsmIntersection.ino:4-8` says of the lights; the
  roads know of each other, and of the button, only through two queues of two slots.

**Bounds and why they are enough.** Three slots are the least for which the oldest, the youngest and
a middle event differ and both indices wrap independently. In `orchestra`, one FSM is shared between groups, one is
parked without a TIMEOUT handler, one changes between deep and infinite sleep, one
handler queues into its own group with exclude-self and into the other group; two
interrupts are enough for one before and one after a group's turn, and with the
handlers' own calls fill a queue. Heartbeats of 0 to 2 ticks let time jump over a
wakeup time. `Horizon` bounds time, `MaxInterrupts` the interrupts, `MaxTick` a jump; no other bound is used, and no state
constraint.
In these two instances the register has five bits and never wraps; `MC_Ofsm` assumes so by
`NoWrapAssumption`, and `mcu_wrap` is about what happens otherwise. In `sim` two slots let an event be
compressed, dropped or left for another pass, and two ticks let heartbeats pass before the FSM is
due; resets and commands are unbounded. One place for threads lets a thread survive the end of its session and
run through the whole reset, but never beside another one: with two places there are more than nine million
states at the smallest constants (one slot, TIMEOUT alone, no delays), too many for liveness. In `mcu` the time of 5 ticks is 10 us, more than the second watchdog
period and less than the third, so a sleep is cut into a deep sleep, another, and idle
sleeps of at most 3 us; one interrupt can end a sleep and another fall into the window. In `script` three commands
fill the queue of one slot and the other one between two steps; the reset starts the count again, so sessions are
unbounded. In `intersection` 16 ticks are two full cycles of both roads and eight presses are enough to
cut short the green phases of each road more than once.

**Fairness.** `OfsmQueue` and `Ofsm!FairSpec` assume weak fairness of the main loop: it is
the program's only thread (interrupts end), so a step it can take is taken.
`FairSpec` also assumes that heartbeats keep coming, which both the Arduino timer
and a custom provider do; a heartbeat that finds the same tick counts as one.
Nothing is assumed of interrupts, and their number is bounded: with endless interrupts the
loop may repeat passes forever (impl 289-292) and `DueIsServed` is not promised. The effects in
that run contain no handler that prevents the transition on TIMEOUT: such an FSM
stays due because its handler asked for it.
`OfsmSim!FairSpec` assumes strong fairness of each thread's own steps: a mutex is
held by others for a few statements only, and the heartbeat thread, the one that takes
it again and again, sleeps for a tick in between. Commands, exit and spurious wakeups are not assumed to happen.
`McuFairSpec` assumes weak fairness of the program and strong fairness of `Timer0Wakes` and `WatchdogFires`: timer0 keeps
running in idle sleep and overflows every millisecond, and other interrupts leave pauses of a watchdog
period in the end (strong, because such an interrupt ends the sleep in which the vector was awaited).
`CalmSpec` assumes weak fairness of the application and of time; of presses nothing. `ScriptFairSpec` assumes that a step
runs; of commands nothing.

## 4. What the violations show

1. **Atomic blocks of the simulation overlap** (`atomic`, decl 192): the loop counter is tested again after the unlock.
2. **An event sleeps with the FSM thread** (`sim_lost`, impl 614): `wait` without a predicate, with all FSMs in infinite sleep.
3. **Two green lights** (`intersection_bounce`, impl 356). When the TIMEOUT of a road sits in the last slot of the
   roads' queue and the write index has turned to 0, a PEDESTRIAN_AWAITS is stored to
   `eventQueue[eventQueueSize]`, past the end of the queue. Slot 0, with a GO_GREEN processed long ago, becomes the pending event and is
   processed again: a second road turns green. `MC_OfsmIntersection` has the layout
   observed in an optimised gcc build (the crosswalk's queue follows); without any object behind the queue
   (`QueueAfter` of zeros) the same happens. With presses at any moment two are enough to break `ButtonFollowsLights`
   (a lost ARM_BUTTON).
4. **Deep sleep with an event queued** (`mcu_window`, impl 1235): an interrupt in the window before a deep sleep clears
   `IN_DEEP_SLEEP`, which the next statements set, and the CPU powers down with the event queued until the watchdog fires.
5. **Spinning after the wrap of time** (`mcu_wrap`, impl 1077). An FSM has asked for a time past the wrap, so it has its own
   SCHEDULED_TIME_OVERFLOW. When the loop goes to sleep with both overflow flags up in `_ofsmFlags`, they are reset as a
   pair (impl 307-309); the FSM keeps its own. The next pass, for an event the FSM ignores, merges
   SCHEDULED_TIME_OVERFLOW back alone (impl 305). From then on the comparisons of impl 296 and 457 hold that the wakeup time is not reached,
   also at that time itself. The sleep timer subtracts without a look at flags and finds a period of 0 (impl 1118), no event
   is queued, and the outer loop sets the timer again and again with interrupts off (impl 1072-1077).

Seen while modelling, without a run of their own:

* exclude-self marks a code, not an event (decl 409, impl 49; contrast `ofsm.h:143`): the next event of that code is skipped, whoever queued it;
* the first iteration lasts until the first sleep (impl 60, 311; `ofsm.h:113`): an FSM in infinite sleep is woken by TIMEOUTs for others;
* across the wrap a TIMEOUT can come early (decl 431), and a due FSM can stay asleep because the timer's
  overflow flags are reset while the FSM keeps its own (impl 305-309);
* a reset can leave two FSM threads alive (impl 963-1000): nothing makes sure the exit request arrives. A thread that is
  not waiting at the one notification, or is slower than the fixed sleep, misses the flag, which the reset overwrites; an
  unlocked write (impl 611, 615) can undo it before that. In `OfsmSim` such a thread goes on; two of them at once need `MaxSessions` 2;
* a deep sleep ended by a pin change interrupt counts for nothing, so the sleep is late by what it took, and again with each
  interruption (`InterruptEndsDeepSleep`; `ofsm.h:215-216` says so);
* wakeup types 2 and 3 of script mode behave alike: the `continue` of impl 291 and 299 bypasses the `break` of impl 321
  (`ofsm.h:188`, `:315`); the default type is 3 in decl 164 and 0 in `ofsm.h`.

The wraps need time that advances only while the loop sleeps, as with the default heartbeat provider
(impl 1123-1132). With a 32-bit counter of milliseconds the wrap comes after 49 days.

## 5. Proofs

All theorems hold for every value of the constants that satisfies the named
assumptions of the modules (a positive queue size per group, tables with a TIMEOUT column and states in range,
handlers with well-typed effects, a positive modulus). Nothing is assumed about the bounds
beyond their being natural numbers.

| Theorem | Says |
|---|---|
| `QueueTypeCorrect`, `PendingAlwaysSignalled` | `OfsmQueue`: `[]TypeOK`, `[]PendingIsSignalled` |
| `RingImplementsWeakFifo` | `Spec => Fifo!WeakSpec` |
| `OnlyMissesBreakTheFifo` | `Spec => CallsArePutsUnlessMissed` |
| `OfsmTypeCorrect` | `Ofsm`: `[]TypeOK` |
| `NoEventOutOfSight` | `Ofsm`: `[]PendingIsSignalled` |
| `QueuesStayFifos` | `Ofsm`: `QueuesAreWeakFifos` |
| `DeepSleepNeedsAll` | `Ofsm`: `[]DeepSleepIsUnanimous` |
| `WakeupCoversEveryFsm`, `NoTimeoutSleptThrough` | `Ofsm` without wrap: `[]WakeupCoversAll`, `HeartbeatWakesDue` |
| `McuImplementsOfsm` | `McuSpec => Spec` |
| `McuTypeCorrect`, `WatchdogAlwaysFits`, `NeverOverslept`, `PeripheralsAlwaysBack` | `OfsmMcu`: `McuTypeOK`, `WatchdogFits`, `NotOverslept`, `PeripheralsBack` |
| `SleepNeverSpins` | `OfsmMcu` without wrap and with delays that fit in microseconds: `[]NeverSpins` |
| `ScriptTypeCorrect` | `OfsmScript`: `[]ScriptTypeOK` |
| `StepsLeaveNothing`, `TimeoutsAlwaysServed` | `OfsmScript` without wrap: `StepLeavesNothing`, `[]TimeoutsServed` |
| `SimTypeCorrect` | `OfsmSim`: `[]TypeOK` |
| `LightsExclude` | `OfsmIntersection`, calm presses, with wrap or without: `[]NeverTwoGreens` |
| `ButtonAgrees` | the same without wrap: `[]ButtonFollowsLights` |

**The ring.** `TypeOK` does not say how indices and the overflow flag belong together.
The set `Ring(size, Event)` of `OfsmRing_proofs` adds `RingConsistent` (the flag is raised only with
equal indices), without which a "full" ring with different indices would have more
events than slots. Lemmas then say what `Enqueue`, `Dequeue` and `Trample` do to the ring
(`EnqueueKeepsRing`, `EnqueueLeavesEvent`, `TrampleKeepsRing`, ...) and to
`Pending` (`EnqueuePending`, `DequeueIsTail`): an event is appended, the youngest is replaced, the head is removed. The
refinement maps every step of `OfsmQueue` to one of these or to a stutter.

**The orchestra.** `IndInv` is `TypeOK` with consistent rings, `visit.fsmIndex = 1` outside
of a group's turn (so that the first turn of the next group is the first FSM's), and
`PendingIsSignalled`. The last is inductive because queueing into an
empty ring always takes a slot and raises the flag, no step between passes lowers
it, and a group's turn is over only after its block has raised it for whatever is
left (`SignalsNew`, `StillSignalled`). There is one lemma per action.

**Its queues.** `QueuesStayFifos` maps each step of `Ofsm`, for each group that is not `Exposed`, to a step of `OfsmFifo` or a
stutter, by the same lemmas on the ring. A heartbeat tramples and enqueues in one step, group after group; it is one `Put`
in each queue that is not exposed because what hits slot 0 of a queue comes from the group before it alone (`HitFrom`).

**Deep sleep.** `DeepSleepIsUnanimous` speaks of the loop asleep. `FlagsAgree` strengthens
it to the middle of a pass: the flags collected so far (`loop.flags \cap
visit.flags`) are flags of every FSM whose turn is over (`Seen`). A shared FSM that
changes its flags in a later turn is collected again in that turn, which keeps it true.

**What the loop sleeps with** (`OfsmWakeup_proofs`). The theorems assume `NoWrap`: no wakeup time that an effect can ask
for within the `Horizon` reaches the modulus. TLC evaluates this assumption in `MC_Ofsm`; after a wrap the comparisons
mislead, as `mcu_wrap` shows of the sleep timer. `CoverInv` adds to `IndInv` and `FlagsAgree` that no overflow flag is ever up and no
register wraps (`NoneWraps`), and `Covers`: each FSM whose turn is over and that has a finite wakeup time is covered by the earliest
time collected by the loop or in the group's turn. The flag INFINITE_SLEEP is absent from the collected flags as soon as
one such FSM was seen, by `FlagsAgree`; so the comparison that would ignore the collected time is not made.
`HeartbeatWakesDue` then needs that the loop asleep is not `IN_PROCESS`
or leaves `EVENT_QUEUED` up, and that the global TIMEOUT of a due heartbeat is signalled even if every queue is full
(`TimeoutIsSignalled`: a full queue has a pending event, which `PendingIsSignalled` covers).

**The micro-controller's sleep** (`OfsmMcu_proofs`). `McuInv` strengthens `McuTypeOK` with which peripherals may be off where (`Powers`), what
the search has established (`Searches`) and how the timer relates to `clock` and to real time (`Timed`): real time is
ahead of the count by at most a period of timer0 for each deep sleep (`TimeCounted`), which gives the second part of
`NotOverslept` from its first. Every step of `McuNext` is a step
of `Ofsm` or a stutter (`McuStepRefines`): the one that needs the invariant is `GetTimeLeft`, a `Heartbeat` only because
`TicksNow` never falls behind `clock` (`QuotientMonotone`). The theorems hold for every register width, with
wrap or without; the type theorem says that no unsigned subtraction underflows.

**The sleep function does not spin** (also in `OfsmMcu_proofs`). Besides `NoWrap` the theorem assumes `PeriodsFit`: every delay, and the
far time of an infinite sleep, fits the register as a number of microseconds (TLC evaluates it in `MC_OfsmMcu`). Three
invariants stand on `CoverInv` and `McuInv`. `Near`: no wakeup time, in an FSM, being collected or slept for, is further
ahead than the longest delay, so the product does not wrap to zero. `Ahead`: what the loop sleeps for is ahead of `clock`,
or an event is queued; it holds because the loop decides to rest only before that time (`DecidesToRest`), time does not
move until the sleep has begun, and a heartbeat that reaches the time signals (`TimeoutIsSignalled`). `TimerSet`: hence
the period of the timer is positive when it is set (`PeriodIsSet`, in unsigned arithmetic). `mcu_wrap` is what happens
without the assumption.

**Script mode** (`OfsmScript_proofs`). All steps but the call of the loop and the reset are steps of `Ofsm` (`ScriptStepIsOfsm`),
so its invariants carry over; the two others are shown to keep or establish them. The new part is `Quiet`: between the loop's
decision to rest and its return neither an event nor time comes, because commands are read only when the loop has
returned. For `TimeoutsServed` the loop is called by the heartbeat that makes an FSM due, whatever else is queued.

**The interactive simulation** (`OfsmSim_proofs`). `TypeOK` is inductive as it stands, with one lemma per kind of step of each
thread; it says that no unlocked write, spurious wakeup or statement of the reset takes a flag, index or time out of its
range, for any number of threads of older sessions. There is no `RingConsistent` here: in the middle of a reset the
overflow flag and the indices need not agree.

**The intersection** (`OfsmIntersection_proofs`). Both theorems are about `CalmSpec`: a press finds the loop asleep with
nothing queued. Without that they are false, as `intersection_bounce` shows. The bounds and the layout of the queues in memory are
arbitrary, and the two timeouts any positive delays.

`NeverTwoGreens` speaks of two pins; its invariant `CrossingInv` speaks of the way there, and has five parts besides the
states of the FSMs (`RoadsInState`).

* `RoomForAll`: every event finds its queue empty, wherever the loop is. So no event is compressed, dropped or written past the
  end, although the queues have only two slots: a road that queues in its turn is not waiting for GO_GREEN, the
  other one is, and so does nothing in this turn; the crosswalk, whose group comes first, has taken its event before.
* `OneIsOff`: one road is off, in `GreenLightOff`, in infinite sleep and dark. It is what excludes a second green light.
* `MarksOK`: while a GO_GREEN is in the queue its sender is off and is marked to skip it, and the other road is neither
  marked nor clearing. The mark outlives no event, so no later GO_GREEN is skipped by mistake.
* `HandlerKnown`: which handler runs, in which state of which FSM, for which event, and what it asks for.
* `FirstPasses`: until the first sleep a TIMEOUT is for FSMs in infinite sleep too, so RoadFsm2, dark, runs `OnRoadRed` and hands
  out a GO_GREEN nobody has earned. RoadFsm1 ignores it: no time passes before the first sleep, so it has got no
  further than `ClearIntersection`.

No assumption on time is needed: an early or late TIMEOUT after a wrap moves the lights at the wrong moment, never both to green.

`ButtonFollowsLights` adds `ButtonInv`: the crosswalk waits for the button in traffic mode, or has an ARM_BUTTON or
DISABLE_BUTTON on its way (`Arming`, `Disabling`); a road stays in traffic mode without a waiting crosswalk only while a
pedestrian's call is on its way (`Calling`) or its time has come (`Due`). Both are over when the loop goes to sleep: no queue
holds anything it could sleep on (`RoomForAll`), and no FSM is due, because the loop decided so (`RestLeavesNobodyDue`) and nothing
happens before the sleep. That is where `NoWrap` and `CoverInv` come in.

Only model-checked: `AtomicBlocksExclude` (which is violated), and all liveness: `OldestIsTaken`, `DueIsServed`,
`QueuesDrain`, `RescuedByHeartbeat`, `NotifiedIsTaken`, `SleepEnds`, `StepsReturn`, `LightsAlternate`
and the fairness part of `ImplementsOrchestra`. Liveness under fairness is outside the prover's reach. Induction over data
is too, but no module has a recursive definition. Every invariant and every action property of a passing run is a theorem.

## 6. Plan

Done: all modules of section 2, their runs and theorems. What would come next, in this order:

1. An abstract orchestra (each FSM with a deadline and a group mailbox) that `Ofsm` implements
   in the absence of misses and wraps; `QueuesAreWeakFifos` is its mailbox.
2. Safety of the simulation's threads beyond types: who holds the mutex, what a wait can rely on, also with
   two FSM threads at once.
3. Wakeup type 0 of script mode, in which a queueing call runs the loop inside itself, also inside its own pass.
4. The time of the interactive simulation: the heartbeat command and the provider both read time in one block
   and advance it in another (impl 664, 872), so that a command between a thread's reading and its heartbeat is
   undone and taken for a wrap.

## 7. Not modelled

* Parsing of scripts, printing of the status report, asserts of a script, debug output: I/O that changes no state of the library.
* Wakeup type 0 of script mode, and a heartbeat command that sets time back.
* Query macros: they change nothing.
* Initialization handlers: the code that supports them does not compile (decl 507, impl 215-237).
* `ofsmBlink` and `ofsmTest`: single blinkers, whose shape the instances of `Ofsm` have.
* tomatoGarden (no tables in use), `sketch.cpp`, `_oldSketch.cpp` (commented out from end to end) and `etc/`: unfinished or superseded
  sketches and a hardware test, no part of the library.
* Of the MCU's sleep: chips without WDP3, a wrap of `micros()` within a sleep, and that an interrupt may come between `sei`
  and the re-enabling of peripherals (impl 1103, 1106), when only its own handler could notice.

The interactive simulation does not keep the contract of the sleep function that `Ofsm` states, as `sim_lost` shows;
`OfsmSim` models it in its own right.
