---------------------------- MODULE MC_OfsmMcu ----------------------------
(***************************************************************************)
(* Two FSMs in one group.  "d" agrees to deep sleep, for a long delay or   *)
(* for ever; "m" is content with idle sleep for a short delay, and with    *)
(* any sleep otherwise.  A button wakes m up.                              *)
(***************************************************************************)
EXTENDS OfsmMcu, TLC

BUTTON == 1

Goes(h, s) == [eventHandler |-> h, newState |-> s]
After(ticks) == [NoEffect EXCEPT !.setDelay = TRUE, !.delay = ticks]
DeepAfter(ticks) == [After(ticks) EXCEPT !.deep = TRUE]
DeepForever == [NoEffect EXCEPT !.infinite = TRUE, !.deep = TRUE]

MC_GroupFsms == << << "d", "m" >> >>
MC_QueueSize == << 2 >>
MC_QueueAfter == << 0 >>
MC_InitialState == [f \in Fsm |-> "s0"]
MC_Table ==
    [d |-> [s0 |-> 0 :> Goes("doze", "s0") @@ BUTTON :> Goes("null", "s0")],
     m |-> [s0 |-> 0 :> Goes("mix", "s0") @@ BUTTON :> Goes("mix", "s0")]]
MC_Effects ==
    [doze |-> {DeepAfter(5), DeepForever},
     mix  |-> {After(1), DeepAfter(3), DeepForever}]
MC_InterruptEvents ==
    {[group |-> 1, force |-> FALSE, exclude |-> FALSE,
      event |-> [code |-> BUTTON, data |-> 0]]}

\* 16 ms, 32 ms, 64 ms: the first periods of the watchdog.
MC_WatchdogUs == 0 :> 4 @@ 1 :> 8 @@ 2 :> 16

POKE == 1
Wrap_GroupFsms == << << "slow" >> >>
Wrap_Table == [slow |-> [s0 |-> 0 :> Goes("three", "s0") @@ POKE :> Goes("null", "s0")]]
Wrap_Effects == [three |-> {After(3)}]

\* Where time does not wrap, every delay fits as a number of microseconds.
ASSUME PeriodsAssumption == Horizon < Modulus => NoWrap /\ PeriodsFit
=============================================================================
