------------------------------ MODULE MC_Ofsm ------------------------------
(***************************************************************************)
(* Three FSMs in two groups, "b" registered in both.                       *)
(*   a: a blinker that reschedules itself; KICK makes it tell its group    *)
(*      (excluding itself) and may be prevented;                           *)
(*   b: parked without a TIMEOUT handler until POKE starts its timer;      *)
(*   c: sleeps, in deep or infinite sleep, as its handler likes.           *)
(***************************************************************************)
EXTENDS Ofsm, TLC

KICK == 1
POKE == 2

Goes(h, s) == [eventHandler |-> h, newState |-> s]

Asks == NoEffect
After(ticks) == [Asks EXCEPT !.setDelay = TRUE, !.delay = ticks]
DeepAfter(ticks) == [After(ticks) EXCEPT !.deep = TRUE]

MC_GroupFsms == << << "a", "b" >>, << "b", "c" >> >>
MC_QueueSize == << 2, 2 >>
MC_QueueAfter == << 2, 0 >>

MC_Table ==
    [a |-> [s0 |-> 0 :> Goes("tick", "s1") @@ KICK :> Goes("kick", "s1"),
            s1 |-> 0 :> Goes("nop", "s0")  @@ KICK :> Goes("null", "s1")],
     b |-> [s0 |-> 0 :> Goes("null", "s0") @@ KICK :> Goes("null", "s0")
                     @@ POKE :> Goes("start", "s1"),
            s1 |-> 0 :> Goes("nop", "s0")  @@ KICK :> Goes("nop", "s1")
                     @@ POKE :> Goes("null", "s1")],
     c |-> [s0 |-> 0 :> Goes("rest", "s0") @@ KICK :> Goes("null", "s0")
                     @@ POKE :> Goes("rest", "s0"),
            s1 |-> 0 :> Goes("null", "s1")]]

ToOwn(code, exclude) ==
    [group |-> OwnGroup, force |-> FALSE, exclude |-> exclude,
     event |-> [code |-> code, data |-> 0]]
ToGroup(g, force, code) ==
    [group |-> g, force |-> force, exclude |-> FALSE,
     event |-> [code |-> code, data |-> 0]]

MC_Effects ==
    [tick  |-> {After(1), After(2), DeepAfter(1)},
     kick  |-> {[Asks EXCEPT !.calls = << ToOwn(KICK, TRUE), ToGroup(2, FALSE, POKE) >>],
                [Asks EXCEPT !.prevent = TRUE]},
     start |-> {After(0), DeepAfter(1)},
     rest  |-> {DeepAfter(3), [Asks EXCEPT !.infinite = TRUE, !.deep = TRUE]}]

\* For liveness: a queue of one slot, so that a single event makes the timeout
\* be dropped, and one answer per handler, none of which refuses a TIMEOUT.
Live_QueueSize == << 2, 1 >>
Live_Effects ==
    [tick  |-> {After(2)},
     kick  |-> {[Asks EXCEPT !.calls = << ToOwn(KICK, TRUE), ToGroup(2, FALSE, POKE) >>]},
     start |-> {After(0)},
     rest  |-> {DeepAfter(3)}]

MC_InitialState == [f \in Fsm |-> "s0"]
MC_InterruptEvents == {ToGroup(1, TRUE, KICK), ToGroup(2, FALSE, POKE)}

\* In these instances time does not wrap.
ASSUME NoWrapAssumption == NoWrap
=============================================================================
