----------------------------- MODULE OfsmAtomic -----------------------------
(***************************************************************************)
(* The atomic block of the simulation: a for loop around a recursive mutex *)
(*     for(mutex.lock(), counter = 0; counter++ < 1; mutex.unlock()) body  *)
(* whose counter is one global, tested once before the body, with the      *)
(* mutex, and once after it, without.  Blocks may be nested.               *)
(***************************************************************************)
EXTENDS Naturals, Sequences

CONSTANTS Thread,       \* the FSM, heartbeat and generator threads
          NoThread,
          MaxNesting    \* bound: blocks open in one another

CounterModulus == 256   \* the counter is a uint8_t

VARIABLES owner,    \* the thread that has the mutex
          locks,    \* how many times it has locked it
          counter,  \* _ofsm_simulation_atomic_counter
          blocks    \* per thread, its open blocks, the innermost last

vars == << owner, locks, counter, blocks >>

\* Where a thread is in a block, and what it has read of the counter.
Block == [at : {"lock", "reset", "read", "write", "body", "unlock"}, read : 0 .. CounterModulus - 1]

Inner(t) == blocks[t][Len(blocks[t])]
At(t, label) == blocks[t] # << >> /\ Inner(t).at = label
GoTo(t, label) == blocks' = [blocks EXCEPT ![t][Len(blocks[t])].at = label]

Init ==
    /\ owner = NoThread
    /\ locks = 0
    /\ counter = 0
    /\ blocks = [t \in Thread |-> << >>]

\* A thread comes to an atomic block, outside of any or in the body of one.
Enter(t) ==
    /\ blocks[t] = << >> \/ (At(t, "body") /\ Len(blocks[t]) < MaxNesting)
    /\ blocks' = [blocks EXCEPT ![t] = Append(@, [at |-> "lock", read |-> 0])]
    /\ UNCHANGED << owner, locks, counter >>

Lock(t) ==
    /\ At(t, "lock")
    /\ owner \in {NoThread, t}
    /\ owner' = t
    /\ locks' = locks + 1
    /\ GoTo(t, "reset")
    /\ UNCHANGED counter

Reset(t) ==
    /\ At(t, "reset")
    /\ counter' = 0
    /\ GoTo(t, "read")
    /\ UNCHANGED << owner, locks >>

\* counter++ < 1 is a read and a write; nothing makes them one step.
ReadCounter(t) ==
    /\ At(t, "read")
    /\ blocks' = [blocks EXCEPT ![t][Len(blocks[t])] = [at |-> "write", read |-> counter]]
    /\ UNCHANGED << owner, locks, counter >>

WriteCounter(t) ==
    /\ At(t, "write")
    /\ counter' = (Inner(t).read + 1) % CounterModulus
    /\ IF Inner(t).read < 1 THEN GoTo(t, "body")
       ELSE blocks' = [blocks EXCEPT ![t] = SubSeq(@, 1, Len(@) - 1)]
    /\ UNCHANGED << owner, locks >>

EndBody(t) ==
    /\ At(t, "body")
    /\ GoTo(t, "unlock")
    /\ UNCHANGED << owner, locks, counter >>

\* Unlocking a mutex one does not own is undefined; glibc refuses it.
Unlock(t) ==
    /\ At(t, "unlock")
    /\ IF owner = t
       THEN /\ locks' = locks - 1
            /\ owner' = IF locks = 1 THEN NoThread ELSE t
       ELSE UNCHANGED << owner, locks >>
    /\ GoTo(t, "read")
    /\ UNCHANGED counter

ThreadStep(t) ==
    \/ Enter(t) \/ Lock(t) \/ Reset(t) \/ ReadCounter(t) \/ WriteCounter(t)
    \/ EndBody(t) \/ Unlock(t)

Next == \E t \in Thread : ThreadStep(t)

Spec == Init /\ [][Next]_vars

-----------------------------------------------------------------------------

InBody(t) == \E i \in 1 .. Len(blocks[t]) : blocks[t][i].at = "body"

\* What an atomic block is for ("Retain compatibility with original: see
\* implementation details in <util/atomic.h>"): no two threads are in the body
\* of atomic blocks at the same time.
AtomicBlocksExclude ==
    \A t, u \in Thread : t # u => ~(InBody(t) /\ InBody(u))
=============================================================================
