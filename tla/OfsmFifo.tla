------------------------------ MODULE OfsmFifo ------------------------------
(***************************************************************************)
(* What a group's event queue promises (ofsm.h, "Event queues are          *)
(* protected from overflow ... the events will be compressed or dropped"): *)
(* a bounded first-in first-out sequence in which an arriving event may    *)
(* overwrite the youngest pending event of the same code, is dropped only  *)
(* when the queue is full, and never disturbs an older event.              *)
(***************************************************************************)
EXTENDS Naturals, Sequences

CONSTANTS Capacity,     \* slots of the queue
          Event,        \* records with a code and a data field
          TimeoutCode   \* the reserved event code

VARIABLE pending        \* the events waiting, oldest first

Init == pending = << >>

\* Overwriting is asked for by ~force; TIMEOUT overwrites whatever the caller
\* asked for while there is room (in a full queue force is obeyed).
Overwrites(force, e) ==
    /\ pending # << >>
    /\ pending[Len(pending)].code = e.code
    /\ ~force \/ (e.code = TimeoutCode /\ Len(pending) < Capacity)

Put(force, e) ==
    \/ /\ Overwrites(force, e)
       /\ pending' = [pending EXCEPT ![Len(pending)] = e]
    \/ /\ ~Overwrites(force, e)
       /\ Len(pending) < Capacity
       /\ pending' = Append(pending, e)
    \/ /\ ~Overwrites(force, e)
       /\ Len(pending) = Capacity
       /\ UNCHANGED pending

Get == pending # << >> /\ pending' = Tail(pending)

Next == Get \/ \E force \in BOOLEAN, e \in Event : Put(force, e)

Spec == Init /\ [][Next]_pending

\* The weaker promise: an event that does not open the queue may come out as
\* another one.  Order, length and the older events are still safe.
PutAny ==
    /\ pending # << >>
    /\ Len(pending) < Capacity
    /\ \E e \in Event : pending' = Append(pending, e)

WeakSpec == Init /\ [][Next \/ PutAny]_pending
=============================================================================
