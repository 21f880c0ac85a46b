------------------------------- MODULE OfsmSim ------------------------------
(***************************************************************************)
(* The interactive simulation: an FSM thread that runs the main loop, a    *)
(* heartbeat thread, and the main thread, which queues events, ends the    *)
(* session and resets the library for another one.  The FSM thread sleeps  *)
(* on a condition variable without a predicate; the others notify it, the  *)
(* heartbeat and the end of a session while they hold the library's mutex. *)
(* Nobody waits for the threads of a session that has ended: they may be   *)
(* at work in the next one.                                                *)
(*                                                                         *)
(* An ATOMIC_BLOCK is one step here (OfsmAtomic has what is inside of it). *)
(* What the code does outside of any block is one step per access: a read  *)
(* and a write of _ofsmFlags, the statements of the reset.  There is one   *)
(* group with one FSM whose handlers only ask for sleep; the orchestra is  *)
(* the subject of Ofsm.                                                    *)
(***************************************************************************)
EXTENDS OfsmRing

CONSTANTS QueueSize,    \* eventQueueSize of the group
          EventCode,    \* the event codes in use, TIMEOUT among them
          MaxDelay,     \* bound: the longest delay a handler asks for, in ticks
          MaxSessions   \* bound: sessions with threads that have not ended

ASSUME QueueSizeAssumption == QueueSize \in Nat \ {0}
ASSUME EventAssumption == TIMEOUT \in EventCode
ASSUME BoundAssumption == MaxDelay \in Nat /\ MaxSessions \in Nat \ {0}

Event == [code : EventCode]
TimeoutEvent == [code |-> TIMEOUT]
Session == 1 .. MaxSessions

\* How long to sleep: ticks that are left before the wakeup time, or for ever.
Infinite == MaxDelay + 1
Sleep == 0 .. Infinite

OfsmFlags == {"INFINITE_SLEEP", "FIRST_ITERATION", "EVENT_QUEUED", "IN_PROCESS", "EXIT"}

VARIABLES declared, \* _ofsmGroups has the groups: OFSM_SETUP was there once
          queue,    \* the ring of the group
          flags,    \* _ofsmFlags
          wakeup,   \* _ofsmWakeupTime, in ticks from now
          fsm,      \* the FSM's INFINITE_SLEEP and wakeupTime, in ticks from now
          session,  \* the session that runs, by the place of its threads
          main,     \* where the main thread is
          heart,    \* where the heartbeat thread of each session is
          pc,       \* where the FSM thread of each session is
          local     \* per FSM thread: the event if any, what it collected, flags it read

vars == << declared, queue, flags, wakeup, fsm, session, main, heart, pc, local >>

NoLocal == [event |-> {}, collected |-> Infinite, read |-> {}]

Init ==
    /\ declared = FALSE
    /\ queue = EmptyRing(QueueSize, TimeoutEvent)
    /\ flags = {}
    /\ wakeup = 0
    /\ fsm = Infinite
    /\ session = 1
    /\ main = "command"
    /\ heart = [s \in Session |-> IF s = 1 THEN "look" ELSE "done"]
    /\ pc = [s \in Session |-> IF s = 1 THEN "setup" ELSE "done"]
    /\ local = [s \in Session |-> NoLocal]

\* The library's mutex is held across steps by those who notify under it.
MutexFree == main # "exitNotify" /\ \A s \in Session : heart[s] # "notify"

\* The mutex of the condition variable is held across steps by a thread that
\* has returned from wait and is clearing flags.
CvmFree == \A s \in Session : pc[s] # "wakeWrite"

\* _ofsm_queue_group_event; what follows in all cases is a notification.
QueueGroupEvent(force, e) ==
    /\ MutexFree
    /\ queue' = Enqueue(queue, force, e)
    /\ flags' = IF TakesSlot(queue, force, e) THEN flags \cup {"EVENT_QUEUED"} ELSE flags

\* _ofsm_simulation_wakeup, with the FSM threads otherwise at p: one of the
\* threads that wait, if there is one.
Notify(p) ==
    /\ CvmFree
    /\ IF \E s \in Session : p[s] = "waiting"
       THEN \E s \in Session : p[s] = "waiting" /\ pc' = [p EXCEPT ![s] = "woken"]
       ELSE pc' = p

\* So many ticks nearer, and so many ticks further away.
Nearer(sleep, ticks) ==
    IF sleep = Infinite THEN Infinite ELSE IF sleep > ticks THEN sleep - ticks ELSE 0
Further(sleep, ticks) ==
    IF sleep = Infinite THEN Infinite
    ELSE IF sleep + ticks > MaxDelay THEN MaxDelay ELSE sleep + ticks

\* _ofsmTime = 0: all that was due by the old time is due so much later.
SetTimeBack(passed) ==
    /\ wakeup' = Further(wakeup, passed)
    /\ fsm' = Further(fsm, passed)
    /\ local' = [i \in Session |-> [local[i] EXCEPT !.collected = Further(@, passed)]]

\* The FSM thread of this session is the only one.
Alone == \A s \in Session \ {session} : pc[s] = "done"

-----------------------------------------------------------------------------
(* The FSM thread of session s.                                            *)

At(s, label) == pc[s] = label
Goto(s, label) == pc' = [pc EXCEPT ![s] = label]

\* An unlocked read-modify-write of _ofsmFlags, the read ...
ReadFlags(s, label) ==
    /\ Goto(s, label)
    /\ local' = [local EXCEPT ![s].read = flags]
    /\ UNCHANGED << queue, flags, wakeup, fsm, session, main, heart >>

\* ... and the write, which undoes what others did to the flags in between.
WriteFlags(s, newFlags, label) ==
    /\ flags' = newFlags
    /\ Goto(s, label)
    /\ local' = [local EXCEPT ![s].read = {}]
    /\ UNCHANGED << declared, queue, wakeup, fsm, session, main, heart >>

\* OFSM_SETUP.  Before the first sleep time 0 makes no difference, except to a
\* thread of an older session.
Setup(s) ==
    \/ At(s, "setup") /\ declared' = TRUE /\ ReadFlags(s, "setupWrite")
    \/ /\ At(s, "setupWrite")
       /\ WriteFlags(s, local[s].read \cup {"INFINITE_SLEEP", "FIRST_ITERATION"},
                     "setupTime")
    \/ /\ At(s, "setupTime")
       /\ \E passed \in IF Alone THEN {0} ELSE 0 .. MaxDelay : SetTimeBack(passed)
       /\ Goto(s, "pass")
       /\ UNCHANGED << declared, queue, flags, session, main, heart >>

\* The head of a pass; the FSM thread ends here and nowhere else.
StartPass(s) ==
    /\ At(s, "pass")
    /\ MutexFree
    /\ flags' = (flags \ {"EVENT_QUEUED"}) \cup {"IN_PROCESS"}
    /\ Goto(s, IF "EXIT" \in flags THEN "done" ELSE "dequeue")
    /\ UNCHANGED << declared, queue, wakeup, fsm, session, main, heart, local >>

DequeueEvent(s) ==
    /\ At(s, "dequeue")
    /\ MutexFree
    /\ IF IsEmpty(queue)
       THEN UNCHANGED << queue, flags, local >>
       ELSE /\ queue' = Dequeue(queue)
            /\ flags' = IF MorePending(queue') THEN flags \cup {"EVENT_QUEUED"} ELSE flags
            /\ local' = [local EXCEPT ![s].event = {CurrentEvent(queue)}]
    /\ Goto(s, "process")
    /\ UNCHANGED << declared, wakeup, fsm, session, main, heart >>

\* The FSM's handler is called: every event but a TIMEOUT that it sleeps through.
CallsHandler(e) ==
    e.code = TIMEOUT => IF fsm = Infinite THEN "FIRST_ITERATION" \in flags ELSE fsm = 0

\* The FSM's turn, and the collecting of its sleep.
ProcessEvent(s) ==
    /\ At(s, "process")
    /\ IF \E e \in local[s].event : CallsHandler(e) THEN fsm' \in Sleep ELSE UNCHANGED fsm
    /\ local' = [local EXCEPT ![s] = [NoLocal EXCEPT !.collected = fsm']]
    /\ Goto(s, "decide")
    /\ UNCHANGED << declared, queue, flags, wakeup, session, main, heart >>

Decide(s) ==
    /\ At(s, "decide")
    /\ Goto(s, IF "EVENT_QUEUED" \in flags THEN "pass"
               ELSE IF local[s].collected = 0 THEN "timeout" ELSE "prepare")
    /\ UNCHANGED << declared, queue, flags, wakeup, fsm, session, main, heart, local >>

\* The loop has found the FSM due.  Its notification is for other threads.
QueueTimeout(s) ==
    \/ /\ At(s, "timeout")
       /\ QueueGroupEvent(FALSE, TimeoutEvent)
       /\ Goto(s, "timeoutNotify")
       /\ UNCHANGED << declared, wakeup, fsm, session, main, heart, local >>
    \/ /\ At(s, "timeoutNotify")
       /\ Notify([pc EXCEPT ![s] = "pass"])
       /\ UNCHANGED << declared, queue, flags, wakeup, fsm, session, main, heart, local >>

\* The atomic block before sleep.
PrepareSleep(s) ==
    /\ At(s, "prepare")
    /\ MutexFree
    /\ wakeup' = local[s].collected
    /\ flags' = (flags \ {"INFINITE_SLEEP", "FIRST_ITERATION", "IN_PROCESS"})
                    \cup (IF local[s].collected = Infinite THEN {"INFINITE_SLEEP"} ELSE {})
    /\ local' = [local EXCEPT ![s] = NoLocal]
    /\ Goto(s, "enter")
    /\ UNCHANGED << declared, queue, fsm, session, main, heart >>

\* A plausible fault: wait again unless the flag says that an event is queued.
AfterWait_flag(readFlags) == IF "EVENT_QUEUED" \in readFlags THEN "pass" ELSE "wait"

\* Where the thread goes when wait has returned, for whatever reason.
AfterWait(readFlags) == "pass"

\* _ofsm_simulation_enter_sleep
EnterSleep(s) ==
    \/ At(s, "enter") /\ ReadFlags(s, "enterWrite") /\ UNCHANGED declared
    \/ At(s, "enterWrite") /\ WriteFlags(s, local[s].read \ {"IN_PROCESS"}, "wait")
    \/ /\ At(s, "wait")
       /\ CvmFree
       /\ Goto(s, "waiting")
       /\ UNCHANGED << declared, queue, flags, wakeup, fsm, session, main, heart, local >>
    \/ At(s, "woken") /\ CvmFree /\ ReadFlags(s, "wakeWrite") /\ UNCHANGED declared
    \/ /\ At(s, "wakeWrite")
       /\ WriteFlags(s, local[s].read \ {"EVENT_QUEUED", "INFINITE_SLEEP"},
                     AfterWait(local[s].read))

FsmThread(s) ==
    \/ Setup(s) \/ StartPass(s) \/ DequeueEvent(s) \/ ProcessEvent(s) \/ Decide(s)
    \/ QueueTimeout(s) \/ PrepareSleep(s) \/ EnterSleep(s)

\* A wait may return without a notification.
SpuriousWakeup(s) ==
    /\ At(s, "waiting")
    /\ Goto(s, "woken")
    /\ UNCHANGED << declared, queue, flags, wakeup, fsm, session, main, heart, local >>

-----------------------------------------------------------------------------
(* The heartbeat thread of session s.                                      *)

\* Where main is from the reset of time to the start of new threads.
AfterReset == {"resetWakeup", "resetOverflow", "resetNext", "resetCurrent", "resetFsm",
               "newSession"}

\* A heartbeat is the next tick.  A provider that was there when time went back
\* has the time from before, which is ahead by any number of ticks.
TicksOf(s) ==
    IF s = session /\ Alone /\ main \notin AfterReset THEN {1} ELSE 1 .. Infinite

\* The provider's own look at the flags, before every heartbeat.
LookForExit(s) ==
    /\ heart[s] = "look"
    /\ MutexFree
    /\ heart' = [heart EXCEPT ![s] = IF "EXIT" \in flags THEN "done" ELSE "beat"]
    /\ UNCHANGED << declared, queue, flags, wakeup, fsm, session, main, pc, local >>

\* A plausible fault: no TIMEOUT when something is queued anyway.
ChecksTimeout_once == flags \cap {"IN_PROCESS", "INFINITE_SLEEP", "EVENT_QUEUED"} = {}

\* The heartbeat leaves the loop alone while it is in process or needs no time.
ChecksTimeout == flags \cap {"IN_PROCESS", "INFINITE_SLEEP"} = {}

\* ofsm_heartbeat with _ofsm_check_timeout, up to the notification.
Beat(s) ==
    /\ heart[s] = "beat"
    /\ MutexFree
    /\ \E ticks \in TicksOf(s) :
           /\ wakeup' = Nearer(wakeup, ticks)
           /\ fsm' = Nearer(fsm, ticks)
           /\ local' = [i \in Session |-> [local[i] EXCEPT !.collected = Nearer(@, ticks)]]
    /\ IF declared /\ ChecksTimeout /\ wakeup' = 0
       THEN /\ QueueGroupEvent(FALSE, TimeoutEvent)
            /\ heart' = [heart EXCEPT ![s] = "notify"]
       ELSE /\ heart' = [heart EXCEPT ![s] = "look"]
            /\ UNCHANGED << queue, flags >>
    /\ UNCHANGED << declared, session, main, pc >>

\* The notification, still in the atomic block of the heartbeat.
HeartbeatNotifies(s) ==
    /\ heart[s] = "notify"
    /\ Notify(pc)
    /\ heart' = [heart EXCEPT ![s] = "look"]
    /\ UNCHANGED << declared, queue, flags, wakeup, fsm, session, main, local >>

HeartbeatThread(s) == LookForExit(s) \/ Beat(s) \/ HeartbeatNotifies(s)

-----------------------------------------------------------------------------
(* The main thread.                                                        *)

\* A command that queues an event; without groups it is refused.
QueueCommand(force, e) ==
    /\ main = "command"
    /\ declared
    /\ QueueGroupEvent(force, e)
    /\ main' = "notify"
    /\ UNCHANGED << declared, wakeup, fsm, session, heart, pc, local >>

CommandNotifies ==
    /\ main = "notify"
    /\ Notify(pc)
    /\ main' = "command"
    /\ UNCHANGED << declared, queue, flags, wakeup, fsm, session, heart, local >>

\* The generator returns with a request to reset; all other flags are lost.
Exit ==
    /\ main = "command"
    /\ MutexFree
    /\ flags' = {"EXIT", "EVENT_QUEUED"}
    /\ main' = "exitNotify"
    /\ UNCHANGED << declared, queue, wakeup, fsm, session, heart, pc, local >>

\* The notification, still in the atomic block that raised the flag.
ExitNotifies ==
    /\ main = "exitNotify"
    /\ Notify(pc)
    /\ main' = "exiting"
    /\ UNCHANGED << declared, queue, flags, wakeup, fsm, session, heart, local >>

\* After a fixed sleep of a tick and some more, which ends whatever the threads
\* have done by then, main resets the library, statement by statement and
\* without the mutex.
ResetGlobals ==
    \/ /\ main = "exiting"
       /\ flags' = {"INFINITE_SLEEP", "FIRST_ITERATION"}
       /\ main' = "resetTime"
       /\ UNCHANGED << declared, queue, wakeup, fsm, session, heart, pc, local >>
    \/ /\ main = "resetTime"
       /\ \E passed \in 0 .. MaxDelay : SetTimeBack(passed)
       /\ main' = "resetWakeup"
       /\ UNCHANGED << declared, queue, flags, session, heart, pc >>
    \/ /\ main = "resetWakeup"
       /\ wakeup' = 0
       /\ main' = "resetOverflow"
       /\ UNCHANGED << declared, queue, flags, fsm, session, heart, pc, local >>

ResetGroup ==
    /\ \/ /\ main = "resetOverflow" /\ main' = "resetNext"
          /\ queue' = [queue EXCEPT !.overflow = FALSE]
          /\ UNCHANGED fsm
       \/ /\ main = "resetNext" /\ main' = "resetCurrent"
          /\ queue' = [queue EXCEPT !.nextEventIndex = 0]
          /\ UNCHANGED fsm
       \/ /\ main = "resetCurrent" /\ main' = "resetFsm"
          /\ queue' = [queue EXCEPT !.currentEventIndex = 0]
          /\ UNCHANGED fsm
       \/ /\ main = "resetFsm" /\ main' = "newSession"
          /\ fsm' = Infinite
          /\ UNCHANGED queue
    /\ UNCHANGED << declared, flags, wakeup, session, heart, pc, local >>

\* A session with threads of its own, in a place where none of an older session
\* is left: the bound.
NewSession ==
    /\ main = "newSession"
    /\ session' \in {s \in Session : pc[s] = "done" /\ heart[s] = "done"}
    /\ main' = "command"
    /\ heart' = [heart EXCEPT ![session'] = "look"]
    /\ pc' = [pc EXCEPT ![session'] = "setup"]
    /\ UNCHANGED << declared, queue, flags, wakeup, fsm, local >>

Commands ==
    \/ \E force \in BOOLEAN, e \in Event : QueueCommand(force, e)
    \/ Exit

MainThread ==
    CommandNotifies \/ ExitNotifies \/ ResetGlobals \/ ResetGroup \/ NewSession

Next ==
    \/ \E s \in Session : FsmThread(s) \/ SpuriousWakeup(s) \/ HeartbeatThread(s)
    \/ MainThread
    \/ Commands

Spec == Init /\ [][Next]_vars

\* Every thread runs and gets the mutexes it waits for: the others hold them
\* briefly, and the heartbeat thread sleeps for a tick in between.  Nobody has
\* to type a command, and no wait has to return by itself.
FairSpec ==
    /\ Spec
    /\ \A s \in Session : SF_vars(FsmThread(s)) /\ SF_vars(HeartbeatThread(s))
    /\ SF_vars(MainThread)

-----------------------------------------------------------------------------

FsmLabels == {"setup", "setupWrite", "setupTime", "pass", "dequeue", "process", "decide",
              "timeout", "timeoutNotify", "prepare", "enter", "enterWrite", "wait", "waiting", "woken",
              "wakeWrite", "done"}

MainLabels == {"command", "notify", "exitNotify", "exiting", "resetTime"} \cup AfterReset

\* Indices stay in the buffer, flags are flags, threads are somewhere.
TypeOK ==
    /\ declared \in BOOLEAN
    /\ queue \in RingType(QueueSize, Event)
    /\ flags \subseteq OfsmFlags
    /\ wakeup \in Sleep
    /\ fsm \in Sleep
    /\ session \in Session
    /\ main \in MainLabels
    /\ heart \in [Session -> {"look", "beat", "notify", "done"}]
    /\ pc \in [Session -> FsmLabels]
    /\ local \in [Session -> [event : SUBSET Event, collected : Sleep,
                              read : SUBSET OfsmFlags]]

\* The session ends, or the threads of this one see the request to end of an
\* older one, which an unlocked write has brought back.
Ending == main \notin {"command", "notify", "newSession"} \/ "EXIT" \in flags

\* An event is pending; an event, which can only be the oldest, is taken.
Pends == ~IsEmpty(queue)
Taken == \E s \in Session : local[s].event # {}

\* An event that was queued when the FSM thread was past its last look at the
\* flag, so that its notification was lost, is taken all the same if the FSM
\* has a wakeup time: the heartbeat finds it due and notifies again, and again.
RescuedByHeartbeat ==
    (/\ Pends /\ Alone /\ fsm # Infinite /\ heart[session] # "done"
     /\ pc[session] \in {"enter", "enterWrite", "wait", "waiting"}) ~> (Taken \/ Ending)

\* A notification that finds an FSM thread waiting leads to an event being taken
\* when one pends, be it an older one with its own notification lost: whatever
\* unlocked writes did to the flags, though the new event was dropped or
\* compressed, and even if a thread of an older session got the notification.
NotifiedIsTaken ==
    (Pends /\ main = "notify" /\ \E s \in Session : pc[s] = "waiting") ~> (Taken \/ Ending)

\* ofsm.h: "Each queued event processed by all FSMs within the group".  It is
\* at least taken in the end.
QueuedIsTaken == Pends ~> (Taken \/ Ending)
=============================================================================
