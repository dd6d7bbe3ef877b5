----------------------------- MODULE Scheduler ------------------------------
(***************************************************************************)
(* The scheduler of src/src/scheduler.cpp: a thread that waits for the     *)
(* earliest event of a priority queue and hands it to the dispatcher when  *)
(* its time has come.                                                      *)
(*                                                                         *)
(* The mutex eventLock makes a critical section one action; the loop test, *)
(* the notify_one calls, the setState of shutdown and the call of          *)
(* Dispatcher::addTask happen outside it and are actions of their own.     *)
(* Time is a counter; an event's due time (getCycle) was computed when the *)
(* task was created, so it may already be in the past when it is added.    *)
(***************************************************************************)
EXTENDS Naturals

CONSTANTS
  EventCallers,  \* threads that call addEvent, stopEvent and shutdown
  Events,        \* the SchedulerTask objects
  NoEvent,       \* "no event in hand"
  MaxId,         \* the largest event id (2^32 - 1 in the code)
  MaxDelay,      \* bound: the longest delay of an event
  MaxTime        \* bound: where the clock stops

ASSUME SchedulerAssumption ==
  /\ NoEvent \notin Events
  /\ MaxId \in Nat \ {0}
  /\ MaxDelay \in Nat /\ MaxTime \in Nat

VARIABLES
  now,           \* the system clock
  sState,        \* threadState of the scheduler
  eventList,     \* the priority queue, as the set of events in it
  due,           \* getCycle() of every event
  eventId,       \* getEventId() of every event, 0 before addEvent
  eventIds,      \* ids of the active (not stopped) events
  lastEventId,
  spc,           \* where the scheduler thread is in threadMain
  deadline,      \* argument of the wait_until it is in
  event,         \* the event it hands over
  sSignalling,   \* threads with do_signal set that have not notified yet
  sShutdown,     \* progress of Scheduler::shutdown
  fate,          \* history: what became of every event
  cancelled      \* history: events whose stopEvent returned true

vars == <<now, sState, eventList, due, eventId, eventIds, lastEventId, spc,
          deadline, event, sSignalling, sShutdown, fate, cancelled>>

queueVars == <<eventList, due, eventId, eventIds, lastEventId>>
threadVars == <<spc, deadline, event>>
historyVars == <<fate, cancelled>>

ThreadStates == {"RUNNING", "CLOSING", "TERMINATED"}
Places == {"check", "lock", "wait", "timedwait", "woken", "timedout",
           "handover", "stopped"}
EventFates == {"new", "pending", "held", "handed", "deleted", "refused"}

(* A long-running server: the id counter may be anywhere.                  *)
Init ==
  /\ now = 0
  /\ sState = "RUNNING"
  /\ eventList = {}
  /\ due = [e \in Events |-> 0]
  /\ eventId = [e \in Events |-> 0]
  /\ eventIds = {}
  /\ lastEventId \in 0 .. MaxId
  /\ spc = "check"
  /\ deadline = 0
  /\ event = NoEvent
  /\ sSignalling = {}
  /\ sShutdown = "none"
  /\ fate = [e \in Events |-> "new"]
  /\ cancelled = {}

Tick ==
  /\ now < MaxTime
  /\ now' = now + 1
  /\ UNCHANGED <<sState, queueVars, threadVars, sSignalling, sShutdown, historyVars>>

-----------------------------------------------------------------------------
Notify == spc' = IF spc \in {"wait", "timedwait"} THEN "woken" ELSE spc

MayCall(c) == c \notin sSignalling /\ sShutdown \notin {"terminated", "cleared"}

(* Events that eventList.top() may be: TaskComparator leaves ties open.    *)
Tops(list, time) == {e \in list : \A f \in list : time[e] <= time[f]}

NextIdUnguarded == IF lastEventId = MaxId THEN 0 ELSE lastEventId + 1
NextId == IF lastEventId = MaxId THEN 1 ELSE lastEventId + 1

(* do_signal = (task == eventList.top()), with e already in the queue.     *)
DoSignalIfFirst(e) == eventList = {}
DoSignalIfBusy(e) == eventList # {} /\ e \in Tops(eventList', due')
DoSignal(e) == e \in Tops(eventList', due')

(* The critical section of addEvent.  On a tie the new event may or may    *)
(* not be the top; the sleeper's deadline is the same either way.          *)
AcceptWhileRunning == sState = "RUNNING"

AddEvent(c, e, cycle) ==
  /\ MayCall(c)
  /\ fate[e] = "new"
  /\ \/ /\ AcceptWhileRunning
        /\ lastEventId' = NextId
        /\ eventId' = [eventId EXCEPT ![e] = NextId]
        /\ eventIds' = eventIds \union {NextId}
        /\ eventList' = eventList \union {e}
        /\ due' = [due EXCEPT ![e] = cycle]
        /\ fate' = [fate EXCEPT ![e] = "pending"]
        /\ \/ DoSignal(e) /\ sSignalling' = sSignalling \union {c}
           \/ ({e} # Tops(eventList', due') \/ ~DoSignal(e)) /\ UNCHANGED sSignalling
     \/ /\ ~AcceptWhileRunning
        /\ fate' = [fate EXCEPT ![e] = "refused"]
        /\ UNCHANGED <<queueVars, sSignalling>>
  /\ UNCHANGED <<now, sState, threadVars, sShutdown, cancelled>>

(* eventSignal.notify_one() of addEvent, after eventLock.unlock().         *)
Signal(c) ==
  /\ c \in sSignalling
  /\ sSignalling' = sSignalling \ {c}
  /\ Notify
  /\ UNCHANGED <<now, sState, queueVars, deadline, event, sShutdown, historyVars>>

(* stopEvent that returns true; one that returns false changes nothing.    *)
(* The event stays in the queue, only its id becomes inactive.             *)
IdsAfterStop(id) == eventIds \ {id}

StopEvent(c, e) ==
  /\ MayCall(c)
  /\ eventId[e] # 0
  /\ eventId[e] \in eventIds
  /\ eventIds' = IdsAfterStop(eventId[e])
  /\ cancelled' = cancelled \union {e}
  /\ UNCHANGED <<now, sState, eventList, due, eventId, lastEventId, threadVars,
                 sSignalling, sShutdown, fate>>

(* ThreadHolder::stop *)
Stop ==
  /\ sShutdown = "none"
  /\ sState' = "CLOSING"
  /\ UNCHANGED <<now, queueVars, threadVars, sSignalling, sShutdown, historyVars>>

(* Scheduler::shutdown: setState without the lock, then the critical       *)
(* section that deletes all events, then notify_one.                       *)
ShutdownSetState(c) ==
  /\ MayCall(c)
  /\ sShutdown = "none"
  /\ sState' = "TERMINATED"
  /\ sShutdown' = "terminated"
  /\ UNCHANGED <<now, queueVars, threadVars, sSignalling, historyVars>>

ShutdownClear ==
  /\ sShutdown = "terminated"
  /\ sShutdown' = "cleared"
  /\ fate' = [e \in Events |-> IF e \in eventList THEN "deleted" ELSE fate[e]]
  /\ eventList' = {}
  /\ eventIds' = {}
  /\ UNCHANGED <<now, sState, due, eventId, lastEventId, threadVars,
                 sSignalling, cancelled>>

ShutdownNotify ==
  /\ sShutdown = "cleared"
  /\ sShutdown' = "done"
  /\ Notify
  /\ UNCHANGED <<now, sState, queueVars, deadline, event, sSignalling, historyVars>>

-----------------------------------------------------------------------------
(* threadMain *)

Check ==
  /\ spc = "check"
  /\ spc' = IF sState = "TERMINATED" THEN "stopped" ELSE "lock"
  /\ UNCHANGED <<now, sState, queueVars, deadline, event, sSignalling, sShutdown,
                 historyVars>>

(* wait() on an empty queue, wait_until(top()->getCycle()) otherwise.      *)
LockAndWait ==
  /\ spc = "lock"
  /\ \/ eventList = {} /\ spc' = "wait" /\ UNCHANGED deadline
     \/ \E top \in Tops(eventList, due) : spc' = "timedwait" /\ deadline' = due[top]
  /\ UNCHANGED <<now, sState, queueVars, event, sSignalling, sShutdown, historyVars>>

SpuriousWakeup ==
  /\ spc \in {"wait", "timedwait"}
  /\ spc' = "woken"
  /\ UNCHANGED <<now, sState, queueVars, deadline, event, sSignalling, sShutdown,
                 historyVars>>

Timeout ==
  /\ spc = "timedwait"
  /\ now >= deadline
  /\ spc' = "timedout"
  /\ UNCHANGED <<now, sState, queueVars, deadline, event, sSignalling, sShutdown,
                 historyVars>>

(* Any return but a timeout starts the loop again.                         *)
ResumeBy(reason) ==
  /\ spc = reason
  /\ spc' = "check"
  /\ UNCHANGED <<now, sState, queueVars, deadline, event, sSignalling, sShutdown,
                 historyVars>>

(* After a timeout the thread has the lock again, and the queue may have   *)
(* changed since it went to sleep.                                         *)
Resumed(reason) == reason = "timedout"

(* The id of a popped event decides whether it is deleted or handed over.  *)
IsQueued(e) == e \in eventList
IsActive(e) == eventId[e] \in eventIds

PopTop(reason) ==
  /\ spc = reason
  /\ Resumed(reason)
  /\ \E top \in Tops(eventList, due) :
       /\ eventList' = eventList \ {top}
       /\ \/ /\ IsActive(top)
             /\ eventIds' = eventIds \ {eventId[top]}
             /\ event' = top
             /\ fate' = [fate EXCEPT ![top] = "held"]
             /\ spc' = "handover"
          \/ /\ ~IsActive(top)
             /\ fate' = [fate EXCEPT ![top] = "deleted"]
             /\ spc' = "check"
             /\ UNCHANGED <<eventIds, event>>
  /\ UNCHANGED <<now, sState, due, eventId, lastEventId, deadline, sSignalling,
                 sShutdown, cancelled>>

Resume ==
  \/ ResumeBy("woken")
  \/ eventList = {} /\ ResumeBy("timedout")
  \/ \E reason \in {"woken", "timedout"} : PopTop(reason)

(* g_dispatcher.addTask(task, true)                                        *)
HandOver ==
  /\ spc = "handover"
  /\ spc' = "check"
  /\ fate' = [fate EXCEPT ![event] = "handed"]
  /\ event' = NoEvent
  /\ UNCHANGED <<now, sState, queueVars, deadline, sSignalling, sShutdown, cancelled>>

-----------------------------------------------------------------------------
ThreadStep == Check \/ LockAndWait \/ Timeout \/ Resume \/ HandOver

ShutdownStep == ShutdownClear \/ ShutdownNotify

CallerStep(c) ==
  \/ \E e \in Events, cycle \in 0 .. now + MaxDelay :
       cycle <= MaxTime /\ AddEvent(c, e, cycle)
  \/ Signal(c)
  \/ \E e \in Events : StopEvent(c, e)
  \/ ShutdownSetState(c)

Next ==
  \/ ThreadStep
  \/ SpuriousWakeup
  \/ Tick
  \/ Stop
  \/ ShutdownStep
  \/ \E c \in EventCallers : CallerStep(c)

(* Threads are scheduled and the clock runs; nobody is obliged to call.    *)
(* SF on Timeout: spurious wakeups do not forever precede the timeout.     *)
Fairness ==
  /\ WF_vars(ThreadStep) /\ WF_vars(Tick) /\ WF_vars(ShutdownStep)
  /\ SF_vars(Timeout)
  /\ \A c \in EventCallers : WF_vars(Signal(c))

Spec == Init /\ [][Next]_vars

FairSpec == Spec /\ Fairness

-----------------------------------------------------------------------------
(* Besides the types: the thread holds an event exactly while handing over.*)
TypeOK ==
  /\ now \in 0 .. MaxTime
  /\ sState \in ThreadStates
  /\ eventList \subseteq Events
  /\ due \in [Events -> 0 .. MaxTime]
  /\ eventId \in [Events -> 0 .. MaxId]
  /\ eventIds \subseteq 1 .. MaxId
  /\ lastEventId \in 0 .. MaxId
  /\ spc \in Places
  /\ deadline \in 0 .. MaxTime
  /\ event \in Events \union {NoEvent}
  /\ event # NoEvent <=> spc = "handover"
  /\ sSignalling \subseteq EventCallers
  /\ sShutdown \in {"none", "terminated", "cleared", "done"}
  /\ fate \in [Events -> EventFates]
  /\ cancelled \subseteq Events

(* No event is handed over before its time, although the queue may change  *)
(* between the timeout of the wait and the pop.                            *)
NeverEarly == spc = "handover" => due[event] <= now

(* The thread never sleeps past the earliest event: if an event is due     *)
(* before the deadline it sleeps for, a notification is on its way.        *)
NoOversleep ==
  \/ sSignalling # {}
  \/ /\ spc = "wait" => eventList = {}
     /\ spc = "timedwait" => \A e \in eventList : deadline <= due[e]

(* The thread hands over an event neither early nor late: it wakes up when *)
(* the top has changed, and looks again when it wakes up.                  *)
OnTime == NeverEarly /\ NoOversleep

(* stopEvent that returned true is obeyed, wherever the thread was.        *)
CancelIsFinal ==
  \A e \in cancelled : fate[e] \in {"pending", "deleted"}

(* The active ids are those of distinct queued events, so that stopping an *)
(* id stops the event it was returned for and no other.                    *)
IdsIdentify ==
  /\ \A id \in eventIds : \E e \in eventList : eventId[e] = id
  /\ \A e, f \in eventList : eventId[e] = eventId[f] => e = f
  /\ \A e \in eventList : eventId[e] # 0 /\ (e \notin cancelled => IsActive(e))

(* Once shutdown has emptied the queue nothing enters it again.            *)
EmptyAfterShutdown ==
  sShutdown \in {"cleared", "done"} => eventList = {} /\ eventIds = {}

(* Every event is handed over in the end unless it is stopped or the       *)
(* scheduler is shut down.                                                 *)
DueIsHandedOver ==
  \A e \in Events :
    fate[e] = "pending" ~>
      fate[e] = "handed" \/ e \in cancelled \/ sShutdown # "none"
=============================================================================
