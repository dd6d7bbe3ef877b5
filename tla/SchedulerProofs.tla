--------------------------- MODULE SchedulerProofs ---------------------------
(***************************************************************************)
(* Proofs about Scheduler, for any set of threads and of events, any clock *)
(* bound and any width of the event ids.                                   *)
(*                                                                         *)
(* The heart of the argument is DeadlineStands: the deadline of the wait   *)
(* the thread is in was the due time of an event, and until the thread     *)
(* wakes up only shutdown takes events out of the queue.  So a timeout     *)
(* means that the earliest event is due (NeverEarly), and the notification *)
(* rule of addEvent keeps the deadline from being too late (NoOversleep).  *)
(***************************************************************************)
EXTENDS Scheduler, FiniteSets, FiniteSetTheorems, TLAPS

(* The history agrees with the queue and with the thread's hand.           *)
FatesAgree ==
  /\ \A e \in eventList : fate[e] = "pending"
  /\ spc = "handover" => fate[event] = "held"

TimeoutIsDue == spc = "timedout" => deadline <= now

DeadlineStands ==
  spc \in {"timedwait", "timedout"} =>
    \/ sShutdown \in {"cleared", "done"}
    \/ \E e \in eventList : due[e] <= deadline

ClosedForGood == sShutdown # "none" => sState = "TERMINATED"

IInv ==
  /\ TypeOK
  /\ FatesAgree
  /\ TimeoutIsDue
  /\ DeadlineStands
  /\ ClosedForGood
  /\ NeverEarly
  /\ NoOversleep
  /\ EmptyAfterShutdown

USE DEF AcceptWhileRunning, DoSignal, IdsAfterStop, Resumed, NextId

(* An empty queue, and no thread yet.                                      *)
LEMMA InitIInv == Init => IInv
  BY SchedulerAssumption
  DEF Init, IInv, TypeOK, FatesAgree, TimeoutIsDue, DeadlineStands, ClosedForGood,
      NeverEarly, NoOversleep, EmptyAfterShutdown, ThreadStates, Places, EventFates

-----------------------------------------------------------------------------
(* addEvent: the queue grows by an event that nobody refers to yet.        *)
LEMMA AddInv ==
  ASSUME IInv, NEW c \in EventCallers, NEW e \in Events,
         NEW cycle \in 0 .. now + MaxDelay, cycle <= MaxTime, AddEvent(c, e, cycle)
  PROVE  IInv'
<1> USE SchedulerAssumption DEF IInv, AddEvent, MayCall, threadVars, queueVars
<1>1. TypeOK'
  <2>1. NextId \in 1 .. MaxId /\ cycle \in 0 .. MaxTime
    BY DEF TypeOK
  <2> HIDE DEF NextId
  <2>2. eventId \in [Events -> 0 .. MaxId] /\ NextId \in 0 .. MaxId
    BY <2>1 DEF TypeOK
  <2>3. eventId' = eventId \/ eventId' = [eventId EXCEPT ![e] = NextId]
    OBVIOUS
  <2>4. eventId' \in [Events -> 0 .. MaxId]
    BY ONLY <2>2, <2>3
  <2>5. eventIds' \subseteq 1 .. MaxId
    BY <2>1, ZenonT(60) DEF TypeOK
  <2> QED
    BY <2>1, <2>4, <2>5 DEF TypeOK, ThreadStates, Places, EventFates
<1>2. FatesAgree'
  BY DEF TypeOK, FatesAgree
<1>3. TimeoutIsDue' /\ ClosedForGood'
  BY DEF TimeoutIsDue, ClosedForGood
<1>4. DeadlineStands'
  BY DEF TypeOK, FatesAgree, DeadlineStands
<1>5. NeverEarly'
  BY DEF TypeOK, FatesAgree, NeverEarly
<1>6. NoOversleep'
  <2>1. CASE fate' = [fate EXCEPT ![e] = "refused"] /\ UNCHANGED <<eventList, due, sSignalling>>
    BY <2>1 DEF NoOversleep
  <2>2. CASE /\ sState = "RUNNING"
             /\ eventList' = eventList \union {e}
             /\ due' = [due EXCEPT ![e] = cycle]
             /\ UNCHANGED sSignalling
             /\ {e} # Tops(eventList', due') \/ e \notin Tops(eventList', due')
             /\ sSignalling = {}
    <3>1. \A f \in eventList : f # e /\ due'[f] = due[f]
      BY <2>2 DEF FatesAgree, TypeOK
    <3>2. PICK f \in eventList : due[f] <= cycle
      BY <2>2, <3>1 DEF Tops, TypeOK
    <3>3. spc # "wait" /\ (spc = "timedwait" => deadline <= due[f])
      BY <2>2, <3>2 DEF NoOversleep
    <3> QED
      BY <2>2, <3>1, <3>2, <3>3 DEF NoOversleep, TypeOK
  <2>3. CASE sSignalling' # {}
    BY <2>3 DEF NoOversleep
  <2> QED
    BY <2>1, <2>2, <2>3
<1>7. EmptyAfterShutdown'
  BY DEF EmptyAfterShutdown, ClosedForGood
<1> QED
  BY <1>1, <1>2, <1>3, <1>4, <1>5, <1>6, <1>7

(* The other calls: none of them takes an event out of the queue before    *)
(* shutdown does, and those that wake the thread send it to its loop test. *)
LEMMA CallInv ==
  ASSUME IInv,
         \/ Tick \/ Stop \/ ShutdownStep
         \/ \E c \in EventCallers :
              \/ Signal(c) \/ ShutdownSetState(c)
              \/ \E e \in Events : StopEvent(c, e)
  PROVE  IInv'
<1> USE SchedulerAssumption
    DEF IInv, TypeOK, FatesAgree, TimeoutIsDue, DeadlineStands, ClosedForGood,
        NeverEarly, NoOversleep, EmptyAfterShutdown, ThreadStates, Places,
        EventFates, queueVars, threadVars, historyVars, Notify, MayCall
<1>1. CASE Tick
  BY <1>1 DEF Tick
<1>2. CASE Stop
  BY <1>2 DEF Stop
<1>3. CASE ShutdownClear
  BY <1>3 DEF ShutdownClear
<1>4. CASE ShutdownNotify
  BY <1>4 DEF ShutdownNotify
<1>5. ASSUME NEW c \in EventCallers, Signal(c)
      PROVE  IInv'
  BY <1>5 DEF Signal
<1>6. ASSUME NEW c \in EventCallers, ShutdownSetState(c)
      PROVE  IInv'
  BY <1>6 DEF ShutdownSetState
<1>7. ASSUME NEW c \in EventCallers, NEW e \in Events, StopEvent(c, e)
      PROVE  IInv'
  BY <1>7 DEF StopEvent
<1> QED
  BY <1>1, <1>2, <1>3, <1>4, <1>5, <1>6, <1>7 DEF ShutdownStep

(* threadMain up to the pop: the thread moves, the queue does not.         *)
LEMMA MoveInv ==
  ASSUME IInv,
         \/ Check \/ LockAndWait \/ SpuriousWakeup \/ Timeout \/ HandOver
         \/ ResumeBy("woken")
         \/ eventList = {} /\ ResumeBy("timedout")
  PROVE  IInv'
<1> USE SchedulerAssumption
    DEF IInv, TypeOK, FatesAgree, TimeoutIsDue, DeadlineStands, ClosedForGood,
        NeverEarly, NoOversleep, EmptyAfterShutdown, ThreadStates, Places,
        EventFates, queueVars, threadVars, historyVars
<1>1. CASE Check
  BY <1>1 DEF Check
<1>2. CASE LockAndWait
  BY <1>2 DEF LockAndWait, Tops
<1>3. CASE SpuriousWakeup
  BY <1>3 DEF SpuriousWakeup
<1>4. CASE Timeout
  BY <1>4 DEF Timeout
<1>5. CASE HandOver
  BY <1>5 DEF HandOver
<1>6. CASE ResumeBy("woken")
  BY <1>6 DEF ResumeBy
<1>7. CASE eventList = {} /\ ResumeBy("timedout")
  BY <1>7 DEF ResumeBy
<1> QED
  BY <1>1, <1>2, <1>3, <1>4, <1>5, <1>6, <1>7

(* The pop: the top is no later than the event the deadline was taken from.*)
LEMMA PopInv ==
  ASSUME IInv, NEW reason, PopTop(reason)
  PROVE  IInv'
<1> USE SchedulerAssumption DEF IInv, PopTop
<1>1. PICK top \in Tops(eventList, due) :
        /\ eventList' = eventList \ {top}
        /\ \/ /\ IsActive(top)
              /\ eventIds' = eventIds \ {eventId[top]}
              /\ event' = top
              /\ fate' = [fate EXCEPT ![top] = "held"]
              /\ spc' = "handover"
           \/ /\ ~IsActive(top)
              /\ fate' = [fate EXCEPT ![top] = "deleted"]
              /\ spc' = "check"
              /\ UNCHANGED <<eventIds, event>>
  OBVIOUS
<1>2. top \in eventList /\ top \in Events /\ spc = "timedout"
  BY DEF Tops, TypeOK
<1>3. TypeOK'
  BY <1>1, <1>2 DEF TypeOK, ThreadStates, Places, EventFates
<1>4. FatesAgree'
  BY <1>1, <1>2 DEF TypeOK, FatesAgree
<1>5. NeverEarly'
  <2>1. PICK e \in eventList : due[e] <= deadline
    BY <1>2 DEF DeadlineStands, EmptyAfterShutdown
  <2>2. due[top] <= due[e] /\ deadline <= now
    BY <1>2, <2>1 DEF Tops, TimeoutIsDue
  <2>3. due[top] <= now
    BY <1>2, <2>1, <2>2 DEF TypeOK
  <2> QED
    BY <1>1, <2>3 DEF NeverEarly
<1>6. TimeoutIsDue' /\ DeadlineStands' /\ ClosedForGood' /\ NoOversleep'
  BY <1>1 DEF TimeoutIsDue, DeadlineStands, ClosedForGood, NoOversleep
<1>7. EmptyAfterShutdown'
  BY <1>1, <1>2 DEF EmptyAfterShutdown
<1> QED
  BY <1>3, <1>4, <1>5, <1>6, <1>7

(* Every step of a caller or of the thread keeps the invariant.            *)
LEMMA NextIInv == IInv /\ [Next]_vars => IInv'
<1> SUFFICES ASSUME IInv, [Next]_vars
             PROVE  IInv'
  OBVIOUS
<1>1. CASE UNCHANGED vars
  BY <1>1
  DEF IInv, TypeOK, FatesAgree, TimeoutIsDue, DeadlineStands, ClosedForGood,
      NeverEarly, NoOversleep, EmptyAfterShutdown, vars
<1>2. CASE ThreadStep \/ SpuriousWakeup
  BY <1>2, MoveInv, PopInv DEF ThreadStep, Resume
<1>3. CASE Tick \/ Stop \/ ShutdownStep
  BY <1>3, CallInv
<1>4. ASSUME NEW c \in EventCallers, CallerStep(c)
      PROVE  IInv'
  BY <1>4, AddInv, CallInv DEF CallerStep
<1> QED
  BY <1>1, <1>2, <1>3, <1>4 DEF Next

(* IInv is an invariant of the scheduler.                                  *)
THEOREM Invariance == Spec => []IInv
  BY InitIInv, NextIInv, PTL DEF Spec

(* Type correctness of scheduler.cpp's state, and of the thread's hand.    *)
THEOREM TypeCorrect == Spec => []TypeOK
  BY Invariance, PTL DEF IInv

(* threadMain hands no event to the dispatcher before its cycle, although  *)
(* it pops whatever is the top after the wait.                             *)
THEOREM NeverHandsOverEarly == Spec => []NeverEarly
  BY Invariance, PTL DEF IInv

(* addEvent's do_signal rule suffices: the thread is never asleep beyond   *)
(* the due time of the earliest event with no notification on its way.     *)
THEOREM NeverOversleeps == Spec => []NoOversleep
  BY Invariance, PTL DEF IInv

(* Both together: threadMain hands over neither early nor, but for a       *)
(* notification that has yet to arrive, late.                              *)
THEOREM AlwaysOnTime == Spec => []OnTime
  BY Invariance, PTL DEF IInv, OnTime

(* Scheduler::shutdown leaves the queue and the ids empty for good.        *)
THEOREM EmptyOnceShutDown == Spec => []EmptyAfterShutdown
  BY Invariance, PTL DEF IInv

-----------------------------------------------------------------------------
(* What a true stopEvent promises holds as long as the 32-bit id counter   *)
(* does not come round to an id somebody still holds while it is queued.   *)
IdsNotReused ==
  \A e \in eventList, f \in Events : eventId[e] = eventId[f] => e = f

CancelInv ==
  /\ CancelIsFinal
  /\ \A e \in eventList : fate[e] = "pending" /\ (e \in cancelled => ~IsActive(e))
  /\ \A id \in eventIds : \E e \in eventList : eventId[e] = id

(* ... and, as long as no id is reused, what a stopped event rests on.     *)
LEMMA NextCancelInv ==
  ASSUME IInv, IdsNotReused, IdsNotReused', CancelInv, [Next]_vars
  PROVE  CancelInv'
<1> USE SchedulerAssumption
    DEF CancelInv, CancelIsFinal, IsActive, queueVars, threadVars, historyVars
<1>1. CASE UNCHANGED vars
  BY <1>1 DEF vars
<1>2. ASSUME NEW c \in EventCallers, NEW e \in Events, NEW cycle, AddEvent(c, e, cycle)
      PROVE  CancelInv'
  <2> USE <1>2 DEF AddEvent
  <2>1. CASE sState # "RUNNING"
    BY <2>1 DEF IInv, TypeOK
  <2>2. CASE sState = "RUNNING"
    <3> HIDE DEF NextId
    <3>1. /\ eventList' = eventList \union {e}
          /\ eventIds' = eventIds \union {NextId}
          /\ eventId' = [eventId EXCEPT ![e] = NextId]
          /\ fate' = [fate EXCEPT ![e] = "pending"]
          /\ cancelled' = cancelled
      BY <2>2
    <3>2. e \notin eventList /\ e \notin cancelled /\ eventList \subseteq Events
      BY DEF IInv, TypeOK
    <3>3. /\ eventId'[e] = NextId
          /\ \A f \in Events \ {e} : eventId'[f] = eventId[f] /\ fate'[f] = fate[f]
          /\ fate'[e] = "pending"
      BY <3>1 DEF IInv, TypeOK
    <3>4. \A f \in eventList : eventId[f] # NextId
      BY <3>1, <3>2, <3>3 DEF IdsNotReused
    <3>5. CancelIsFinal'
      BY <3>1, <3>2, <3>3 DEF IInv, TypeOK
    <3> QED
      BY <3>1, <3>2, <3>3, <3>4, <3>5
  <2> QED
    BY <2>1, <2>2
<1>3. ASSUME NEW c \in EventCallers, NEW e \in Events, StopEvent(c, e)
      PROVE  CancelInv'
  <2>1. e \in eventList
    BY <1>3 DEF StopEvent, IInv, TypeOK, IdsNotReused
  <2> QED
    BY <1>3, <2>1 DEF StopEvent, IInv, TypeOK, IdsNotReused
<1>4. ASSUME NEW reason, PopTop(reason)
      PROVE  CancelInv'
  <2>1. PICK top \in eventList :
          /\ eventList' = eventList \ {top}
          /\ UNCHANGED <<eventId, cancelled>>
          /\ \/ /\ IsActive(top)
                /\ eventIds' = eventIds \ {eventId[top]}
                /\ fate' = [fate EXCEPT ![top] = "held"]
             \/ /\ ~IsActive(top)
                /\ fate' = [fate EXCEPT ![top] = "deleted"]
                /\ UNCHANGED eventIds
    BY <1>4 DEF PopTop, Tops
  <2>2. top \in Events /\ \A f \in Events \ {top} : fate'[f] = fate[f]
    BY <2>1 DEF IInv, TypeOK
  <2>3. \A f \in eventList \ {top} : eventId[f] # eventId[top]
    BY <2>1, <2>2 DEF IdsNotReused
  <2>4. CancelIsFinal'
    BY <2>1, <2>2 DEF IInv, TypeOK
  <2>5. \A f \in eventList' : fate'[f] = "pending" /\ (f \in cancelled' => ~IsActive(f)')
    BY <2>1, <2>2 DEF IInv, TypeOK
  <2>6. \A id \in eventIds' : \E f \in eventList' : eventId'[f] = id
    BY <2>1, <2>2, <2>3
  <2> QED
    BY <2>4, <2>5, <2>6
<1>5. CASE HandOver
  BY <1>5 DEF HandOver, IInv, TypeOK, FatesAgree
<1>6. CASE ShutdownClear
  BY <1>6 DEF ShutdownClear, IInv, TypeOK
<1>7. CASE \/ Tick \/ Stop \/ ShutdownNotify \/ Check \/ LockAndWait
           \/ SpuriousWakeup \/ Timeout \/ ResumeBy("woken") \/ ResumeBy("timedout")
           \/ \E c \in EventCallers : Signal(c) \/ ShutdownSetState(c)
  BY <1>7 DEF Tick, Stop, ShutdownNotify, Check, LockAndWait, SpuriousWakeup,
              Timeout, ResumeBy, Signal, ShutdownSetState
<1> QED
  BY <1>1, <1>2, <1>3, <1>4, <1>5, <1>6, <1>7
  DEF Next, ThreadStep, Resume, ShutdownStep, CallerStep

(* An event whose stopEvent returned true is never handed over, if no id   *)
(* is given out twice among the events somebody may still stop.            *)
THEOREM CancelObeyed == Spec /\ []IdsNotReused => []CancelIsFinal
<1>1. Init => CancelInv
  BY DEF Init, CancelInv, CancelIsFinal
<1>2. IInv /\ IdsNotReused /\ IdsNotReused' /\ CancelInv /\ [Next]_vars => CancelInv'
  BY NextCancelInv
<1>3. CancelInv => CancelIsFinal
  BY DEF CancelInv
<1> QED
  BY <1>1, <1>2, <1>3, Invariance, PTL DEF Spec

(* What else a queued event's id rests on: it is active unless stopped.    *)
ActiveUnlessStopped ==
  \A e \in eventList : eventId[e] # 0 /\ (e \notin cancelled => IsActive(e))

(* ... kept by every step as long as no id is reused.                      *)
LEMMA NextActive ==
  ASSUME IInv, IdsNotReused, ActiveUnlessStopped, [Next]_vars
  PROVE  ActiveUnlessStopped'
<1> USE SchedulerAssumption
    DEF ActiveUnlessStopped, IsActive, queueVars, threadVars, historyVars
<1>1. CASE UNCHANGED vars
  BY <1>1 DEF vars
<1>2. ASSUME NEW c \in EventCallers, NEW e \in Events, NEW cycle, AddEvent(c, e, cycle)
      PROVE  ActiveUnlessStopped'
  <2>1. NextId # 0
    BY DEF IInv, TypeOK
  <2> HIDE DEF NextId
  <2> QED
    BY <1>2, <2>1 DEF AddEvent, IInv, TypeOK
<1>3. ASSUME NEW c \in EventCallers, NEW e \in Events, StopEvent(c, e)
      PROVE  ActiveUnlessStopped'
  BY <1>3 DEF StopEvent, IInv, TypeOK, IdsNotReused
<1>4. ASSUME NEW reason, PopTop(reason)
      PROVE  ActiveUnlessStopped'
  BY <1>4 DEF PopTop, Tops, IInv, TypeOK, IdsNotReused
<1>5. CASE ShutdownClear
  BY <1>5 DEF ShutdownClear
<1>6. CASE \/ Tick \/ Stop \/ ShutdownNotify \/ Check \/ LockAndWait \/ HandOver
           \/ SpuriousWakeup \/ Timeout \/ ResumeBy("woken") \/ ResumeBy("timedout")
           \/ \E c \in EventCallers : Signal(c) \/ ShutdownSetState(c)
  BY <1>6 DEF Tick, Stop, ShutdownNotify, Check, LockAndWait, HandOver, SpuriousWakeup,
              Timeout, ResumeBy, Signal, ShutdownSetState
<1> QED
  BY <1>1, <1>2, <1>3, <1>4, <1>5, <1>6
  DEF Next, ThreadStep, Resume, ShutdownStep, CallerStep

(* The active ids are those of distinct queued events, each that of an     *)
(* event that was not stopped, if no id is reused while its event waits.   *)
THEOREM IdsIdentifyUnlessReused == Spec /\ []IdsNotReused => []IdsIdentify
<1>1. Init => CancelInv /\ ActiveUnlessStopped
  BY DEF Init, CancelInv, CancelIsFinal, ActiveUnlessStopped
<1>2. /\ IInv /\ IdsNotReused /\ IdsNotReused'
      /\ CancelInv /\ ActiveUnlessStopped /\ [Next]_vars
      => CancelInv' /\ ActiveUnlessStopped'
  BY NextCancelInv, NextActive
<1>3. IInv /\ IdsNotReused /\ CancelInv /\ ActiveUnlessStopped => IdsIdentify
  BY DEF IInv, TypeOK, IdsNotReused, CancelInv, ActiveUnlessStopped, IdsIdentify
<1> QED
  BY <1>1, <1>2, <1>3, Invariance, PTL DEF Spec

-----------------------------------------------------------------------------
(* An id is reused only when the counter comes round: not as long as there *)
(* are no more events than ids.  Given are the events that have an id, and *)
(* Age(id) says how many ids have been given out since.                    *)
FewEvents == IsFiniteSet(Events) /\ Cardinality(Events) <= MaxId

Given == {e \in Events : eventId[e] # 0}

Age(id) == IF id <= lastEventId THEN lastEventId - id ELSE lastEventId + MaxId - id

FreshInv ==
  /\ \A e \in Events : fate[e] = "new" => eventId[e] = 0
  /\ \A e \in eventList : eventId[e] # 0
  /\ \A e, f \in Given : eventId[e] = eventId[f] => e = f
  /\ \A e \in Given : Age(eventId[e]) < Cardinality(Given)

(* addEvent gives out the oldest id, which nobody has; the others age.     *)
LEMMA AddFresh ==
  ASSUME FewEvents, IInv, FreshInv, NEW c \in EventCallers, NEW e \in Events, NEW cycle,
         AddEvent(c, e, cycle), sState = "RUNNING"
  PROVE  FreshInv'
<1> USE SchedulerAssumption
<1>1. /\ eventId \in [Events -> 0 .. MaxId] /\ eventList \subseteq Events
      /\ fate \in [Events -> EventFates]
      /\ lastEventId \in 0 .. MaxId /\ lastEventId' = NextId /\ NextId \in 1 .. MaxId
      /\ eventList' = eventList \union {e}
      /\ eventId' = [eventId EXCEPT ![e] = NextId]
      /\ fate' = [fate EXCEPT ![e] = "pending"] /\ fate[e] = "new"
  BY DEF AddEvent, IInv, TypeOK
<1>2. Given' = Given \union {e} /\ e \notin Given /\ Given \subseteq Events
  <2> HIDE DEF NextId
  <2> QED
    BY <1>1 DEF Given, FreshInv
<1>3. /\ IsFiniteSet(Given) /\ Cardinality(Given) \in Nat
      /\ Cardinality(Given') = Cardinality(Given) + 1
      /\ Cardinality(Given') <= MaxId
  <2>1. IsFiniteSet(Given) /\ Cardinality(Given) \in Nat
    BY <1>2, FS_Subset, FS_CardinalityType DEF FewEvents
  <2>2. Cardinality(Given') = Cardinality(Given) + 1
    BY <1>2, <2>1, FS_AddElement
  <2>3. Given' \subseteq Events
    BY <1>2
  <2>4. Cardinality(Given') <= Cardinality(Events) /\ Cardinality(Events) \in Nat
    BY <2>3, FS_Subset, FS_CardinalityType DEF FewEvents
  <2> QED
    BY <2>1, <2>2, <2>4 DEF FewEvents
<1>4. ASSUME NEW f \in Given
      PROVE  /\ eventId[f] # NextId
             /\ eventId'[f] = eventId[f]
             /\ Age(eventId[f])' = Age(eventId[f]) + 1
  <2>1. eventId[f] \in 1 .. MaxId /\ f # e
    BY <1>1, <1>2 DEF Given
  <2>2. eventId'[f] = eventId[f]
    BY <1>1, <1>2, <2>1
  <2>3. Age(eventId[f]) < MaxId - 1
    BY <1>1, <1>3, <2>1 DEF FreshInv, Age
  <2>4. eventId[f] # NextId
    BY <1>1, <2>1, <2>3 DEF Age
  <2>5. (IF eventId[f] <= NextId THEN NextId - eventId[f] ELSE NextId + MaxId - eventId[f])
          = Age(eventId[f]) + 1
    BY <1>1, <2>1, <2>3 DEF Age
  <2> QED
    BY <1>1, <2>2, <2>4, <2>5 DEF Age
<1>5. eventId'[e] = NextId /\ Age(eventId[e])' = 0
  BY <1>1 DEF Age
<1>6. \A f \in Given' : Age(eventId[f])' < Cardinality(Given')
  <2> SUFFICES ASSUME NEW f \in Given'
               PROVE  Age(eventId[f])' < Cardinality(Given')
    OBVIOUS
  <2>1. CASE f = e
    BY <1>3, <1>5, <2>1
  <2>2. CASE f \in Given
    <3>1. Age(eventId[f]) \in Int
      BY <1>1, <2>2 DEF Age, Given
    <3>2. Age(eventId[f]) < Cardinality(Given)
      BY <2>2 DEF FreshInv
    <3> QED
      BY <1>3, <1>4, <2>2, <3>1, <3>2
  <2> QED
    BY <1>2, <2>1, <2>2
<1> HIDE DEF NextId
<1>7. \A f, g \in Given' : eventId'[f] = eventId'[g] => f = g
  BY <1>2, <1>4, <1>5 DEF FreshInv
<1>8. /\ \A f \in Events : fate'[f] = "new" => eventId'[f] = 0
      /\ \A f \in eventList' : eventId'[f] # 0
  BY <1>1 DEF FreshInv
<1> QED
  BY <1>6, <1>7, <1>8 DEF FreshInv

(* No other step gives out an id.                                          *)
LEMMA NextFresh ==
  ASSUME FewEvents, IInv, FreshInv, [Next]_vars
  PROVE  FreshInv'
<1> USE SchedulerAssumption
<1>1. ASSUME UNCHANGED <<eventId, lastEventId>>, eventList' \subseteq eventList,
             \A e \in Events : fate'[e] = "new" => fate[e] = "new"
      PROVE  FreshInv'
  BY <1>1 DEF FreshInv, Given, Age
<1> USE DEF IInv, TypeOK, FatesAgree, queueVars, threadVars, historyVars
<1>2. CASE UNCHANGED vars
  BY <1>1, <1>2 DEF vars
<1>3. ASSUME NEW c \in EventCallers, NEW e \in Events, NEW cycle, AddEvent(c, e, cycle)
      PROVE  FreshInv'
  <2>1. CASE sState = "RUNNING"
    BY <1>3, <2>1, AddFresh
  <2>2. CASE sState # "RUNNING"
    BY <1>1, <1>3, <2>2 DEF AddEvent
  <2> QED
    BY <2>1, <2>2
<1>4. ASSUME NEW c \in EventCallers, NEW e \in Events, StopEvent(c, e)
      PROVE  FreshInv'
  BY <1>1, <1>4 DEF StopEvent
<1>5. ASSUME NEW reason, PopTop(reason)
      PROVE  FreshInv'
  BY <1>1, <1>5 DEF PopTop
<1>6. CASE ShutdownClear
  BY <1>1, <1>6 DEF ShutdownClear
<1>7. CASE HandOver
  BY <1>1, <1>7 DEF HandOver
<1>8. CASE \/ Tick \/ Stop \/ ShutdownNotify \/ Check \/ LockAndWait
           \/ SpuriousWakeup \/ Timeout \/ ResumeBy("woken") \/ ResumeBy("timedout")
           \/ \E c \in EventCallers : Signal(c) \/ ShutdownSetState(c)
  BY <1>1, <1>8 DEF Tick, Stop, ShutdownNotify, Check, LockAndWait, SpuriousWakeup,
                    Timeout, ResumeBy, Signal, ShutdownSetState
<1> QED
  BY <1>2, <1>3, <1>4, <1>5, <1>6, <1>7, <1>8
  DEF Next, ThreadStep, Resume, ShutdownStep, CallerStep

(* So no id is reused as long as at most MaxId events exist.               *)
THEOREM IdsAreFresh ==
  ASSUME FewEvents
  PROVE  Spec => []IdsNotReused
<1>1. Init => FreshInv
  BY SchedulerAssumption DEF Init, FreshInv, Given
<1>2. IInv /\ FreshInv /\ [Next]_vars => FreshInv'
  BY NextFresh
<1>3. IInv /\ FreshInv => IdsNotReused
  BY DEF IInv, TypeOK, FreshInv, Given, IdsNotReused
<1> QED
  BY <1>1, <1>2, <1>3, Invariance, PTL DEF Spec

(* With no more events than ids, a stopEvent that returned true is obeyed. *)
THEOREM StoppedStaysStopped ==
  ASSUME FewEvents
  PROVE  Spec => []CancelIsFinal
  BY IdsAreFresh, CancelObeyed, PTL

(* ... and an id identifies the event it was returned for.                 *)
THEOREM IdsStayApart ==
  ASSUME FewEvents
  PROVE  Spec => []IdsIdentify
  BY IdsAreFresh, IdsIdentifyUnlessReused, PTL
=============================================================================
