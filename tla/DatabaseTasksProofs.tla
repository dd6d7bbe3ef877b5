------------------------- MODULE DatabaseTasksProofs -------------------------
(***************************************************************************)
(* Safety of the database queue for any number of callers and queries.     *)
(*                                                                         *)
(* Both threads take from the head and the list is numbered by arrival, so *)
(* what is taken is the oldest of what is queued; taking turns under the   *)
(* lock they never take the same query.  Once shutdown has changed the     *)
(* state nothing enters the list, so the flush that follows empties it for *)
(* good.                                                                   *)
(***************************************************************************)
EXTENDS DatabaseTasks, SequenceTheorems, TLAPS

ArrivalsInOrder ==
  /\ \A q \in Queries : arrival[q] <= arrivals
  /\ \A i, j \in DOMAIN tasks : i < j => arrival[tasks[i]] < arrival[tasks[j]]

ClosedForGood == bShutdown # "none" => bState = "TERMINATED"

FlushedOut == bShutdown = "flushing" /\ fpc = "idle" => tasks = << >>

IInv ==
  /\ TypeOK /\ NoLostWakeup /\ RunOnce /\ OnlyHeldIsOvertaken /\ NothingLeftBehind
  /\ ArrivalsInOrder /\ ClosedForGood /\ FlushedOut

(* What concerns the queries and not the threads' places.                  *)
QueueInv == RunOnce /\ OnlyHeldIsOvertaken /\ ArrivalsInOrder

QueueTypes ==
  /\ tasks \in Seq(Queries)
  /\ hand \in [Runners -> Queries \union {NoQuery}]
  /\ qStatus \in [Queries -> QueryFates]
  /\ arrival \in [Queries -> Nat]
  /\ arrivals \in Nat

(* The two threads are different, and neither holds a query at first.      *)
LEMMA TwoRunners == DbThread # Flusher /\ Runners = {DbThread, Flusher}
  BY DatabaseTasksAssumption DEF Runners

(* DatabaseTasks::start: an empty list and idle threads.                   *)
LEMMA InitIInv == Init => IInv
  BY DatabaseTasksAssumption, TwoRunners
  DEF Init, IInv, TypeOK, NoLostWakeup, RunOnce, OnlyHeldIsOvertaken,
      NothingLeftBehind, ArrivalsInOrder, ClosedForGood, FlushedOut, Listed,
      ThreadStates, DbPlaces, QueryFates

-----------------------------------------------------------------------------
(* A query that enters the list is the youngest.                           *)
LEMMA QueuePush ==
  ASSUME QueueTypes, QueueInv, NEW q \in Queries, qStatus[q] = "new",
         tasks' = Append(tasks, q),
         arrival' = [arrival EXCEPT ![q] = arrivals + 1],
         arrivals' = arrivals + 1,
         qStatus' = [qStatus EXCEPT ![q] = "queued"],
         UNCHANGED hand
  PROVE  QueueTypes' /\ QueueInv'
<1>1. /\ tasks \in Seq(Queries) /\ Len(tasks) \in Nat
      /\ DOMAIN tasks = 1 .. Len(tasks)
  BY LenProperties DEF QueueTypes
<1>2. /\ tasks' \in Seq(Queries)
      /\ DOMAIN tasks' = 1 .. Len(tasks) + 1
      /\ \A i \in 1 .. Len(tasks) : tasks'[i] = tasks[i]
      /\ tasks'[Len(tasks) + 1] = q
  BY <1>1, AppendProperties, LenProperties
<1>3. QueueTypes'
  BY <1>2 DEF QueueTypes, QueryFates
<1>4. \A i \in DOMAIN tasks : tasks[i] \in Queries /\ tasks[i] # q
  BY <1>1 DEF QueueInv, RunOnce, Listed
<1>5. RunOnce'
  <2>1. \A i, j \in DOMAIN tasks' : tasks'[i] = tasks'[j] => i = j
    BY <1>1, <1>2, <1>4 DEF QueueInv, RunOnce
  <2>2. Listed' = Listed \union {q}
    BY <1>1, <1>2 DEF Listed
  <2> QED
    BY <2>1, <2>2, SMTT(60) DEF QueueInv, QueueTypes, RunOnce
<1>6. OnlyHeldIsOvertaken'
  <2> SUFFICES ASSUME NEW s \in Queries, NEW r \in Queries,
                      0 < arrival'[s], arrival'[s] < arrival'[r],
                      qStatus'[r] \in {"held", "executed", "done"}
               PROVE  qStatus'[s] # "queued"
    BY DEF OnlyHeldIsOvertaken
  <2>1. r # q /\ qStatus[r] = qStatus'[r] /\ arrival'[r] = arrival[r]
    BY DEF QueueTypes
  <2>2. s # q
    BY <2>1 DEF QueueInv, QueueTypes, ArrivalsInOrder
  <2> QED
    BY <2>1, <2>2 DEF QueueInv, QueueTypes, OnlyHeldIsOvertaken
<1>7. ArrivalsInOrder'
  <2>1. \A s \in Queries : arrival'[s] <= arrivals'
    BY DEF QueueInv, QueueTypes, ArrivalsInOrder
  <2>2. \A i \in DOMAIN tasks : arrival'[tasks'[i]] = arrival[tasks[i]]
                                /\ arrival[tasks[i]] <= arrivals
    BY <1>1, <1>2, <1>4 DEF QueueInv, QueueTypes, ArrivalsInOrder
  <2>3. arrival'[tasks'[Len(tasks) + 1]] = arrivals + 1
    BY <1>2 DEF QueueTypes
  <2>4. ASSUME NEW i \in DOMAIN tasks', NEW j \in DOMAIN tasks', i < j
        PROVE  arrival'[tasks'[i]] < arrival'[tasks'[j]]
    <3>1. i \in DOMAIN tasks
      BY <1>1, <1>2, <2>4
    <3>2. CASE j \in DOMAIN tasks
      BY <2>2, <2>4, <3>1, <3>2 DEF QueueInv, ArrivalsInOrder
    <3>3. CASE j \notin DOMAIN tasks
      <4>1. j = Len(tasks) + 1
        BY <1>1, <1>2, <3>3
      <4>2. arrival[tasks[i]] \in Nat /\ arrivals \in Nat
        BY <1>4, <3>1 DEF QueueTypes
      <4> QED
        BY <2>2, <2>3, <3>1, <4>1, <4>2
    <3> QED
      BY <3>2, <3>3
  <2> QED
    BY <2>1, <2>4 DEF ArrivalsInOrder
<1> QED
  BY <1>3, <1>5, <1>6, <1>7 DEF QueueInv

(* A thread with an empty hand takes the oldest query that is queued.      *)
LEMMA QueueTake ==
  ASSUME QueueTypes, QueueInv, NEW r \in Runners, TakeFirst(r),
         hand[r] = NoQuery, UNCHANGED <<arrival, arrivals>>
  PROVE  /\ QueueTypes' /\ QueueInv'
         /\ tasks # << >> /\ hand'[r] # NoQuery
         /\ \A o \in Runners \ {r} : hand'[o] = hand[o]
<1> DEFINE h == Head(tasks)
<1>1. tasks # << >> /\ tasks \in Seq(Queries)
  BY DEF TakeFirst, QueueTypes
<1>2. /\ h \in Queries /\ h = tasks[1] /\ 1 \in DOMAIN tasks
      /\ tasks' \in Seq(Queries)
      /\ DOMAIN tasks = 1 .. Len(tasks) /\ Len(tasks) \in Nat \ {0}
      /\ DOMAIN tasks' = 1 .. Len(tasks) - 1
      /\ \A i \in DOMAIN tasks' : tasks'[i] = tasks[i + 1] /\ i + 1 \in DOMAIN tasks
  BY <1>1, EmptySeq, HeadTailProperties, LenProperties DEF TakeFirst, Rest
<1>3. /\ hand' = [hand EXCEPT ![r] = h]
      /\ qStatus' = [qStatus EXCEPT ![h] = "held"]
  BY DEF TakeFirst
<1> HIDE DEF h
<1>4. QueueTypes'
  BY <1>2, <1>3 DEF QueueTypes, QueryFates
<1>5. h # NoQuery /\ qStatus[h] = "queued"
  BY <1>2, DatabaseTasksAssumption DEF QueueInv, RunOnce, Listed
<1>6. \A o \in Runners : hand[o] # h
  BY <1>2, <1>5 DEF QueueInv, RunOnce
<1>7. Listed' = Listed \ {h}
  <2>1. \A i \in DOMAIN tasks' : tasks'[i] \in Listed /\ tasks'[i] # h
    BY <1>2 DEF QueueInv, RunOnce, Listed
  <2>2. ASSUME NEW i \in DOMAIN tasks, tasks[i] # h
        PROVE  tasks[i] \in Listed'
    <3>1. i - 1 \in DOMAIN tasks' /\ tasks'[i - 1] = tasks[(i - 1) + 1]
      BY <1>2, <2>2
    <3>2. (i - 1) + 1 = i
      BY <1>2
    <3> QED
      BY <3>1, <3>2 DEF Listed
  <2> QED
    BY <2>1, <2>2 DEF Listed
<1>8. RunOnce'
  <2>1. \A i, j \in DOMAIN tasks' : tasks'[i] = tasks'[j] => i = j
    BY <1>2 DEF QueueInv, RunOnce
  <2>2. \A s \in Queries : qStatus'[s] = "queued" <=> s \in Listed'
    BY <1>2, <1>3, <1>7 DEF QueueInv, QueueTypes, RunOnce
  <2>3. \A s \in Queries :
          qStatus'[s] \in {"held", "executed"} <=> \E o \in Runners : hand'[o] = s
    <3>1. \A s \in Queries \ {h} :
            qStatus'[s] = qStatus[s]
            /\ \A o \in Runners : hand'[o] = s <=> hand[o] = s
      BY <1>3, DatabaseTasksAssumption DEF QueueTypes
    <3>2. qStatus'[h] = "held" /\ hand'[r] = h
      BY <1>2, <1>3 DEF QueueTypes
    <3> QED
      BY <3>1, <3>2 DEF QueueInv, RunOnce
  <2>4. hand'[DbThread] = hand'[Flusher] => hand'[DbThread] = NoQuery
    BY <1>3, <1>6, TwoRunners DEF QueueTypes
  <2> QED
    BY <2>1, <2>2, <2>3, <2>4 DEF RunOnce
<1>9. OnlyHeldIsOvertaken'
  <2> SUFFICES ASSUME NEW s \in Queries, NEW u \in Queries,
                      0 < arrival[s], arrival[s] < arrival[u],
                      qStatus'[u] \in {"held", "executed", "done"},
                      qStatus'[s] = "queued"
               PROVE  FALSE
    BY DEF OnlyHeldIsOvertaken
  <2>1. s # h /\ qStatus[s] = "queued"
    BY <1>3 DEF QueueTypes
  <2>2. CASE u # h
    BY <1>3, <2>1, <2>2 DEF QueueInv, QueueTypes, OnlyHeldIsOvertaken
  <2>3. CASE u = h
    <3>1. PICK i \in DOMAIN tasks : tasks[i] = s
      BY <2>1 DEF QueueInv, RunOnce, Listed
    <3>2. 1 < i
      BY <1>2, <2>1, <3>1
    <3>3. arrival[h] < arrival[s]
      BY <1>2, <3>1, <3>2 DEF QueueInv, ArrivalsInOrder
    <3> QED
      BY <2>3, <3>3 DEF QueueTypes
  <2> QED
    BY <2>2, <2>3
<1>10. ArrivalsInOrder'
  <2>1. ASSUME NEW i \in DOMAIN tasks', NEW j \in DOMAIN tasks', i < j
        PROVE  arrival[tasks'[i]] < arrival[tasks'[j]]
    <3>1. i + 1 < j + 1 /\ {i + 1, j + 1} \subseteq DOMAIN tasks
      BY <1>2, <2>1
    <3> QED
      BY <1>2, <3>1 DEF QueueInv, ArrivalsInOrder
  <2> QED
    BY <2>1 DEF QueueInv, ArrivalsInOrder
<1> QED
  <2>1. hand'[r] # NoQuery /\ \A o \in Runners \ {r} : hand'[o] = hand[o]
    BY <1>3, <1>5 DEF QueueTypes
  <2> QED
    BY <1>1, <1>4, <1>8, <1>9, <1>10, <2>1 DEF QueueInv

(* runTask changes the fate of the query in hand, and then empties it.     *)
LEMMA QueueRun ==
  ASSUME QueueTypes, QueueInv, NEW r \in Runners, hand[r] # NoQuery,
         UNCHANGED <<tasks, arrival, arrivals>>,
         \/ /\ qStatus' = [qStatus EXCEPT ![hand[r]] = "executed"]
            /\ UNCHANGED hand
         \/ /\ qStatus' = [qStatus EXCEPT ![hand[r]] = "done"]
            /\ hand' = [hand EXCEPT ![r] = NoQuery]
  PROVE  QueueTypes' /\ QueueInv'
<1>1. /\ hand[r] \in Queries /\ qStatus[hand[r]] \in {"held", "executed"}
      /\ \A o \in Runners \ {r} : hand[o] # hand[r]
  BY TwoRunners DEF QueueInv, QueueTypes, RunOnce
<1>2. QueueTypes'
  BY <1>1 DEF QueueTypes, QueryFates
<1>3. \A s \in Queries :
        /\ qStatus'[s] = "queued" <=> qStatus[s] = "queued"
        /\ qStatus'[s] \in {"held", "executed", "done"} <=>
             qStatus[s] \in {"held", "executed", "done"}
  BY <1>1 DEF QueueTypes
<1>4. \A s \in Queries :
        qStatus'[s] \in {"held", "executed"} <=> \E o \in Runners : hand'[o] = s
  <2>1. ASSUME NEW s \in Queries, s # hand[r]
        PROVE  /\ qStatus'[s] = qStatus[s]
               /\ \A o \in Runners : hand'[o] = s <=> hand[o] = s
    BY <1>1, <2>1, DatabaseTasksAssumption DEF QueueTypes
  <2>2. CASE qStatus' = [qStatus EXCEPT ![hand[r]] = "executed"] /\ UNCHANGED hand
    <3>1. qStatus'[hand[r]] = "executed" /\ hand'[r] = hand[r]
      BY <1>1, <2>2 DEF QueueTypes
    <3> QED
      BY <2>1, <3>1 DEF QueueInv, RunOnce
  <2>3. CASE /\ qStatus' = [qStatus EXCEPT ![hand[r]] = "done"]
             /\ hand' = [hand EXCEPT ![r] = NoQuery]
    <3>1. qStatus'[hand[r]] = "done" /\ \A o \in Runners : hand'[o] # hand[r]
      BY <1>1, <2>3 DEF QueueTypes
    <3> QED
      BY <2>1, <3>1 DEF QueueInv, RunOnce
  <2> QED
    BY <2>2, <2>3
<1>5. hand'[DbThread] = hand'[Flusher] => hand'[DbThread] = NoQuery
  BY <1>1, TwoRunners DEF QueueInv, QueueTypes, RunOnce
<1>6. RunOnce' /\ OnlyHeldIsOvertaken' /\ ArrivalsInOrder'
  BY <1>3, <1>4, <1>5
  DEF QueueInv, RunOnce, OnlyHeldIsOvertaken, ArrivalsInOrder, Listed
<1> QED
  BY <1>2, <1>6 DEF QueueInv

-----------------------------------------------------------------------------
(* addTask: the query enters an open list, or is refused.                  *)
LEMMA AddInv ==
  ASSUME IInv, NEW c \in QueryCallers, NEW q \in Queries, AddTask(c, q)
  PROVE  IInv'
<1>1. TypeOK /\ QueueTypes /\ QueueInv
  BY DEF IInv, TypeOK, QueueTypes, QueueInv
<1>2. qStatus[q] = "new" /\ UNCHANGED <<bState, bpc, fpc, hand, bShutdown>>
  BY DEF AddTask
<1>3. CASE Accepts
  <2>1. /\ tasks' = Append(tasks, q)
        /\ arrival' = [arrival EXCEPT ![q] = arrivals + 1]
        /\ arrivals' = arrivals + 1
        /\ qStatus' = [qStatus EXCEPT ![q] = "queued"]
        /\ bSignalling' = IF tasks = << >> THEN bSignalling \union {c} ELSE bSignalling
    BY <1>3 DEF AddTask, Placed, NeedsSignal
  <2>2. QueueTypes' /\ QueueInv'
    BY <1>1, <1>2, <2>1, QueuePush
  <2>3. TypeOK'
    BY <1>1, <1>2, <2>1, <2>2 DEF TypeOK, QueueTypes
  <2>4. NoLostWakeup'
    BY <1>2, <2>1 DEF IInv, NoLostWakeup
  <2>5. bShutdown = "none"
    BY <1>3 DEF IInv, ClosedForGood, Accepts
  <2> QED
    BY <1>2, <2>2, <2>3, <2>4, <2>5
    DEF IInv, QueueInv, NothingLeftBehind, ClosedForGood, FlushedOut
<1>4. CASE ~Accepts
  <2>1. /\ qStatus' = [qStatus EXCEPT ![q] = "refused"]
        /\ UNCHANGED <<tasks, arrival, arrivals, bSignalling>>
    BY <1>4 DEF AddTask
  <2>2. TypeOK'
    BY <1>1, <1>2, <2>1 DEF TypeOK, QueryFates
  <2>3. \A s \in Queries : s # q => qStatus'[s] = qStatus[s]
    BY <1>1, <2>1 DEF TypeOK
  <2>4. qStatus'[q] = "refused" /\ UNCHANGED Listed
    BY <1>1, <2>1 DEF TypeOK, Listed
  <2>5. RunOnce' /\ OnlyHeldIsOvertaken'
    BY <1>2, <2>1, <2>3, <2>4 DEF IInv, RunOnce, OnlyHeldIsOvertaken
  <2> QED
    BY <1>2, <2>1, <2>2, <2>5
    DEF IInv, NoLostWakeup, NothingLeftBehind, ArrivalsInOrder, ClosedForGood,
        FlushedOut
<1> QED
  BY <1>3, <1>4

(* What a thread does with the list in hand: take a query, or go to wait,  *)
(* look again or return when there is none.                                *)
LEMMA TakeInv ==
  ASSUME IInv, LockAndTake \/ Wakened \/ FlushRound
  PROVE  IInv'
<1>1. TypeOK /\ QueueTypes /\ QueueInv
  BY DEF IInv, TypeOK, QueueTypes, QueueInv
<1>2. UNCHANGED <<bState, bSignalling, bShutdown, arrival, arrivals>>
  BY DEF LockAndTake, Wakened, FlushRound
<1>3. ASSUME TakeFirst(DbThread), bpc \in {"lock", "woken"}, bpc' = "run",
             UNCHANGED fpc
      PROVE  IInv'
  <2>1. DbThread \in Runners /\ hand[DbThread] = NoQuery
    BY <1>1, <1>3, TwoRunners DEF TypeOK
  <2>2. /\ QueueTypes' /\ QueueInv' /\ tasks # << >>
        /\ hand'[DbThread] # NoQuery /\ hand'[Flusher] = hand[Flusher]
    BY <1>1, <1>2, <1>3, <2>1, QueueTake, TwoRunners
  <2>3. TypeOK'
    BY <1>1, <1>2, <1>3, <2>2 DEF TypeOK, QueueTypes, DbPlaces
  <2> QED
    BY <1>2, <1>3, <2>2, <2>3
    DEF IInv, QueueInv, NoLostWakeup, NothingLeftBehind, ClosedForGood, FlushedOut
<1>4. ASSUME TakeFirst(Flusher), fpc = "lock", fpc' = "run", UNCHANGED bpc
      PROVE  IInv'
  <2>1. Flusher \in Runners /\ hand[Flusher] = NoQuery
    BY <1>1, <1>4, TwoRunners DEF TypeOK
  <2>2. /\ QueueTypes' /\ QueueInv' /\ tasks # << >>
        /\ hand'[Flusher] # NoQuery /\ hand'[DbThread] = hand[DbThread]
    BY <1>1, <1>2, <1>4, <2>1, QueueTake, TwoRunners
  <2>3. TypeOK'
    BY <1>1, <1>2, <1>4, <2>2 DEF TypeOK, QueueTypes
  <2>4. NoLostWakeup' /\ NothingLeftBehind'
    BY <1>2, <1>4, <2>2 DEF IInv, NoLostWakeup, NothingLeftBehind
  <2> QED
    BY <1>2, <1>4, <2>2, <2>3, <2>4
    DEF IInv, QueueInv, ClosedForGood, FlushedOut
<1>5. ASSUME tasks = << >>, UNCHANGED <<tasks, hand, qStatus>>,
             \/ bpc = "lock" /\ bpc' = "wait" /\ UNCHANGED fpc
             \/ bpc = "woken" /\ bpc' = "check" /\ UNCHANGED fpc
             \/ fpc = "lock" /\ fpc' = "idle" /\ UNCHANGED bpc
      PROVE  IInv'
  <2>1. TypeOK'
    BY <1>1, <1>2, <1>5 DEF TypeOK, DbPlaces
  <2>2. QueueInv'
    BY <1>1, <1>2, <1>5
    DEF QueueInv, RunOnce, OnlyHeldIsOvertaken, ArrivalsInOrder, Listed
  <2> QED
    BY <1>2, <1>5, <2>1, <2>2
    DEF IInv, QueueInv, NoLostWakeup, NothingLeftBehind, ClosedForGood, FlushedOut
<1> QED
  BY <1>3, <1>4, <1>5 DEF LockAndTake, Wakened, FlushRound

(* runTask: the query, then the hand-over of its callback.                 *)
LEMMA RunInv ==
  ASSUME IInv, NEW r \in Runners, RunTask(r)
  PROVE  IInv'
<1>1. TypeOK /\ QueueTypes /\ QueueInv
  BY DEF IInv, TypeOK, QueueTypes, QueueInv
<1>2. /\ hand[r] # NoQuery
      /\ UNCHANGED <<bState, tasks, bSignalling, bShutdown, arrival, arrivals>>
  BY DEF RunTask, Execute, FinishRun
<1>3. /\ QueueTypes' /\ QueueInv'
      /\ hand' \in {hand, [hand EXCEPT ![r] = NoQuery]}
  BY <1>1, <1>2, QueueRun DEF RunTask, Execute, FinishRun, Released
<1>4. TypeOK'
  <2>1. CASE Execute(r)
    BY <1>1, <1>3, <2>1 DEF Execute, TypeOK, QueueTypes
  <2>2. CASE FinishRun(r) /\ r = DbThread
    BY <1>1, <1>3, <2>2, TwoRunners
    DEF FinishRun, Released, TypeOK, QueueTypes, DbPlaces
  <2>3. CASE FinishRun(r) /\ r = Flusher
    BY <1>1, <1>3, <2>3, TwoRunners DEF FinishRun, Released, TypeOK, QueueTypes
  <2> QED
    BY <2>1, <2>2, <2>3, TwoRunners DEF RunTask
<1>5. /\ bpc' # "wait" \/ bpc' = bpc
      /\ fpc' # "idle" \/ fpc' = fpc
  BY DEF RunTask, Execute, FinishRun
<1>6. hand[Flusher] = NoQuery => hand'[Flusher] = NoQuery
  BY <1>1, <1>3, TwoRunners DEF QueueTypes
<1> QED
  BY <1>2, <1>3, <1>4, <1>5, <1>6
  DEF IInv, QueueInv, NoLostWakeup, NothingLeftBehind, ClosedForGood, FlushedOut

(* Everything that leaves the queue alone.                                 *)
LEMMA QuietInv ==
  ASSUME IInv,
         \/ Check \/ SpuriousWakeup \/ Stop \/ Flush \/ Shutdown \/ ShutdownNotify
         \/ \E c \in QueryCallers : Signal(c)
         \/ UNCHANGED vars
  PROVE  IInv'
<1> USE DEF IInv, TypeOK, MayCall, Notify
<1>1. UNCHANGED <<tasks, hand, qStatus, arrival, arrivals>>
  BY DEF Check, SpuriousWakeup, Stop, Flush, Shutdown, ShutdownNotify, Signal, vars
<1>2. RunOnce' /\ OnlyHeldIsOvertaken' /\ ArrivalsInOrder'
  BY <1>1 DEF RunOnce, OnlyHeldIsOvertaken, ArrivalsInOrder, Listed
<1> USE DEF NoLostWakeup, NothingLeftBehind, ClosedForGood, FlushedOut
<1>3. CASE Check
  BY <1>2, <1>3 DEF Check, DbPlaces
<1>4. CASE SpuriousWakeup
  BY <1>2, <1>4 DEF SpuriousWakeup, DbPlaces
<1>5. CASE Stop
  BY <1>2, <1>5 DEF Stop, ThreadStates
<1>6. CASE Flush
  BY <1>2, <1>6 DEF Flush
<1>7. CASE Shutdown
  BY <1>2, <1>7 DEF Shutdown, ThreadStates
<1>8. CASE ShutdownNotify
  BY <1>2, <1>8 DEF ShutdownNotify, DbPlaces
<1>9. ASSUME NEW c \in QueryCallers, Signal(c)
      PROVE  IInv'
  BY <1>2, <1>9 DEF Signal, DbPlaces
<1>10. CASE UNCHANGED vars
  BY <1>2, <1>10 DEF vars
<1> QED
  BY <1>3, <1>4, <1>5, <1>6, <1>7, <1>8, <1>9, <1>10

(* Every step keeps the invariant.                                         *)
LEMMA NextIInv == IInv /\ [Next]_vars => IInv'
<1> SUFFICES ASSUME IInv, [Next]_vars PROVE IInv'
  OBVIOUS
<1>1. CASE \/ Check \/ SpuriousWakeup \/ Stop \/ Flush \/ Shutdown \/ ShutdownNotify
           \/ \E c \in QueryCallers : Signal(c)
           \/ UNCHANGED vars
  BY <1>1, QuietInv
<1>2. CASE LockAndTake \/ Wakened \/ FlushRound
  BY <1>2, TakeInv
<1>3. CASE RunTask(DbThread) \/ RunTask(Flusher)
  BY <1>3, RunInv, TwoRunners
<1>4. CASE \E c \in QueryCallers, q \in Queries : AddTask(c, q)
  BY <1>4, AddInv
<1> QED
  BY <1>1, <1>2, <1>3, <1>4 DEF Next, ThreadStep, FlusherStep

-----------------------------------------------------------------------------
(* IInv is an invariant of the queue.                                      *)
THEOREM Invariance == Spec => []IInv
  BY InitIInv, NextIInv, PTL DEF Spec

(* The types of databasetasks.cpp's state; a thread holds a query exactly  *)
(* while it runs it.                                                       *)
THEOREM TypeCorrect == Spec => []TypeOK
  BY Invariance, PTL DEF IInv

(* addTask notifies after the unlock and only for an empty list, and flush *)
(* empties the list behind the thread's back; still it never sleeps beside *)
(* a query with no notification on its way.                                *)
THEOREM NeverLostWakeup == Spec => []NoLostWakeup
  BY Invariance, PTL DEF IInv

(* threadMain and flush never run the same query, nor one of them twice.   *)
THEOREM AlwaysRunOnce == Spec => []RunOnce
  BY Invariance, PTL DEF IInv

(* Queries are taken in the order in which addTask accepted them, whoever  *)
(* takes them.                                                             *)
THEOREM TakenInOrder == Spec => []OnlyHeldIsOvertaken
  BY Invariance, PTL DEF IInv

(* When DatabaseTasks::shutdown returns nothing is queued, for good.       *)
THEOREM NothingEverLeftBehind == Spec => []NothingLeftBehind
  BY Invariance, PTL DEF IInv
=============================================================================
