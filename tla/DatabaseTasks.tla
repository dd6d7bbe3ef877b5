---------------------------- MODULE DatabaseTasks ----------------------------
(***************************************************************************)
(* The asynchronous database queue of src/src/databasetasks.cpp: a thread  *)
(* that runs queries from the head of a list, and flush, by which another  *)
(* thread (the dispatcher, in the server) helps to empty the list.         *)
(*                                                                         *)
(* The mutex taskLock makes a critical section one action; the loop test,  *)
(* notify_one and runTask happen outside it.  In runTask the query itself  *)
(* is atomic (Database::databaseLock); the hand-over of the callback to    *)
(* the dispatcher follows as a step of its own.                            *)
(***************************************************************************)
EXTENDS Naturals, Sequences

CONSTANTS
  QueryCallers,  \* threads that call DatabaseTasks::addTask
  Flusher,       \* the one of them that calls flush and shutdown
  DbThread,      \* the thread of DatabaseTasks
  Queries,       \* the DatabaseTask objects
  NoQuery

ASSUME DatabaseTasksAssumption ==
  /\ Flusher \in QueryCallers /\ DbThread \notin QueryCallers
  /\ NoQuery \notin Queries

VARIABLES
  bState,       \* threadState of DatabaseTasks
  tasks,        \* std::list<DatabaseTask> tasks
  bpc,          \* where the database thread is in threadMain
  fpc,          \* where the flusher is in flush
  hand,         \* the local variable "task" of threadMain and of flush
  bSignalling,  \* threads with signal set that have not notified yet
  bShutdown,    \* progress of DatabaseTasks::shutdown
  qStatus,      \* history: what became of every query
  arrival,      \* history: order in which the queries entered the list
  arrivals      \* history: how many did

vars == <<bState, tasks, bpc, fpc, hand, bSignalling, bShutdown, qStatus,
          arrival, arrivals>>

Runners == {DbThread, Flusher}

ThreadStates == {"RUNNING", "CLOSING", "TERMINATED"}
DbPlaces == {"check", "lock", "wait", "woken", "run", "stopped"}
QueryFates == {"new", "queued", "held", "executed", "done", "refused"}

(* DatabaseTasks::start                                                    *)
Init ==
  /\ bState = "RUNNING"
  /\ tasks = << >>
  /\ bpc = "check"
  /\ fpc = "idle"
  /\ hand = [r \in Runners |-> NoQuery]
  /\ bSignalling = {}
  /\ bShutdown = "none"
  /\ qStatus = [q \in Queries |-> "new"]
  /\ arrival = [q \in Queries |-> 0]
  /\ arrivals = 0

-----------------------------------------------------------------------------
Notify == bpc' = IF bpc = "wait" THEN "woken" ELSE bpc

MayCall(c) ==
  /\ c \notin bSignalling
  /\ c = Flusher => fpc = "idle" /\ bShutdown # "flushing"

(* signal = tasks.empty(), read before the push.                           *)
NeverSignals == FALSE
NeedsSignal == tasks = << >>

PlacedInFront(q) == <<q>> \o tasks
Placed(q) == Append(tasks, q)

AcceptsAlways == TRUE
Accepts == bState = "RUNNING"

AddTask(c, q) ==
  /\ MayCall(c)
  /\ qStatus[q] = "new"
  /\ \/ /\ Accepts
        /\ tasks' = Placed(q)
        /\ arrival' = [arrival EXCEPT ![q] = arrivals + 1]
        /\ arrivals' = arrivals + 1
        /\ qStatus' = [qStatus EXCEPT ![q] = "queued"]
        /\ bSignalling' = IF NeedsSignal THEN bSignalling \union {c} ELSE bSignalling
     \/ /\ ~Accepts
        /\ qStatus' = [qStatus EXCEPT ![q] = "refused"]
        /\ UNCHANGED <<tasks, arrival, arrivals, bSignalling>>
  /\ UNCHANGED <<bState, bpc, fpc, hand, bShutdown>>

Signal(c) ==
  /\ c \in bSignalling
  /\ bSignalling' = bSignalling \ {c}
  /\ Notify
  /\ UNCHANGED <<bState, tasks, fpc, hand, bShutdown, qStatus, arrival, arrivals>>

(* ThreadHolder::stop                                                      *)
Stop ==
  /\ bShutdown = "none"
  /\ bState' = "CLOSING"
  /\ UNCHANGED <<tasks, bpc, fpc, hand, bSignalling, bShutdown, qStatus,
                 arrival, arrivals>>

(* Both loops pop the head and release the lock before they run it.        *)
RestUnpopped == tasks
Rest == Tail(tasks)

TakeFirst(r) ==
  /\ tasks # << >>
  /\ hand' = [hand EXCEPT ![r] = Head(tasks)]
  /\ qStatus' = [qStatus EXCEPT ![Head(tasks)] = "held"]
  /\ tasks' = Rest

(* runTask: the query ...                                                  *)
Execute(r) ==
  /\ hand[r] # NoQuery
  /\ qStatus[hand[r]] = "held"
  /\ qStatus' = [qStatus EXCEPT ![hand[r]] = "executed"]
  /\ UNCHANGED <<bState, tasks, bpc, fpc, hand, bSignalling, bShutdown, arrival,
                 arrivals>>

(* ... then its callback, if any, goes to the dispatcher (see Server).     *)
StillHolding(r) == hand
Released(r) == [hand EXCEPT ![r] = NoQuery]

FinishRun(r) ==
  /\ hand[r] # NoQuery
  /\ qStatus[hand[r]] = "executed"
  /\ qStatus' = [qStatus EXCEPT ![hand[r]] = "done"]
  /\ hand' = Released(r)
  /\ bpc' = IF r = DbThread THEN "check" ELSE bpc
  /\ fpc' = IF r = Flusher THEN "lock" ELSE fpc
  /\ UNCHANGED <<bState, tasks, bSignalling, bShutdown, arrival, arrivals>>

-----------------------------------------------------------------------------
(* flush: one acquisition of the lock per round.                           *)
Flush ==
  /\ MayCall(Flusher)
  /\ fpc' = "lock"
  /\ UNCHANGED <<bState, tasks, bpc, hand, bSignalling, bShutdown, qStatus,
                 arrival, arrivals>>

FlushRound ==
  /\ fpc = "lock"
  /\ \/ TakeFirst(Flusher) /\ fpc' = "run"
     \/ tasks = << >> /\ fpc' = "idle" /\ UNCHANGED <<tasks, hand, qStatus>>
  /\ UNCHANGED <<bState, bpc, bSignalling, bShutdown, arrival, arrivals>>

(* shutdown: setState under the lock, flush, notify_one.                   *)
Shutdown ==
  /\ MayCall(Flusher)
  /\ bShutdown = "none"
  /\ bShutdown' = "flushing"
  /\ bState' = "TERMINATED"
  /\ fpc' = "lock"
  /\ UNCHANGED <<tasks, bpc, hand, bSignalling, qStatus, arrival, arrivals>>

ShutdownNotify ==
  /\ bShutdown = "flushing"
  /\ fpc = "idle"
  /\ bShutdown' = "done"
  /\ Notify
  /\ UNCHANGED <<bState, tasks, fpc, hand, bSignalling, qStatus, arrival, arrivals>>

-----------------------------------------------------------------------------
(* threadMain *)

Check ==
  /\ bpc = "check"
  /\ bpc' = IF bState = "TERMINATED" THEN "stopped" ELSE "lock"
  /\ UNCHANGED <<bState, tasks, fpc, hand, bSignalling, bShutdown, qStatus,
                 arrival, arrivals>>

LockAndTake ==
  /\ bpc = "lock"
  /\ \/ TakeFirst(DbThread) /\ bpc' = "run"
     \/ tasks = << >> /\ bpc' = "wait" /\ UNCHANGED <<tasks, hand, qStatus>>
  /\ UNCHANGED <<bState, fpc, bSignalling, bShutdown, arrival, arrivals>>

SpuriousWakeup ==
  /\ bpc = "wait"
  /\ bpc' = "woken"
  /\ UNCHANGED <<bState, tasks, fpc, hand, bSignalling, bShutdown, qStatus,
                 arrival, arrivals>>

Wakened ==
  /\ bpc = "woken"
  /\ \/ TakeFirst(DbThread) /\ bpc' = "run"
     \/ tasks = << >> /\ bpc' = "check" /\ UNCHANGED <<tasks, hand, qStatus>>
  /\ UNCHANGED <<bState, fpc, bSignalling, bShutdown, arrival, arrivals>>

-----------------------------------------------------------------------------
RunTask(r) == Execute(r) \/ FinishRun(r)

ThreadStep == Check \/ LockAndTake \/ Wakened \/ RunTask(DbThread)

FlusherStep == FlushRound \/ RunTask(Flusher) \/ ShutdownNotify

Next ==
  \/ ThreadStep
  \/ FlusherStep
  \/ SpuriousWakeup
  \/ Stop
  \/ Flush
  \/ Shutdown
  \/ \E c \in QueryCallers : Signal(c) \/ \E q \in Queries : AddTask(c, q)

(* Every runnable thread is scheduled and queries return; nobody is        *)
(* obliged to call.                                                        *)
Fairness ==
  /\ WF_vars(ThreadStep) /\ WF_vars(FlusherStep)
  /\ \A c \in QueryCallers : WF_vars(Signal(c))

Spec == Init /\ [][Next]_vars

FairSpec == Spec /\ Fairness

-----------------------------------------------------------------------------
Listed == {tasks[i] : i \in DOMAIN tasks}

(* Besides the types: a thread holds a query exactly while it runs it.     *)
TypeOK ==
  /\ bState \in ThreadStates
  /\ tasks \in Seq(Queries)
  /\ bpc \in DbPlaces
  /\ fpc \in {"idle", "lock", "run"}
  /\ hand \in [Runners -> Queries \union {NoQuery}]
  /\ hand[DbThread] # NoQuery <=> bpc = "run"
  /\ hand[Flusher] # NoQuery <=> fpc = "run"
  /\ bSignalling \subseteq QueryCallers
  /\ bShutdown \in {"none", "flushing", "done"}
  /\ qStatus \in [Queries -> QueryFates]
  /\ arrival \in [Queries -> Nat]
  /\ arrivals \in Nat

(* The database thread never sleeps beside a non-empty list unless a       *)
(* notification is on its way, although flush empties the list under it.   *)
NoLostWakeup ==
  (bpc = "wait" /\ tasks # << >>) => bSignalling # {}

(* Two threads drain the list, yet every query is run by one of them, once.*)
RunOnce ==
  /\ \A i, j \in DOMAIN tasks : tasks[i] = tasks[j] => i = j
  /\ \A q \in Queries : qStatus[q] = "queued" <=> q \in Listed
  /\ \A q \in Queries :
       qStatus[q] \in {"held", "executed"} <=> \E r \in Runners : hand[r] = q
  /\ hand[DbThread] = hand[Flusher] => hand[DbThread] = NoQuery

(* A query can be overtaken only while a thread has it in hand: at most    *)
(* one, then, is waiting when a later one has been executed.               *)
OnlyHeldIsOvertaken ==
  \A q, r \in Queries :
    /\ 0 < arrival[q] /\ arrival[q] < arrival[r]
    /\ qStatus[r] \in {"held", "executed", "done"}
    => qStatus[q] # "queued"

(* After shutdown the list stays empty: every accepted query has been run  *)
(* or is in the hand of the database thread.                               *)
NothingLeftBehind ==
  bShutdown = "done" => tasks = << >> /\ hand[Flusher] = NoQuery

(* Every accepted query is executed and its callback handed over, shutdown *)
(* or not: what the database thread leaves, flush takes.                   *)
AcceptedIsExecuted == \A q \in Queries : qStatus[q] = "queued" ~> qStatus[q] = "done"

=============================================================================
