----------------------------- MODULE Dispatcher -----------------------------
(***************************************************************************)
(* The dispatcher of src/src/tasks.cpp: one worker thread that runs tasks  *)
(* taken from the head of a list, and any number of threads that append    *)
(* to the list (addTask) or, for the scheduler, push in front of it.       *)
(*                                                                         *)
(* The mutex taskLock makes a critical section one action.  What the code  *)
(* does OUTSIDE the lock is an action of its own: the loop test reads the  *)
(* atomic threadState without it, addTask calls notify_one after having    *)
(* released it, and the task body runs without it.                         *)
(*                                                                         *)
(* The module stands alone (Spec below, with callers that do anything the  *)
(* interface allows) and is the building block of Server, which instances  *)
(* its actions.                                                            *)
(***************************************************************************)
EXTENDS Naturals, Sequences

CONSTANTS
  Callers,        \* threads, other than the worker, that call addTask
  Worker,         \* the dispatcher thread
  Tasks,          \* the Task objects; each is handed over at most once
  ShutdownTasks,  \* those created by Dispatcher::shutdown
  Expiring,       \* those created with an expiration (createTask(ms, f))
  NoTask          \* "no task in hand"

ASSUME DispatcherAssumption ==
  /\ Worker \notin Callers
  /\ NoTask \notin Tasks
  /\ ShutdownTasks \subseteq Tasks
  /\ Expiring \subseteq Tasks \ ShutdownTasks

VARIABLES
  dState,      \* threadState of the dispatcher
  taskList,    \* std::list<Task*> taskList, head first
  dpc,         \* where the worker is in threadMain
  task,        \* the task it holds
  signalling,  \* threads with do_signal set that have not notified yet
  status,      \* history: what became of every task
  ticket,      \* history: order of the push_backs, 0 for a push_front
  lastTicket   \* history: how many push_backs there were

vars == <<dState, taskList, dpc, task, signalling, status, ticket, lastTicket>>

Threads == Callers \union {Worker}

ThreadStates == {"RUNNING", "CLOSING", "TERMINATED"}
WorkerPlaces == {"check", "lock", "wait", "woken", "popped", "run", "stopped"}
Fates == {"new", "queued", "held", "running", "done", "expired", "refused"}

Init ==
  /\ dState = "RUNNING"
  /\ taskList = << >>
  /\ dpc = "check"
  /\ task = NoTask
  /\ signalling = {}
  /\ status = [t \in Tasks |-> "new"]
  /\ ticket = [t \in Tasks |-> 0]
  /\ lastTicket = 0

-----------------------------------------------------------------------------
(* notify_one: the worker is the only thread that ever waits.              *)
Notify == dpc' = IF dpc = "wait" THEN "woken" ELSE dpc

(* A thread is free to call when its previous call has returned; the       *)
(* worker calls only from the body of a task.                              *)
MayCall(c) ==
  /\ c \notin signalling
  /\ c = Worker => dpc = "run"

(* History of a push: only those at the back are numbered.                 *)
Number(t, push_front) ==
  /\ ticket' = [ticket EXCEPT ![t] = IF push_front THEN 0 ELSE lastTicket + 1]
  /\ lastTicket' = IF push_front THEN lastTicket ELSE lastTicket + 1
  /\ status' = [status EXCEPT ![t] = "queued"]

(* do_signal = taskList.empty(), read before the push.                     *)
DoSignalWhenBusy == taskList # << >>

DoSignal == taskList = << >>

PlacedAlwaysInFront(t, push_front) == <<t>> \o taskList

Placed(t, push_front) ==
  IF push_front THEN <<t>> \o taskList ELSE Append(taskList, t)

(* The critical section of addTask.                                        *)
AddTask(c, t, push_front) ==
  /\ MayCall(c)
  /\ status[t] = "new"
  /\ t \notin ShutdownTasks
  /\ \/ /\ dState = "RUNNING"
        /\ taskList' = Placed(t, push_front)
        /\ Number(t, push_front)
        /\ signalling' = IF DoSignal THEN signalling \union {c} ELSE signalling
     \/ /\ dState # "RUNNING"
        /\ status' = [status EXCEPT ![t] = "refused"]
        /\ UNCHANGED <<taskList, ticket, lastTicket, signalling>>
  /\ UNCHANGED <<dState, dpc, task>>

(* taskSignal.notify_one() of addTask, after taskLock.unlock().            *)
Signal(c) ==
  /\ c \in signalling
  /\ signalling' = signalling \ {c}
  /\ Notify
  /\ UNCHANGED <<dState, taskList, task, status, ticket, lastTicket>>

(* ThreadHolder::stop: no lock.  The server stops its dispatcher from a    *)
(* task body, hence never after its termination.                           *)
Stop ==
  /\ MayCall(Worker)
  /\ dState' = "CLOSING"
  /\ UNCHANGED <<taskList, dpc, task, signalling, status, ticket, lastTicket>>

(* Dispatcher::shutdown appends whatever the state, and notifies with the  *)
(* lock still held.                                                        *)
Shutdown(c, t) ==
  /\ MayCall(c)
  /\ t \in ShutdownTasks
  /\ status[t] = "new"
  /\ taskList' = Append(taskList, t)
  /\ Number(t, FALSE)
  /\ Notify
  /\ UNCHANGED <<dState, task, signalling>>

-----------------------------------------------------------------------------
(* threadMain *)

Check ==
  /\ dpc = "check"
  /\ dpc' = IF dState = "TERMINATED" THEN "stopped" ELSE "lock"
  /\ UNCHANGED <<dState, taskList, task, signalling, status, ticket, lastTicket>>

RestUnpopped == taskList
Rest == Tail(taskList)

PopFirst ==
  /\ task' = Head(taskList)
  /\ taskList' = Rest
  /\ status' = [status EXCEPT ![Head(taskList)] = "held"]
  /\ dpc' = "popped"

(* First acquisition of the lock in an iteration: pop, or wait.            *)
LockAndTake ==
  /\ dpc = "lock"
  /\ \/ taskList # << >> /\ PopFirst
     \/ taskList = << >> /\ dpc' = "wait" /\ UNCHANGED <<task, taskList, status>>
  /\ UNCHANGED <<dState, signalling, ticket, lastTicket>>

(* A condition variable may wake its waiter without a notification.        *)
SpuriousWakeup ==
  /\ dpc = "wait"
  /\ dpc' = "woken"
  /\ UNCHANGED <<dState, taskList, task, signalling, status, ticket, lastTicket>>

(* wait() returns with the lock; the list is tested again.                 *)
Wakened ==
  /\ dpc = "woken"
  /\ \/ taskList # << >> /\ PopFirst
     \/ taskList = << >> /\ dpc' = "check" /\ UNCHANGED <<task, taskList, status>>
  /\ UNCHANGED <<dState, signalling, ticket, lastTicket>>

(* hasExpired() is false: the body starts.                                 *)
StartTask ==
  /\ dpc = "popped"
  /\ dpc' = "run"
  /\ status' = [status EXCEPT ![task] = "running"]
  /\ UNCHANGED <<dState, taskList, task, signalling, ticket, lastTicket>>

(* hasExpired() is true: the task is deleted without having run.           *)
SkipExpired ==
  /\ dpc = "popped"
  /\ task \in Expiring
  /\ status' = [status EXCEPT ![task] = "expired"]
  /\ dpc' = "check"
  /\ UNCHANGED <<dState, taskList, task, signalling, ticket, lastTicket>>

DropExpired ==
  /\ dpc = "popped"
  /\ task \in Expiring
  /\ status' = [status EXCEPT ![task] = "expired"]
  /\ task' = NoTask
  /\ dpc' = "check"
  /\ UNCHANGED <<dState, taskList, signalling, ticket, lastTicket>>

(* The body of a shutdown task is its setState; its notify_one finds       *)
(* nobody waiting, since the worker is running it.                         *)
StateAfterBody == IF task \in ShutdownTasks THEN "TERMINATED" ELSE dState

(* The body returns and the task is deleted.                               *)
FinishTask ==
  /\ dpc = "run"
  /\ Worker \notin signalling
  /\ status' = [status EXCEPT ![task] = "done"]
  /\ dState' = StateAfterBody
  /\ task' = NoTask
  /\ dpc' = "check"
  /\ UNCHANGED <<taskList, signalling, ticket, lastTicket>>

-----------------------------------------------------------------------------
WorkerStep ==
  Check \/ LockAndTake \/ Wakened \/ StartTask \/ DropExpired \/ FinishTask

CallerStep(c) ==
  \/ \E t \in Tasks, push_front \in BOOLEAN : AddTask(c, t, push_front)
  \/ Signal(c)
  \/ \E t \in Tasks : Shutdown(c, t)

Next == WorkerStep \/ SpuriousWakeup \/ Stop \/ \E c \in Threads : CallerStep(c)

(* The operating system schedules every runnable thread; nobody is obliged *)
(* to call.  Task bodies terminate.                                        *)
Fairness == WF_vars(WorkerStep) /\ \A c \in Threads : WF_vars(Signal(c))

Spec == Init /\ [][Next]_vars

FairSpec == Spec /\ Fairness

-----------------------------------------------------------------------------
Listed == {taskList[i] : i \in DOMAIN taskList}

(* Besides the types: the worker holds a task exactly while it is at one.  *)
TypeOK ==
  /\ dState \in ThreadStates
  /\ taskList \in Seq(Tasks)
  /\ dpc \in WorkerPlaces
  /\ task \in Tasks \union {NoTask}
  /\ task # NoTask <=> dpc \in {"popped", "run"}
  /\ signalling \subseteq Threads
  /\ status \in [Tasks -> Fates]
  /\ ticket \in [Tasks -> Nat]
  /\ lastTicket \in Nat

(* No lost wakeup: addTask notifies only when it found the list empty, and *)
(* only after having released the lock; yet the worker never sleeps on a   *)
(* non-empty list unless a notification is on its way.                     *)
NoLostWakeup ==
  (dpc = "wait" /\ taskList # << >>) => signalling # {}

(* Every accepted task is in exactly one place: once in the list, or in    *)
(* the hands of the worker, or disposed of - so it is deleted, and run, at *)
(* most once.                                                              *)
OnePlace ==
  /\ \A i, j \in DOMAIN taskList : taskList[i] = taskList[j] => i = j
  /\ \A t \in Tasks : status[t] = "queued" <=> t \in Listed
  /\ \A t \in Tasks : status[t] \in {"held", "running"} <=> t = task

(* Tasks appended with push_back leave the list in the order in which they *)
(* entered it, whatever the scheduler pushes in front of them.             *)
Overtaken(s, t) ==
  /\ status[s] = "queued"
  /\ status[t] \notin {"new", "queued"}
  /\ 0 < ticket[s] /\ ticket[s] < ticket[t]

FirstComeFirstServed == \A s, t \in Tasks : ~Overtaken(s, t)

(* An accepted task is run (or dropped as expired) unless the worker stops *)
(* first.                                                                  *)
AcceptedIsServed ==
  \A t \in Tasks :
    status[t] = "queued" ~> status[t] \in {"done", "expired"} \/ dpc = "stopped"

=============================================================================
