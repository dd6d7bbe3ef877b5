---------------------------- MODULE ServerProofs ----------------------------
(***************************************************************************)
(* The threads together keep what each component promises: Server          *)
(* implements Dispatcher, Scheduler and DatabaseTasks, whose theorems      *)
(* (DispatcherProofs, SchedulerProofs, DatabaseTasksProofs) thus hold for  *)
(* it, for any number of events, signals, logins and queries.              *)
(*                                                                         *)
(* The safety of the shutdown follows from where the tasks stand in the    *)
(* dispatcher's list (ListOrder): events are only ever pushed in front of  *)
(* everything else; Game::shutdown is queued by a body that closes the     *)
(* dispatcher before it ends, so that nothing is pushed in front of it     *)
(* any more once it has been taken; and the poison, queued by it, is the   *)
(* last.                                                                   *)
(***************************************************************************)
EXTENDS Server, SequenceTheorems, TLAPS

DP == INSTANCE DispatcherProofs
        WITH Callers <- {Main, Schedule, Database}, Worker <- Dispatch,
             ShutdownTasks <- {Poison}, Expiring <- {}, NoTask <- None

(* The clock stops at MaxTime; the last event is due one period later.     *)
SP == INSTANCE SchedulerProofs
        WITH EventCallers <- {Dispatch}, NoEvent <- None, MaxDelay <- EventDelay,
             MaxTime <- MaxTime + EventDelay

BP == INSTANCE DatabaseTasksProofs
        WITH QueryCallers <- {Main, Dispatch}, Flusher <- Dispatch,
             DbThread <- Database, NoQuery <- None

-----------------------------------------------------------------------------
(* The life of the process.                                                *)

Loading == mpc \in {"start", "started", "waiting"}

Running(kind, places) == dpc = "run" /\ task \in kind /\ body \in places

Loaded == status[MainLoader] = "done" \/ Running({MainLoader}, {"end"})

(* A body is at a place of the kind of its task.                           *)
BodyAt(kind, places) == dpc = "run" /\ task \in kind => body \in places

BodyPlaces ==
  /\ dpc = "run" <=> body # "idle"
  /\ BodyAt({MainLoader}, {"begin", "events", "end"})
  /\ BodyAt(Events, {"begin", "think", "end"})
  /\ BodyAt(Logins \union WithCallback \union {Poison}, {"begin", "end"})
  /\ BodyAt(SaveSignals, {"begin", "saved", "end"})
  /\ BodyAt(TermSignals, {"begin", "kicked", "saved", "stopScheduler", "stopDatabase",
                          "stopDispatcher", "end"})
  /\ BodyAt({GameShutdown}, {"begin", "database", "dispatcher", "teardown", "end"})

(* Signals come after the loader; the game state says what the dispatcher  *)
(* is at.                                                                  *)
StatesAgree ==
  /\ ~Loading => Loaded
  /\ Loading => /\ \A t \in TermSignals \union SaveSignals : status[t] = "new"
                /\ gameState # "SHUTDOWN"
  /\ Loaded => gameState \in {"NORMAL", "MAINTAIN", "SHUTDOWN"}
  /\ Running(TermSignals, {"kicked", "saved", "stopScheduler", "stopDatabase",
                           "stopDispatcher"}) => gameState = "SHUTDOWN"
  /\ status[GameShutdown] # "new" => gameState = "SHUTDOWN"
  /\ fpc # "idle" => gameState \in {"MAINTAIN", "SHUTDOWN"}

(* Where the tasks of the shutdown stand in the list.                      *)
EventsFirst(q) == \A i, j \in DOMAIN q : q[i] \in Events /\ q[j] \notin Events => i < j
PoisonLast(q) == \A i \in DOMAIN q : q[i] = Poison => i = Len(q)
NoEvents(q) == \A i \in DOMAIN q : q[i] \notin Events

Closing == Running(TermSignals, {"stopScheduler", "stopDatabase", "stopDispatcher"})

ListOrder ==
  /\ EventsFirst(taskList) /\ PoisonLast(taskList)
  /\ status[GameShutdown] # "new" =>
       dState # "RUNNING" \/ (status[GameShutdown] = "queued" /\ Closing)
  /\ status[GameShutdown] \in {"held", "running", "done"} =>
       task \notin Events /\ NoEvents(taskList)
  /\ status[Poison] \in {"held", "running", "done"} => taskList = << >>

(* What has ended.                                                         *)
Endings ==
  /\ world = "down" => status[GameShutdown] \in {"held", "running", "done"}
  /\ Running({GameShutdown}, {"dispatcher", "teardown"}) => bShutdown \in {"flushing", "done"}
  /\ status[Poison] # "new" => dState # "RUNNING" /\ bShutdown = "done"
  /\ dState = "TERMINATED" => status[Poison] = "done"
  /\ dpc = "stopped" => dState = "TERMINATED"
  /\ mpc \in {"joinDispatcher", "exit"} => bpc = "stopped"
  /\ mpc = "exit" => dpc = "stopped"

RestTypes ==
  /\ now \in 0 .. MaxTime
  /\ mpc \in {"start", "started", "waiting", "io", "first", "bans", "admitted",
              "joinScheduler", "joinDatabase", "joinDispatcher", "exit"}
  /\ login \in Logins \union {None}
  /\ login # None <=> mpc \in {"first", "bans", "admitted"}
  /\ gameState \in GameStates
  /\ services \in {"closed", "open", "stopping", "stopped"}
  /\ online \subseteq Logins
  /\ world \in {"up", "down"}

IInv == BodyPlaces /\ StatesAgree /\ ListOrder /\ Endings

(* What the components' theorems give.                                     *)
PartsOK ==
  /\ D!TypeOK /\ D!OnePlace
  /\ B!TypeOK /\ B!RunOnce /\ B!NothingLeftBehind

-----------------------------------------------------------------------------
(* Every step of a thread is a step of each component, or leaves it alone. *)

LEMMA Apart ==
  /\ MainLoader \notin {GameShutdown, Poison} \union Events \union TermSignals
                         \union SaveSignals \union Logins \union WithCallback
  /\ GameShutdown \notin {Poison} \union Events \union TermSignals
                           \union SaveSignals \union Logins \union WithCallback
  /\ Poison \notin Events \union TermSignals \union SaveSignals \union Logins
                     \union WithCallback
  /\ \A t \in Events : t \notin TermSignals \union SaveSignals \union Logins \union WithCallback
  /\ \A t \in TermSignals : t \notin SaveSignals \union Logins \union WithCallback
  /\ \A t \in SaveSignals : t \notin Logins \union WithCallback
  /\ \A t \in Logins : t \notin WithCallback
<1> DEFINE kinds == <<{MainLoader}, {GameShutdown}, {Poison}, Events, TermSignals,
                      SaveSignals, Logins, WithCallback>>
<1>1. \A i, j \in 1 .. 8 : i # j => kinds[i] \cap kinds[j] = {}
  BY ServerAssumption
<1>2. /\ kinds[1] = {MainLoader} /\ kinds[2] = {GameShutdown} /\ kinds[3] = {Poison}
      /\ kinds[4] = Events /\ kinds[5] = TermSignals /\ kinds[6] = SaveSignals
      /\ kinds[7] = Logins /\ kinds[8] = WithCallback
  OBVIOUS
<1> HIDE DEF kinds
<1> QED
  BY <1>1, <1>2

(* main, the game state, the services and the players.                     *)
LEMMA InitRest == Init => RestTypes
  BY ServerAssumption DEF Init, RestTypes, GameStates, S!Init, Tasks

(* A step that touches neither the clock nor main nor the game.            *)
LEMMA RestSame ==
  ASSUME RestTypes, UNCHANGED <<now, mpc, login, gameState, services, online, world>>
  PROVE  RestTypes'
  BY DEF RestTypes

(* A step of main's keeps them.                                            *)
LEMMA MainRest == ASSUME RestTypes, MainStep PROVE RestTypes'
<1>1. CASE MainStart \/ MainWait \/ Join
  BY <1>1, ServerAssumption
  DEF MainStart, MainWait, Join, MainMoves, RestTypes, sVars, gameVars, Tasks
<1>2. CASE IoSecondRead
  BY <1>2, ServerAssumption
  DEF IoSecondRead, MainMoves, RestTypes, sVars, gameVars, Tasks
<1>3. CASE IoLogin
  BY <1>3, ServerAssumption DEF IoLogin, RestTypes, sVars, gameVars, Tasks
<1>4. CASE IoDie
  BY <1>4 DEF IoDie, MainMoves, RestTypes, sVars
<1>5. CASE NotifyDispatcher(Main) \/ NotifyDatabase(Main)
  BY <1>5, RestSame DEF NotifyDispatcher, NotifyDatabase, sVars, ioVars, gameVars
<1> QED
  BY <1>1, <1>2, <1>3, <1>4, <1>5 DEF MainStep

(* So does the body of the load or of an event ...                         *)
LEMMA EventRest == ASSUME RestTypes, LoaderStep \/ EventStep PROVE RestTypes'
<1>1. CASE LoaderOpens
  BY <1>1 DEF LoaderOpens, RestTypes, GameStates, sVars, ioVars
<1>2. CASE LoaderDone
  BY <1>2 DEF LoaderDone, RestTypes, GameStates, sVars
<1>3. ASSUME NEW e, LoaderStarts(e)
      PROVE  RestTypes'
  BY <1>3, RestSame DEF LoaderStarts, S!AddEvent, ioVars, gameVars
<1>4. ASSUME NEW e, EventReschedules(e)
      PROVE  RestTypes'
  BY <1>4, RestSame DEF EventReschedules, S!AddEvent, ioVars, gameVars
<1>5. ASSUME NEW q, EventQueries(q)
      PROVE  RestTypes'
  BY <1>5, RestSame DEF EventQueries, sVars, ioVars, gameVars
<1>6. CASE EventEnds \/ CallbackEnds
  BY <1>6, RestSame DEF EventEnds, CallbackEnds, sVars, ioVars, gameVars
<1> QED
  BY <1>1, <1>2, <1>3, <1>4, <1>5, <1>6 DEF LoaderStep, EventStep

(* ... and that of a login or of a save.                                   *)
LEMMA SaveRest ==
  ASSUME RestTypes, LoginStep \/ SaveBegins \/ SaveEnds \/ FlushStep
  PROVE  RestTypes'
<1>1. CASE LoginPlaces
  BY <1>1 DEF LoginPlaces, BodyMoves, RestTypes, sVars, ioVars
<1>2. CASE LoginRejects
  BY <1>2, RestSame DEF LoginRejects, sVars, ioVars, gameVars
<1>3. CASE SaveBegins
  BY <1>3 DEF SaveBegins, StateWhileSaving, RestTypes, GameStates, sVars, ioVars
<1>4. CASE SaveEnds
  BY <1>4 DEF SaveEnds, StateAfterSaving, RestTypes, GameStates, sVars, ioVars
<1>5. CASE FlushStep
  BY <1>5, RestSame DEF FlushStep, sVars, ioVars, gameVars
<1> QED
  BY <1>1, <1>2, <1>3, <1>4, <1>5 DEF LoginStep

(* ... and every step of the shutdown.                                     *)
LEMMA ShutdownRest == ASSUME RestTypes, ShutdownStep PROVE RestTypes'
<1>1. CASE ShutdownAgain
  BY <1>1, RestSame DEF ShutdownAgain, sVars, ioVars, gameVars
<1>2. CASE ShutdownKicks
  BY <1>2 DEF ShutdownKicks, RestTypes, GameStates, sVars, ioVars
<1>3. CASE ShutdownSaves
  BY <1>3, RestSame DEF ShutdownSaves, sVars, ioVars, gameVars
<1>4. CASE ShutdownQueues
  BY <1>4, RestSame DEF ShutdownQueues, sVars, ioVars, gameVars
<1>5. CASE ShutdownStopsScheduler
  BY <1>5, RestSame DEF ShutdownStopsScheduler, S!Stop, ioVars, gameVars
<1>6. CASE ShutdownStopsDatabase
  BY <1>6, RestSame DEF ShutdownStopsDatabase, sVars, ioVars, gameVars
<1>7. CASE ShutdownStopsDispatcher
  BY <1>7, RestSame DEF ShutdownStopsDispatcher, sVars, ioVars, gameVars
<1>8. CASE GameShutdownScheduler
  BY <1>8, RestSame DEF GameShutdownScheduler, S!ShutdownSetState, ioVars, gameVars
<1>9. CASE SchedulerShutdownStep
  BY <1>9, RestSame
  DEF SchedulerShutdownStep, S!ShutdownClear, S!ShutdownNotify, ioVars, gameVars
<1>10. CASE GameShutdownDatabase
  BY <1>10, RestSame DEF GameShutdownDatabase, sVars, ioVars, gameVars
<1>11. CASE DatabaseShutdownStep
  BY <1>11, RestSame DEF DatabaseShutdownStep, sVars, ioVars, gameVars
<1>12. CASE GameShutdownDispatcher
  BY <1>12, RestSame DEF GameShutdownDispatcher, sVars, ioVars, gameVars
<1>13. CASE GameShutdownTearsDown
  BY <1>13 DEF GameShutdownTearsDown, ServicesAfterTeardown, RestTypes, sVars, ioVars
<1> QED
  BY <1>1, <1>2, <1>3, <1>4, <1>5, <1>6, <1>7, <1>8, <1>9, <1>10, <1>11, <1>12, <1>13
  DEF ShutdownStep

(* Of the threads, only the clock is left.                                 *)
LEMMA ThreadRest ==
  ASSUME RestTypes, DispatcherThread \/ BeginBody \/ EndBody \/ ScheduleStep \/ DatabaseThread
  PROVE  RestTypes'
<1>1. CASE DispatcherThread \/ BeginBody \/ EndBody
  BY <1>1, RestSame DEF DispatcherThread, BeginBody, EndBody, sVars, ioVars, gameVars
<1>2. CASE SchedulerThread
  <2>1. UNCHANGED <<ioVars, gameVars>>
    BY <1>2 DEF SchedulerThread
  <2>2. S!Check => now' = now
    BY DEF S!Check
  <2>3. S!LockAndWait => now' = now
    BY DEF S!LockAndWait, S!PopTop
  <2>4. S!Timeout => now' = now
    BY DEF S!Timeout, S!ResumeBy, S!PopTop
  <2>5. S!Resume => now' = now
    BY DEF S!Resume, S!ResumeBy, S!PopTop
  <2> QED
    BY <1>2, <2>1, <2>2, <2>3, <2>4, <2>5, RestSame DEF SchedulerThread, ioVars, gameVars
<1>3. CASE SchedulerHandOver
  BY <1>3, RestSame DEF SchedulerHandOver, S!HandOver, ioVars, gameVars
<1>4. CASE NotifyDispatcher(Schedule)
  BY <1>4, RestSame DEF NotifyDispatcher, sVars, ioVars, gameVars
<1>5. CASE DatabaseThread
  BY <1>5, RestSame DEF DatabaseThread, sVars, ioVars, gameVars
<1> QED
  BY <1>1, <1>2, <1>3, <1>4, <1>5 DEF ScheduleStep

(* Every step of the server keeps the types of what is not one of the      *)
(* parts.                                                                  *)
LEMMA NextRest == RestTypes /\ [Next]_vars => RestTypes'
<1> SUFFICES ASSUME RestTypes, [Next]_vars
             PROVE  RestTypes'
  OBVIOUS
<1>1. CASE UNCHANGED vars
  BY <1>1, RestSame DEF vars, sVars, ioVars, gameVars
<1>2. CASE NotifyDispatcher(Dispatch) \/ NotifyDatabase(Dispatch) \/ NotifyDispatcher(Database)
  BY <1>2, RestSame DEF NotifyDispatcher, NotifyDatabase, sVars, ioVars, gameVars
<1>3. CASE NotifyScheduler(Dispatch)
  BY <1>3, RestSame DEF NotifyScheduler, S!Signal, ioVars, gameVars
<1>4. ASSUME NEW r, FinishQuery(r)
      PROVE  RestTypes'
  BY <1>4, RestSame DEF FinishQuery, sVars, ioVars, gameVars
<1>5. CASE Input
  BY <1>5, ServerAssumption
  DEF Input, IoSignal, IoFirstMessage, IoDeleteBan, MainMoves, RestTypes, sVars, gameVars, Tasks
<1>6. CASE SpuriousWakeup
  BY <1>6, RestSame DEF SpuriousWakeup, S!SpuriousWakeup, sVars, ioVars, gameVars
<1>7. CASE Tick
  BY <1>7, ServerAssumption DEF Tick, S!Tick, RestTypes, ioVars, gameVars
<1> QED
  BY <1>1, <1>2, <1>3, <1>4, <1>5, <1>6, <1>7,
     MainRest, EventRest, SaveRest, ShutdownRest, ThreadRest
  DEF Next, DispatchStep, DatabaseStep

(* Steps of the scheduler.                                                 *)
LEMMA SchedulerSteps ==
  ASSUME RestTypes, Next
  PROVE  SP!Next \/ UNCHANGED sVars
<1>1. CASE MainStep \/ Input
  BY <1>1
  DEF MainStep, MainStart, MainWait, IoSecondRead, IoLogin, IoDie, Join, NotifyDispatcher,
      NotifyDatabase, Input, IoSignal, IoFirstMessage, IoDeleteBan
<1>2. ASSUME NEW e \in Events, S!AddEvent(Dispatch, e, now + EventDelay)
      PROVE  SP!Next
  <2>1. /\ now + EventDelay \in 0 .. now + EventDelay
        /\ now + EventDelay <= MaxTime + EventDelay
    BY ServerAssumption DEF RestTypes
  <2>2. SP!AddEvent(Dispatch, e, now + EventDelay)
    BY <1>2
    DEF S!AddEvent, SP!AddEvent, S!MayCall, SP!MayCall, S!AcceptWhileRunning,
        SP!AcceptWhileRunning, S!NextId, SP!NextId, S!DoSignal, SP!DoSignal, S!Tops, SP!Tops,
        S!queueVars, SP!queueVars, S!threadVars, SP!threadVars
  <2> QED
    BY <2>1, <2>2 DEF SP!Next, SP!CallerStep
<1>3. CASE LoaderStep \/ EventStep \/ LoginStep \/ SaveBegins \/ SaveEnds \/ FlushStep
  BY <1>2, <1>3
  DEF LoaderStep, LoaderOpens, LoaderStarts, LoaderDone, EventStep, EventReschedules,
      EventQueries, EventEnds, CallbackEnds, LoginStep, LoginPlaces, LoginRejects, SaveBegins,
      SaveEnds, FlushStep, Events
<1>4. CASE ShutdownStep
  BY <1>4
  DEF ShutdownStep, ShutdownAgain, ShutdownKicks, ShutdownSaves, ShutdownQueues,
      ShutdownStopsScheduler, ShutdownStopsDatabase, ShutdownStopsDispatcher,
      GameShutdownScheduler, SchedulerShutdownStep, GameShutdownDatabase,
      DatabaseShutdownStep, GameShutdownDispatcher, GameShutdownTearsDown,
      SP!Next, SP!CallerStep, SP!ShutdownStep, S!Stop, SP!Stop, S!ShutdownSetState,
      SP!ShutdownSetState, S!ShutdownClear, SP!ShutdownClear, S!ShutdownNotify,
      SP!ShutdownNotify, S!Notify, SP!Notify, S!MayCall, SP!MayCall, S!queueVars,
      SP!queueVars, S!threadVars, SP!threadVars, S!historyVars, SP!historyVars
<1>5. CASE \/ DispatcherThread \/ BeginBody \/ EndBody
           \/ NotifyDispatcher(Dispatch) \/ NotifyScheduler(Dispatch) \/ NotifyDatabase(Dispatch)
  BY <1>5
  DEF DispatcherThread, BeginBody, EndBody, NotifyDispatcher, NotifyScheduler, NotifyDatabase,
      SP!Next, SP!CallerStep, S!Signal, SP!Signal, S!Notify, SP!Notify, S!queueVars,
      SP!queueVars, S!historyVars, SP!historyVars
<1>6. ASSUME NEW r, FinishQuery(r)
      PROVE  UNCHANGED sVars
  BY <1>6 DEF FinishQuery
<1>7. CASE ScheduleStep
  BY <1>7
  DEF ScheduleStep, SchedulerThread, SchedulerHandOver, NotifyDispatcher,
      SP!Next, SP!ThreadStep, S!Check, SP!Check, S!LockAndWait, SP!LockAndWait,
      S!Timeout, SP!Timeout, S!Resume, SP!Resume, S!ResumeBy, SP!ResumeBy, S!PopTop, SP!PopTop,
      S!HandOver, SP!HandOver, S!Tops, SP!Tops, S!Resumed, SP!Resumed, S!IsActive, SP!IsActive,
      S!queueVars, SP!queueVars, S!historyVars, SP!historyVars
<1>8. CASE DatabaseThread \/ NotifyDispatcher(Database) \/ SpuriousWakeup \/ Tick
  BY <1>8, ServerAssumption
  DEF DatabaseThread, NotifyDispatcher, SpuriousWakeup, Tick, SP!Next,
      S!SpuriousWakeup, SP!SpuriousWakeup, S!Tick, SP!Tick, S!queueVars, SP!queueVars,
      S!threadVars, SP!threadVars, S!historyVars, SP!historyVars, RestTypes
<1> QED
  BY <1>1, <1>3, <1>4, <1>5, <1>6, <1>7, <1>8 DEF Next, DispatchStep, DatabaseStep

(* Steps of the dispatcher.                                                *)
LEMMA DispatcherSteps ==
  ASSUME RestTypes, SP!TypeOK, Next
  PROVE  D!Next \/ UNCHANGED dVars
<1>1. CASE MainStep
  BY <1>1
  DEF MainStep, MainStart, MainWait, IoSecondRead, IoLogin, IoDie, Join, NotifyDispatcher,
      NotifyDatabase, D!Next, D!CallerStep, D!Threads, Tasks, RestTypes
<1>2. CASE LoaderStep \/ EventStep \/ LoginStep \/ SaveBegins \/ SaveEnds \/ FlushStep
  BY <1>2
  DEF LoaderStep, LoaderOpens, LoaderStarts, LoaderDone, EventStep, EventReschedules,
      EventQueries, EventEnds, CallbackEnds, LoginStep, LoginPlaces, LoginRejects, SaveBegins,
      SaveEnds, FlushStep
<1>3. CASE ShutdownStep
  BY <1>3
  DEF ShutdownStep, ShutdownAgain, ShutdownKicks, ShutdownSaves, ShutdownQueues,
      ShutdownStopsScheduler, ShutdownStopsDatabase, ShutdownStopsDispatcher, StopDispatcher,
      GameShutdownScheduler, SchedulerShutdownStep, GameShutdownDatabase,
      DatabaseShutdownStep, GameShutdownDispatcher, GameShutdownTearsDown, ShutdownDatabase,
      D!Next, D!CallerStep, D!Threads, Tasks
<1>4. CASE \/ DispatcherThread \/ BeginBody \/ EndBody
           \/ NotifyDispatcher(Dispatch) \/ NotifyScheduler(Dispatch) \/ NotifyDatabase(Dispatch)
  BY <1>4
  DEF DispatcherThread, BeginBody, EndBody, NotifyDispatcher, NotifyScheduler, NotifyDatabase,
      D!Next, D!WorkerStep, D!CallerStep, D!Threads
<1>5. ASSUME NEW r \in {Dispatch, Database}, FinishQuery(r)
      PROVE  D!Next \/ UNCHANGED dVars
  BY <1>5 DEF FinishQuery, D!Next, D!CallerStep, D!Threads, Tasks
<1>6. CASE ScheduleStep
  <2>1. CASE SchedulerHandOver
    <3>1. event \in Tasks
      BY <2>1 DEF SchedulerHandOver, S!HandOver, SP!TypeOK, Tasks
    <3> QED
      BY <2>1, <3>1 DEF SchedulerHandOver, D!Next, D!CallerStep, D!Threads
  <2> QED
    BY <1>6, <2>1
    DEF ScheduleStep, SchedulerThread, NotifyDispatcher, D!Next, D!CallerStep, D!Threads
<1>7. CASE DatabaseThread \/ NotifyDispatcher(Database) \/ Input \/ SpuriousWakeup \/ Tick
  BY <1>7
  DEF DatabaseThread, NotifyDispatcher, Input, IoSignal, IoFirstMessage, IoDeleteBan,
      SpuriousWakeup, Tick, D!Next, D!CallerStep, D!Threads, Tasks
<1> QED
  BY <1>1, <1>2, <1>3, <1>4, <1>5, <1>6, <1>7 DEF Next, DispatchStep, DatabaseStep

(* Steps of the database queue.                                            *)
LEMMA DatabaseSteps ==
  ASSUME Next
  PROVE  B!Next \/ UNCHANGED bVars
<1>1. CASE MainStep \/ Input
  BY <1>1
  DEF MainStep, MainStart, MainWait, IoSecondRead, IoLogin, IoDie, Join, NotifyDispatcher,
      NotifyDatabase, Input, IoSignal, IoFirstMessage, IoDeleteBan, B!Next
<1>2. CASE LoaderStep \/ EventStep \/ LoginStep \/ SaveBegins \/ SaveEnds
  BY <1>2
  DEF LoaderStep, LoaderOpens, LoaderStarts, LoaderDone, EventStep, EventReschedules,
      EventQueries, EventEnds, CallbackEnds, LoginStep, LoginPlaces, LoginRejects, SaveBegins,
      SaveEnds, B!Next
<1>3. CASE FlushStep \/ ShutdownStep
  BY <1>3
  DEF FlushStep, ShutdownStep, ShutdownAgain, ShutdownKicks, ShutdownSaves, ShutdownQueues,
      ShutdownStopsScheduler, ShutdownStopsDatabase, ShutdownStopsDispatcher,
      GameShutdownScheduler, SchedulerShutdownStep, GameShutdownDatabase, ShutdownDatabase,
      DatabaseShutdownStep, GameShutdownDispatcher, GameShutdownTearsDown,
      B!Next, B!FlusherStep, B!RunTask
<1>4. CASE \/ DispatcherThread \/ BeginBody \/ EndBody
           \/ NotifyDispatcher(Dispatch) \/ NotifyScheduler(Dispatch) \/ NotifyDatabase(Dispatch)
  BY <1>4
  DEF DispatcherThread, BeginBody, EndBody, NotifyDispatcher, NotifyScheduler, NotifyDatabase,
      B!Next
<1>5. CASE FinishQuery(Dispatch) \/ FinishQuery(Database)
  BY <1>5 DEF FinishQuery, B!Next, B!ThreadStep, B!FlusherStep, B!RunTask
<1>6. CASE ScheduleStep
  BY <1>6 DEF ScheduleStep, SchedulerThread, SchedulerHandOver, NotifyDispatcher
<1>7. CASE DatabaseThread \/ NotifyDispatcher(Database) \/ SpuriousWakeup \/ Tick
  BY <1>7
  DEF DatabaseThread, NotifyDispatcher, SpuriousWakeup, Tick, B!Next, B!ThreadStep, B!RunTask
<1> QED
  BY <1>1, <1>2, <1>3, <1>4, <1>5, <1>6, <1>7 DEF Next, DispatchStep, DatabaseStep

(* The instances of the components in Server and of their proofs are the   *)
(* same specifications.                                                    *)
LEMMA SameDispatcher ==
  /\ D!Init <=> DP!Init
  /\ D!Next <=> DP!Next
  /\ D!vars = DP!vars
  /\ D!TypeOK <=> DP!TypeOK
  /\ D!OnePlace <=> DP!OnePlace
<1>1. D!Next <=> DP!Next
  BY DEF D!Next, DP!Next, D!WorkerStep, DP!WorkerStep, D!CallerStep, DP!CallerStep,
         D!Check, DP!Check, D!LockAndTake, DP!LockAndTake, D!Wakened, DP!Wakened,
         D!StartTask, DP!StartTask, D!DropExpired, DP!DropExpired, D!FinishTask, DP!FinishTask,
         D!StateAfterBody, DP!StateAfterBody, D!PopFirst, DP!PopFirst, D!Rest, DP!Rest,
         D!AddTask, DP!AddTask, D!MayCall, DP!MayCall, D!Number, DP!Number,
         D!Placed, DP!Placed, D!DoSignal, DP!DoSignal, D!Signal, DP!Signal, D!Notify, DP!Notify,
         D!Stop, DP!Stop, D!Shutdown, DP!Shutdown, D!SpuriousWakeup, DP!SpuriousWakeup,
         D!Threads, DP!Threads
<1>2. D!Init <=> DP!Init
  BY DEF D!Init, DP!Init
<1>3. D!TypeOK <=> DP!TypeOK
  BY DEF D!TypeOK, DP!TypeOK, D!ThreadStates, DP!ThreadStates, D!WorkerPlaces,
         DP!WorkerPlaces, D!Threads, DP!Threads, D!Fates, DP!Fates
<1>4. D!OnePlace <=> DP!OnePlace
  BY DEF D!OnePlace, DP!OnePlace, D!Listed, DP!Listed
<1> QED
  BY <1>1, <1>2, <1>3, <1>4 DEF D!vars, DP!vars

(* The instance that Server runs and the one whose theorems are cited      *)
(* are the same specification.                                             *)
LEMMA SameDatabaseTasks ==
  /\ B!Init <=> BP!Init
  /\ B!Next <=> BP!Next
  /\ B!vars = BP!vars
  /\ B!TypeOK <=> BP!TypeOK
  /\ B!RunOnce <=> BP!RunOnce
  /\ B!NothingLeftBehind <=> BP!NothingLeftBehind
<1>1. B!Next <=> BP!Next
  BY DEF B!Next, BP!Next, B!ThreadStep, BP!ThreadStep, B!FlusherStep, BP!FlusherStep,
         B!Check, BP!Check, B!LockAndTake, BP!LockAndTake, B!Wakened, BP!Wakened,
         B!RunTask, BP!RunTask, B!Execute, BP!Execute, B!FinishRun, BP!FinishRun,
         B!Released, BP!Released, B!TakeFirst, BP!TakeFirst, B!Rest, BP!Rest,
         B!AddTask, BP!AddTask, B!MayCall, BP!MayCall, B!Placed, BP!Placed,
         B!Accepts, BP!Accepts, B!NeedsSignal, BP!NeedsSignal, B!Signal, BP!Signal,
         B!Notify, BP!Notify, B!Stop, BP!Stop, B!Flush, BP!Flush, B!FlushRound, BP!FlushRound,
         B!Shutdown, BP!Shutdown, B!ShutdownNotify, BP!ShutdownNotify,
         B!SpuriousWakeup, BP!SpuriousWakeup
<1>2. B!Init <=> BP!Init
  BY DEF B!Init, BP!Init, B!Runners, BP!Runners
<1>3. B!TypeOK <=> BP!TypeOK
  BY DEF B!TypeOK, BP!TypeOK, B!ThreadStates, BP!ThreadStates, B!DbPlaces, BP!DbPlaces,
         B!QueryFates, BP!QueryFates, B!Runners, BP!Runners
<1>4. B!RunOnce <=> BP!RunOnce
  BY DEF B!RunOnce, BP!RunOnce, B!Listed, BP!Listed, B!Runners, BP!Runners
<1>5. B!NothingLeftBehind <=> BP!NothingLeftBehind
  BY DEF B!NothingLeftBehind, BP!NothingLeftBehind
<1> QED
  BY <1>1, <1>2, <1>3, <1>4, <1>5 DEF B!vars, BP!vars

(* What the components assume of their constants holds for the server's.   *)
LEMMA PartsAssumptions ==
  DP!DispatcherAssumption /\ SP!SchedulerAssumption /\ BP!DatabaseTasksAssumption
<1>1. DP!DispatcherAssumption
  BY ServerAssumption DEF DP!DispatcherAssumption, Tasks
<1>2. SP!SchedulerAssumption
  BY ServerAssumption DEF SP!SchedulerAssumption, Tasks
<1>3. BP!DatabaseTasksAssumption
  BY ServerAssumption DEF BP!DatabaseTasksAssumption, Tasks
<1> QED
  BY <1>1, <1>2, <1>3

(* Server: the game state, the loader and the scheduler keep their         *)
(* types.                                                                  *)
THEOREM RestTypeCorrect == Spec => []RestTypes
  BY InitRest, NextRest, PTL DEF Spec

(* The scheduler of the server is the scheduler of scheduler.cpp.          *)
THEOREM ImplementsScheduler == Spec => SP!Spec
<1>1. Init => SP!Init
  BY ServerAssumption DEF Init, S!Init, SP!Init
<1>2. RestTypes /\ [Next]_vars => [SP!Next]_(SP!vars)
  BY SchedulerSteps DEF vars, sVars, SP!vars
<1> QED
  BY <1>1, <1>2, RestTypeCorrect, PTL DEF Spec, SP!Spec

(* ... hands over its events on time, and none after its shutdown.         *)
THEOREM ServerOnTime == Spec => [](SP!TypeOK /\ SP!OnTime /\ SP!EmptyAfterShutdown)
  BY ImplementsScheduler, SP!TypeCorrect, SP!AlwaysOnTime, SP!EmptyOnceShutDown,
     PartsAssumptions, PTL

(* The dispatcher of the server, with main, the scheduler and the database *)
(* thread calling, is the dispatcher of tasks.cpp.                         *)
THEOREM ImplementsDispatcher == Spec => DP!Spec
<1>1. Init => DP!Init
  BY SameDispatcher DEF Init
<1>2. RestTypes /\ SP!TypeOK /\ [Next]_vars => [DP!Next]_(DP!vars)
  BY DispatcherSteps, SameDispatcher DEF vars, dVars, DP!vars
<1> QED
  BY <1>1, <1>2, RestTypeCorrect, ServerOnTime, PTL DEF Spec, DP!Spec

(* The database queue of the server is that of databasetasks.cpp.          *)
THEOREM ImplementsDatabaseTasks == Spec => BP!Spec
<1>1. Init => BP!Init
  BY SameDatabaseTasks DEF Init
<1>2. [Next]_vars => [BP!Next]_(BP!vars)
  BY DatabaseSteps, SameDatabaseTasks DEF vars, bVars, BP!vars
<1> QED
  BY <1>1, <1>2, PTL DEF Spec, BP!Spec

(* What the components' theorems give.                                     *)
THEOREM PartsStayOK == Spec => []PartsOK
<1>1. /\ DP!TypeOK /\ DP!OnePlace
      /\ BP!TypeOK /\ BP!RunOnce /\ BP!NothingLeftBehind
      => PartsOK
  BY SameDispatcher, SameDatabaseTasks DEF PartsOK
<1> QED
  BY <1>1, ImplementsDispatcher, ImplementsDatabaseTasks, DP!TypeCorrect, DP!AtMostOnce,
     BP!TypeCorrect, BP!AlwaysRunOnce, BP!NothingEverLeftBehind, PartsAssumptions, PTL

(* In the server no accepted task waits beside a dispatcher that sleeps,   *)
(* tasks are run in the order they were pushed at the back, and no query is*)
(* overtaken but by the one that is in hand, whichever of the four threads *)
(* push, flush and are woken spuriously meanwhile.                         *)
THEOREM ServerQueuesSound ==
  Spec => [](/\ DP!NoLostWakeup /\ DP!FirstComeFirstServed
             /\ BP!NoLostWakeup /\ BP!OnlyHeldIsOvertaken)
  BY ImplementsDispatcher, ImplementsDatabaseTasks, DP!NeverLostWakeup, DP!ServedInOrder,
     BP!NeverLostWakeup, BP!TakenInOrder, PartsAssumptions, PTL

-----------------------------------------------------------------------------
(* The shutdown.  What the steps do to the dispatcher ...                  *)
Untaken ==
  /\ UNCHANGED <<dState, taskList, task, status>>
  /\ dpc' = "run" <=> dpc = "run"
  /\ dpc = "stopped" => dpc' = "stopped"
  /\ dpc' = "stopped" => dpc = "stopped" \/ dState = "TERMINATED"

Pushed(t, push_front) ==
  /\ status[t] = "new"
  /\ status' = [status EXCEPT ![t] = IF dState = "RUNNING" THEN "queued" ELSE "refused"]
  /\ taskList' = IF dState # "RUNNING" THEN taskList
                 ELSE IF push_front THEN <<t>> \o taskList ELSE Append(taskList, t)
  /\ UNCHANGED <<dState, dpc, task>>

Popped ==
  /\ taskList # << >> /\ dpc \in {"lock", "woken"} /\ dpc' = "popped"
  /\ task' = Head(taskList) /\ taskList' = Tail(taskList)
  /\ status' = [status EXCEPT ![Head(taskList)] = "held"]
  /\ UNCHANGED dState

(* ... and to main and the database queue.                                 *)
MainAside ==
  /\ Loading <=> Loading'
  /\ mpc' \in {"joinDispatcher", "exit"} =>
       mpc \in {"joinDispatcher", "exit"} \/ bpc = "stopped"
  /\ mpc' = "exit" => mpc = "exit" \/ dpc = "stopped"

DatabaseAside ==
  /\ bpc = "stopped" => bpc' = "stopped"
  /\ fpc = "idle" => fpc' = "idle"
  /\ bShutdown' = bShutdown \/ (bShutdown = "flushing" /\ bShutdown' = "done")

(* addTask puts its task at one end of the list,                           *)
LEMMA TaskPushed ==
  ASSUME NEW c, NEW t, NEW push_front \in BOOLEAN, D!AddTask(c, t, push_front),
         D!TypeOK, t \in Tasks
  PROVE  Pushed(t, push_front)
  BY DEF D!AddTask, D!TypeOK, D!Placed, D!Number, Pushed

(* and the dispatcher's own steps around a body take the head or           *)
(* nothing.                                                                *)
LEMMA DispatcherOutside ==
  ASSUME DispatcherThread
  PROVE  Untaken \/ Popped
  BY DEF DispatcherThread, D!Check, D!LockAndTake, D!Wakened, D!PopFirst, D!Rest, Untaken, Popped

(* Steps that do not concern the shutdown.                                 *)
Aside ==
  /\ \/ Untaken
     \/ \E t \in Logins \union WithCallback : Pushed(t, FALSE)
     \/ \E t \in Events : Pushed(t, TRUE)
  /\ UNCHANGED <<body, gameState, world>>
  /\ MainAside /\ DatabaseAside

(* What leaves a part as it is does not concern its shutdown;              *)
LEMMA UnchangedAside ==
  /\ UNCHANGED dVars => Untaken
  /\ UNCHANGED bVars => DatabaseAside
  /\ UNCHANGED <<mpc, dVars, bVars>> => MainAside
  /\ UNCHANGED mpc => MainAside
  BY DEF dVars, bVars, Untaken, DatabaseAside, MainAside, Loading

(* neither does a notification,                                            *)
LEMMA SignalAside ==
  ASSUME NEW c
  PROVE  /\ D!Signal(c) \/ D!SpuriousWakeup => Untaken
         /\ B!Signal(c) \/ B!SpuriousWakeup \/ B!ShutdownNotify => DatabaseAside
  BY DEF D!Signal, D!Notify, D!SpuriousWakeup, B!Signal, B!Notify, B!SpuriousWakeup,
         B!ShutdownNotify, Untaken, DatabaseAside

(* a step of main before the joins, a login or a ban,                      *)
LEMMA MainStepAside ==
  ASSUME RestTypes, PartsOK,
         MainStep \/ (\E p \in Logins : IoFirstMessage(p)) \/ (\E q \in Queries : IoDeleteBan(q))
  PROVE  MainStart \/ Aside
<1>1. CASE MainWait \/ IoSecondRead \/ IoDie \/ Join \/ \E p \in Logins : IoFirstMessage(p)
  BY <1>1
  DEF MainWait, IoSecondRead, IoDie, Join, IoFirstMessage, MainMoves, Aside, Untaken,
      MainAside, DatabaseAside, Loading, dVars, bVars, gameVars
<1>2. CASE IoLogin
  <2>1. login \in Logins /\ login \in Tasks
    BY <1>2 DEF IoLogin, RestTypes, Tasks
  <2>2. Pushed(login, FALSE)
    BY <1>2, <2>1, TaskPushed DEF IoLogin, PartsOK
  <2> QED
    BY <1>2, <2>1, <2>2, UnchangedAside
    DEF IoLogin, Aside, MainAside, Loading, gameVars
<1>3. ASSUME NEW q \in Queries, IoDeleteBan(q)
      PROVE  Aside
  <2>1. DatabaseAside
    BY <1>3 DEF IoDeleteBan, B!AddTask, DatabaseAside
  <2> QED
    BY <1>3, <2>1, UnchangedAside
    DEF IoDeleteBan, MainMoves, Aside, MainAside, Loading, gameVars
<1>4. CASE NotifyDispatcher(Main) \/ NotifyDatabase(Main)
  BY <1>4, SignalAside, UnchangedAside
  DEF NotifyDispatcher, NotifyDatabase, Aside, ioVars, gameVars
<1> QED
  BY <1>1, <1>2, <1>3, <1>4 DEF MainStep

(* or a step of the other threads that is not part of the shutdown.        *)
LEMMA OthersAside ==
  ASSUME RestTypes, PartsOK, SP!TypeOK,
         \/ ScheduleStep \/ DatabaseStep \/ SpuriousWakeup \/ Tick
         \/ FlushStep \/ FinishQuery(Dispatch)
         \/ NotifyDispatcher(Dispatch) \/ NotifyScheduler(Dispatch) \/ NotifyDatabase(Dispatch)
         \/ SchedulerShutdownStep \/ DatabaseShutdownStep
  PROVE  Aside
<1>1. CASE SchedulerHandOver
  <2>1. event \in Events /\ event \in Tasks
    BY <1>1 DEF SchedulerHandOver, S!HandOver, SP!TypeOK, Tasks
  <2>2. Pushed(event, TRUE)
    BY <1>1, <2>1, TaskPushed DEF SchedulerHandOver, PartsOK
  <2> QED
    BY <1>1, <2>1, <2>2, UnchangedAside DEF SchedulerHandOver, Aside, ioVars, gameVars
<1>2. CASE \/ SchedulerThread \/ Tick \/ SchedulerShutdownStep \/ NotifyScheduler(Dispatch)
  BY <1>2, UnchangedAside
  DEF SchedulerThread, Tick, SchedulerShutdownStep, NotifyScheduler, Aside, ioVars, gameVars
<1>3. CASE \/ NotifyDispatcher(Schedule) \/ NotifyDispatcher(Database)
           \/ NotifyDispatcher(Dispatch) \/ NotifyDatabase(Dispatch)
  BY <1>3, SignalAside, UnchangedAside
  DEF NotifyDispatcher, NotifyDatabase, Aside, ioVars, gameVars
<1>4. CASE SpuriousWakeup \/ DatabaseShutdownStep
  BY <1>4, SignalAside, UnchangedAside
  DEF SpuriousWakeup, DatabaseShutdownStep, Aside, ioVars, gameVars
<1>5. CASE DatabaseThread
  <2>1. DatabaseAside
    BY <1>5
    DEF DatabaseThread, B!Check, B!LockAndTake, B!Wakened, B!Execute, DatabaseAside
  <2> QED
    BY <1>5, <2>1, UnchangedAside DEF DatabaseThread, Aside, ioVars, gameVars
<1>6. CASE FlushStep
  <2>1. DatabaseAside
    BY <1>6 DEF FlushStep, B!FlushRound, B!Execute, DatabaseAside
  <2> QED
    BY <1>6, <2>1, UnchangedAside DEF FlushStep, Aside, ioVars, gameVars
<1>7. ASSUME NEW r \in {Dispatch, Database}, FinishQuery(r)
      PROVE  Aside
  <2>1. DatabaseAside
    BY <1>7 DEF FinishQuery, B!FinishRun, PartsOK, B!TypeOK, DatabaseAside
  <2>2. Untaken \/ \E t \in WithCallback : Pushed(t, FALSE)
    BY <1>7, TaskPushed, UnchangedAside DEF FinishQuery, PartsOK, Tasks
  <2> QED
    BY <1>7, <2>1, <2>2, UnchangedAside DEF FinishQuery, Aside, ioVars, gameVars
<1> QED
  BY <1>1, <1>2, <1>3, <1>4, <1>5, <1>6, <1>7 DEF ScheduleStep, DatabaseStep

-----------------------------------------------------------------------------
(* ... keep the order of the list, ...                                     *)

LEMMA ListPushed ==
  ASSUME NEW q \in Seq(Tasks), NEW t \in Tasks, EventsFirst(q)
  PROVE  /\ t \in Events => EventsFirst(<<t>> \o q)
         /\ t \notin Events => EventsFirst(Append(q, t))
         /\ PoisonLast(q) /\ t # Poison => PoisonLast(<<t>> \o q)
         /\ (\A i \in DOMAIN q : q[i] # Poison) => PoisonLast(Append(q, t))
<1>1. /\ DOMAIN q = 1 .. Len(q) /\ Len(q) \in Nat
      /\ Append(q, t) \in Seq(Tasks)
      /\ DOMAIN Append(q, t) = 1 .. Len(q) + 1
      /\ \A i \in 1 .. Len(q) : Append(q, t)[i] = q[i]
      /\ Append(q, t)[Len(q) + 1] = t
      /\ Len(Append(q, t)) = Len(q) + 1
  BY LenProperties, AppendProperties
<1>2. /\ DOMAIN (<<t>> \o q) = 1 .. Len(q) + 1
      /\ (<<t>> \o q)[1] = t
      /\ \A i \in 2 .. Len(q) + 1 : (<<t>> \o q)[i] = q[i - 1] /\ i - 1 \in DOMAIN q
      /\ Len(<<t>> \o q) = Len(q) + 1
  <2>1. <<t>> \o q \in Seq(Tasks)
    BY DP!PushFront
  <2>2. DOMAIN (<<t>> \o q) = 1 .. Len(<<t>> \o q) /\ Len(<<t>> \o q) \in Nat
    BY <2>1, LenProperties
  <2> QED
    BY <1>1, <2>2, DP!PushFront
<1>3. ASSUME t \in Events
      PROVE  EventsFirst(<<t>> \o q)
  <2> SUFFICES ASSUME NEW i \in 1 .. Len(q) + 1, NEW j \in 1 .. Len(q) + 1,
                      (<<t>> \o q)[i] \in Events, (<<t>> \o q)[j] \notin Events
               PROVE  i < j
    BY <1>2 DEF EventsFirst
  <2>1. j # 1
    BY <1>2, <1>3
  <2>2. CASE i = 1
    BY <1>1, <2>1, <2>2
  <2>3. CASE i # 1
    <3>1. /\ i - 1 \in DOMAIN q /\ q[i - 1] \in Events
          /\ j - 1 \in DOMAIN q /\ q[j - 1] \notin Events
      BY <1>1, <1>2, <2>1, <2>3
    <3>2. i - 1 < j - 1
      BY <3>1 DEF EventsFirst
    <3> QED
      BY <1>1, <3>2
  <2> QED
    BY <2>2, <2>3
<1>4. ASSUME t \notin Events
      PROVE  EventsFirst(Append(q, t))
  <2> SUFFICES ASSUME NEW i \in 1 .. Len(q) + 1, NEW j \in 1 .. Len(q) + 1,
                      Append(q, t)[i] \in Events, Append(q, t)[j] \notin Events
               PROVE  i < j
    BY <1>1 DEF EventsFirst
  <2>1. i # Len(q) + 1
    BY <1>1, <1>4
  <2>2. CASE j = Len(q) + 1
    BY <1>1, <2>1, <2>2
  <2>3. CASE j # Len(q) + 1
    BY <1>1, <2>1, <2>3 DEF EventsFirst
  <2> QED
    BY <2>2, <2>3
<1>5. ASSUME PoisonLast(q), t # Poison
      PROVE  PoisonLast(<<t>> \o q)
  <2> SUFFICES ASSUME NEW i \in 1 .. Len(q) + 1, (<<t>> \o q)[i] = Poison
               PROVE  i = Len(q) + 1
    BY <1>2 DEF PoisonLast
  <2>1. i # 1
    BY <1>2, <1>5
  <2>2. i - 1 \in DOMAIN q /\ q[i - 1] = Poison
    BY <1>1, <1>2, <2>1
  <2>3. i - 1 = Len(q)
    BY <1>5, <2>2 DEF PoisonLast
  <2> QED
    BY <1>1, <2>3
<1>6. ASSUME \A i \in DOMAIN q : q[i] # Poison
      PROVE  PoisonLast(Append(q, t))
  BY <1>1, <1>6 DEF PoisonLast
<1> QED
  BY <1>3, <1>4, <1>5, <1>6

(* A list that ends with the poison, with its events in front, stays so    *)
(* when its head is taken; what is behind a task that is no event is       *)
(* none.                                                                   *)
LEMMA ListPopped ==
  ASSUME NEW q \in Seq(Tasks), q # << >>, EventsFirst(q), PoisonLast(q)
  PROVE  /\ Head(q) \in Tasks /\ \E i \in DOMAIN q : q[i] = Head(q)
         /\ EventsFirst(Tail(q)) /\ PoisonLast(Tail(q))
         /\ Head(q) \notin Events => NoEvents(Tail(q))
         /\ NoEvents(q) => Head(q) \notin Events /\ NoEvents(Tail(q))
         /\ Head(q) = Poison => Tail(q) = << >>
<1>1. /\ Head(q) \in Tasks /\ Head(q) = q[1]
      /\ Tail(q) \in Seq(Tasks)
      /\ 1 \in DOMAIN q
      /\ Len(q) \in Nat \ {0} /\ DOMAIN q = 1 .. Len(q)
      /\ DOMAIN Tail(q) = 1 .. Len(q) - 1
      /\ \A i \in DOMAIN Tail(q) : Tail(q)[i] = q[i + 1] /\ i + 1 \in DOMAIN q
  BY EmptySeq, HeadTailProperties, LenProperties
<1>2. Len(Tail(q)) = Len(q) - 1
  BY HeadTailProperties
<1>3. EventsFirst(Tail(q))
  <2> SUFFICES ASSUME NEW i \in DOMAIN Tail(q), NEW j \in DOMAIN Tail(q),
                      Tail(q)[i] \in Events, Tail(q)[j] \notin Events
               PROVE  i < j
    BY DEF EventsFirst
  <2>1. i + 1 < j + 1
    BY <1>1 DEF EventsFirst
  <2> QED
    BY <1>1, <2>1
<1>4. PoisonLast(Tail(q))
  <2> SUFFICES ASSUME NEW i \in DOMAIN Tail(q), Tail(q)[i] = Poison
               PROVE  i = Len(Tail(q))
    BY DEF PoisonLast
  <2>1. i + 1 = Len(q)
    BY <1>1 DEF PoisonLast
  <2> QED
    BY <1>1, <1>2, <2>1
<1>5. ASSUME Head(q) \notin Events
      PROVE  NoEvents(Tail(q))
  <2> SUFFICES ASSUME NEW i \in DOMAIN Tail(q), Tail(q)[i] \in Events
               PROVE  FALSE
    BY DEF NoEvents
  <2>1. i + 1 < 1
    BY <1>1, <1>5 DEF EventsFirst
  <2> QED
    BY <1>1, <2>1
<1>6. ASSUME NoEvents(q)
      PROVE  Head(q) \notin Events /\ NoEvents(Tail(q))
  BY <1>1, <1>6 DEF NoEvents
<1>7. ASSUME Head(q) = Poison
      PROVE  Tail(q) = << >>
  <2>1. Len(q) = 1
    BY <1>1, <1>7 DEF PoisonLast
  <2> QED
    BY <1>1, <1>2, <2>1, EmptySeq
<1> QED
  BY <1>1, <1>3, <1>4, <1>5, <1>6, <1>7

(* Nothing but the poison is pushed behind the poison, and nothing in front*)
(* of what is left of the list by Game::shutdown.                          *)
LEMMA OrderPushed ==
  ASSUME PartsOK, IInv, NEW t \in Tasks \ {Poison}, NEW push_front \in BOOLEAN,
         push_front <=> t \in Events, Pushed(t, push_front),
         t = GameShutdown /\ dState = "RUNNING" => Closing',
         Closing => Closing'
  PROVE  ListOrder'
<1>1. taskList \in Seq(Tasks) /\ status \in [Tasks -> D!Fates]
      /\ (\A s \in Tasks : status[s] = "queued" <=> \E i \in DOMAIN taskList : taskList[i] = s)
      /\ (\A s \in Tasks : status[s] \in {"held", "running"} <=> s = task)
      /\ {Poison, GameShutdown, t} \subseteq Tasks
  BY DEF PartsOK, D!TypeOK, D!OnePlace, D!Listed, Tasks
<1>2. /\ \A s \in Tasks : s # t => status'[s] = status[s]
      /\ status'[t] = (IF dState = "RUNNING" THEN "queued" ELSE "refused")
      /\ status[t] = "new" /\ task' = task /\ dState' = dState
      /\ dState # "RUNNING" => taskList' = taskList
      /\ dState = "RUNNING" =>
           taskList' = IF push_front THEN <<t>> \o taskList ELSE Append(taskList, t)
  BY <1>1 DEF Pushed
<1>3. dState = "RUNNING" => status[Poison] = "new"
  BY DEF IInv, Endings
<1>4. dState = "RUNNING" => \A i \in DOMAIN taskList : taskList[i] # Poison
  BY <1>1, <1>3
<1>5. EventsFirst(taskList') /\ PoisonLast(taskList')
  <2>1. EventsFirst(taskList) /\ PoisonLast(taskList)
    BY DEF IInv, ListOrder
  <2>2. CASE dState # "RUNNING"
    BY <1>2, <2>1, <2>2
  <2>3. CASE dState = "RUNNING" /\ t \in Events
    <3>1. taskList' = <<t>> \o taskList
      BY <1>2, <2>3
    <3> QED
      BY <1>1, <2>1, <2>3, <3>1, ListPushed
  <2>4. CASE dState = "RUNNING" /\ t \notin Events
    <3>1. taskList' = Append(taskList, t)
      BY <1>2, <2>4
    <3> QED
      BY <1>1, <1>4, <2>1, <2>4, <3>1, ListPushed
  <2> QED
    BY <2>2, <2>3, <2>4
<1>6. status'[GameShutdown] # "new" =>
        dState' # "RUNNING" \/ (status'[GameShutdown] = "queued" /\ Closing')
  BY <1>1, <1>2 DEF IInv, ListOrder
<1>7. status'[GameShutdown] \in {"held", "running", "done"} =>
        task' \notin Events /\ NoEvents(taskList')
  BY <1>1, <1>2 DEF IInv, ListOrder
<1>8. status'[Poison] \in {"held", "running", "done"} => taskList' = << >>
  BY <1>1, <1>2, <1>3 DEF IInv, ListOrder
<1> QED
  BY <1>5, <1>6, <1>7, <1>8 DEF ListOrder

(* The order of the list is kept by whatever leaves the list alone.        *)
LEMMA OrderStays ==
  ASSUME ListOrder, UNCHANGED <<dState, taskList, task, status>>, Closing => Closing'
  PROVE  ListOrder'
  BY DEF ListOrder

-----------------------------------------------------------------------------
(* ... and the whole invariant.                                            *)

LEMMA InitIInv == Init => IInv
<1> SUFFICES ASSUME Init
             PROVE  IInv
  OBVIOUS
<1>1. /\ taskList = << >> /\ dpc = "check" /\ dState = "RUNNING"
      /\ task = None /\ status = [t \in Tasks |-> "new"]
      /\ fpc = "idle" /\ mpc = "start" /\ body = "idle" /\ gameState = "STARTUP"
      /\ world = "up"
  BY DEF Init, D!Init, B!Init
<1>2. /\ {Poison, GameShutdown, MainLoader} \subseteq Tasks
      /\ TermSignals \union SaveSignals \subseteq Tasks
  BY DEF Tasks
<1>3. DOMAIN taskList = {}
  BY <1>1
<1>4. BodyPlaces
  BY <1>1 DEF BodyPlaces, BodyAt
<1>5. StatesAgree
  BY <1>1, <1>2 DEF StatesAgree, Loading, Loaded, Running
<1>6. ListOrder
  BY <1>1, <1>2, <1>3 DEF ListOrder, EventsFirst, PoisonLast
<1>7. Endings
  BY <1>1, <1>2 DEF Endings, Running
<1> QED
  BY <1>4, <1>5, <1>6, <1>7 DEF IInv

(* A step that does not concern the shutdown keeps it.                     *)
LEMMA AsideInv ==
  ASSUME PartsOK, IInv, Aside
  PROVE  IInv'
<1>1. /\ dpc' = "run" <=> dpc = "run"
      /\ dpc = "stopped" => dpc' = "stopped"
      /\ dpc' = "stopped" => dpc = "stopped" \/ dState = "TERMINATED"
      /\ UNCHANGED <<dState, task, body, gameState, world>>
      /\ MainAside /\ DatabaseAside
  BY DEF Aside, Untaken, Pushed
<1>2. \A t \in {MainLoader, GameShutdown, Poison} \union TermSignals \union SaveSignals :
        status'[t] = status[t]
  <2>1. status \in [Tasks -> D!Fates]
    BY DEF PartsOK, D!TypeOK
  <2> QED
    BY <2>1, Apart, ZenonT(60) DEF Aside, Untaken, Pushed, Tasks
<1>3. BodyPlaces'
  BY <1>1 DEF IInv, BodyPlaces, BodyAt
<1>4. StatesAgree'
  BY <1>1, <1>2 DEF IInv, StatesAgree, Running, Loaded, MainAside, DatabaseAside
<1>5. ListOrder'
  <2>1. Closing => Closing'
    BY <1>1 DEF Closing, Running
  <2>2. CASE Untaken
    BY <2>1, <2>2, OrderStays DEF IInv, Untaken
  <2>3. ASSUME NEW t \in Logins \union WithCallback, Pushed(t, FALSE)
        PROVE  ListOrder'
    <3>1. t \in Tasks \ {Poison} /\ t # GameShutdown /\ t \notin Events
      BY Apart DEF Tasks
    <3> QED
      BY <2>1, <2>3, <3>1, OrderPushed
  <2>4. ASSUME NEW t \in Events, Pushed(t, TRUE)
        PROVE  ListOrder'
    <3>1. t \in Tasks \ {Poison} /\ t # GameShutdown
      BY Apart DEF Tasks
    <3> QED
      BY <2>1, <2>4, <3>1, OrderPushed
  <2> QED
    BY <2>2, <2>3, <2>4 DEF Aside
<1>6. Endings'
  BY <1>1, <1>2 DEF IInv, Endings, Running, MainAside, DatabaseAside
<1> QED
  BY <1>3, <1>4, <1>5, <1>6 DEF IInv

(* The tasks that main hands over at the start and for a signal.           *)
LEMMA FromMainInv ==
  ASSUME PartsOK, IInv,
         MainStart \/ \E sig \in TermSignals \union SaveSignals : IoSignal(sig)
  PROVE  IInv'
<1>1. PICK t \in Tasks \ {Poison, GameShutdown} :
        /\ t \notin Events
        /\ D!AddTask(Main, t, FALSE)
        /\ \/ t = MainLoader /\ mpc = "start" /\ mpc' = "started"
           \/ t \in TermSignals \union SaveSignals /\ mpc = "io" /\ mpc' = "io"
        /\ UNCHANGED <<sVars, bVars, login, body, gameVars>>
  BY Apart DEF MainStart, IoSignal, MainMoves, Tasks
<1>2. Pushed(t, FALSE)
  BY <1>1, TaskPushed DEF PartsOK
<1>3. /\ UNCHANGED <<dState, dpc, task, body, gameState, world, bpc, fpc, bShutdown>>
      /\ Loading <=> Loading' 
      /\ mpc' \notin {"joinDispatcher", "exit"}
  BY <1>1, <1>2 DEF Pushed, bVars, gameVars, Loading
<1>4. status \in [Tasks -> D!Fates] /\ \A s \in Tasks : s # t => status'[s] = status[s]
  BY <1>2 DEF PartsOK, D!TypeOK, Pushed
<1>5. /\ {MainLoader, GameShutdown, Poison} \subseteq Tasks
      /\ TermSignals \union SaveSignals \subseteq Tasks
  BY DEF Tasks
<1>6. BodyPlaces'
  BY <1>3 DEF IInv, BodyPlaces, BodyAt
<1>7. StatesAgree'
  <2>1. t = MainLoader => Loading
    BY <1>1, Apart DEF Loading
  <2>2. t # MainLoader => ~Loading
    BY <1>1 DEF Loading
  <2>3. status[MainLoader] = "done" <=> status'[MainLoader] = "done"
    <3>1. CASE t = MainLoader
      BY <1>2, <1>4, <1>5, <3>1 DEF Pushed
    <3> QED
      BY <1>4, <1>5, <3>1
  <2>4. \A s \in TermSignals \union SaveSignals : Loading => status'[s] = status[s]
    BY <1>1, <1>4, <1>5, <2>2, Apart
  <2> QED
    BY <1>1, <1>3, <1>4, <1>5, <2>3, <2>4 DEF IInv, StatesAgree, Running, Loaded
<1>8. ListOrder'
  <2>1. Closing => Closing'
    BY <1>3 DEF Closing, Running
  <2> QED
    BY <1>1, <1>2, <2>1, OrderPushed
<1>9. Endings'
  BY <1>1, <1>3, <1>4, <1>5 DEF IInv, Endings, Running
<1> QED
  BY <1>6, <1>7, <1>8, <1>9 DEF IInv

(* The dispatcher takes its next task ...                                  *)
LEMMA PoppedInv ==
  ASSUME PartsOK, IInv, Popped, UNCHANGED <<bVars, ioVars, body, gameVars>>
  PROVE  IInv'
<1> DEFINE t == Head(taskList)
<1>1. /\ taskList \in Seq(Tasks) /\ status \in [Tasks -> D!Fates]
      /\ (\A s \in Tasks : status[s] = "queued" <=> \E i \in DOMAIN taskList : taskList[i] = s)
      /\ (\A s \in Tasks : status[s] \in {"held", "running"} <=> s = task)
      /\ {MainLoader, Poison, GameShutdown} \subseteq Tasks
      /\ TermSignals \union SaveSignals \subseteq Tasks
  BY DEF PartsOK, D!TypeOK, D!OnePlace, D!Listed, Tasks
<1>2. /\ t \in Tasks /\ \E i \in DOMAIN taskList : taskList[i] = t
      /\ EventsFirst(Tail(taskList)) /\ PoisonLast(Tail(taskList))
      /\ t \notin Events => NoEvents(Tail(taskList))
      /\ NoEvents(taskList) => t \notin Events /\ NoEvents(Tail(taskList))
      /\ t = Poison => Tail(taskList) = << >>
  BY <1>1, ListPopped DEF Popped, IInv, ListOrder
<1> HIDE DEF t
<1>3. /\ taskList # << >> /\ dpc \in {"lock", "woken"} /\ dpc' = "popped"
      /\ task' = t /\ taskList' = Tail(taskList) /\ dState' = dState
      /\ status'[t] = "held" /\ \A s \in Tasks : s # t => status'[s] = status[s]
      /\ UNCHANGED <<bpc, fpc, bShutdown, mpc, body, gameState, world>>
  BY <1>1, <1>2 DEF Popped, t, bVars, ioVars, gameVars
<1>4. status[t] = "queued"
  BY <1>1, <1>2
<1>5. BodyPlaces'
  BY <1>3 DEF IInv, BodyPlaces, BodyAt
<1>6. StatesAgree'
  BY <1>1, <1>3, <1>4 DEF IInv, StatesAgree, Running, Loaded, Loading
<1>7. ListOrder'
  <2>1. ~Closing
    BY <1>3 DEF Closing, Running
  <2>2. status'[GameShutdown] # "new" => dState' # "RUNNING"
    BY <1>1, <1>3, <1>4, <2>1 DEF IInv, ListOrder
  <2>3. status'[GameShutdown] \in {"held", "running", "done"} =>
          task' \notin Events /\ NoEvents(taskList')
    <3>1. CASE t = GameShutdown
      BY <1>2, <1>3, <3>1, Apart
    <3>2. CASE t # GameShutdown
      BY <1>1, <1>2, <1>3, <3>2 DEF IInv, ListOrder
    <3> QED
      BY <3>1, <3>2
  <2>4. status'[Poison] \in {"held", "running", "done"} => taskList' = << >>
    <3>1. CASE t = Poison
      BY <1>2, <1>3, <3>1
    <3>2. CASE t # Poison
      BY <1>1, <1>3, <3>2 DEF IInv, ListOrder
    <3> QED
      BY <3>1, <3>2
  <2> QED
    BY <1>2, <1>3, <2>2, <2>3, <2>4 DEF ListOrder
<1>8. Endings'
  BY <1>1, <1>3, <1>4 DEF IInv, Endings, Running
<1> QED
  BY <1>5, <1>6, <1>7, <1>8 DEF IInv

(* ... and starts it ...                                                   *)
LEMMA BeginBodyInv ==
  ASSUME PartsOK, IInv, BeginBody
  PROVE  IInv'
<1>1. /\ status \in [Tasks -> D!Fates] /\ task \in Tasks
      /\ (\A s \in Tasks : status[s] \in {"held", "running"} <=> s = task)
      /\ {MainLoader, Poison, GameShutdown} \subseteq Tasks
      /\ TermSignals \union SaveSignals \subseteq Tasks
  BY DEF PartsOK, D!TypeOK, D!OnePlace, Tasks, BeginBody, D!StartTask
<1>2. /\ dpc = "popped" /\ dpc' = "run" /\ body' = "begin"
      /\ status' = [status EXCEPT ![task] = "running"]
      /\ UNCHANGED <<dState, taskList, task, bpc, fpc, bShutdown, mpc, gameState, world>>
  BY DEF BeginBody, D!StartTask, bVars, ioVars, gameVars
<1>3. /\ status'[task] = "running" /\ status[task] \in {"held", "running"}
      /\ \A s \in Tasks : s # task => status'[s] = status[s]
  BY <1>1, <1>2
<1>4. BodyPlaces'
  BY <1>2 DEF IInv, BodyPlaces, BodyAt
<1>5. StatesAgree'
  BY <1>1, <1>2, <1>3 DEF IInv, StatesAgree, Running, Loaded, Loading
<1>6. ListOrder'
  BY <1>1, <1>2, <1>3 DEF IInv, ListOrder, Closing, Running
<1>7. Endings'
  BY <1>1, <1>2, <1>3 DEF IInv, Endings, Running
<1> QED
  BY <1>4, <1>5, <1>6, <1>7 DEF IInv

(* ... until it ends.                                                      *)
LEMMA EndBodyInv ==
  ASSUME PartsOK, IInv, EndBody
  PROVE  IInv'
<1>1. /\ status \in [Tasks -> D!Fates] /\ task \in Tasks /\ None \notin Tasks
      /\ (\A s \in Tasks : status[s] \in {"held", "running"} <=> s = task)
      /\ {MainLoader, Poison, GameShutdown} \subseteq Tasks
      /\ TermSignals \union SaveSignals \subseteq Tasks
  BY ServerAssumption DEF PartsOK, D!TypeOK, D!OnePlace, Tasks, EndBody, D!FinishTask
<1>2. /\ dpc = "run" /\ dpc' = "check" /\ body = "end" /\ body' = "idle"
      /\ status' = [status EXCEPT ![task] = "done"] /\ task' = None
      /\ dState' = (IF task = Poison THEN "TERMINATED" ELSE dState)
      /\ UNCHANGED <<taskList, bpc, fpc, bShutdown, mpc, gameState, world>>
  BY DEF EndBody, D!FinishTask, D!StateAfterBody, bVars, ioVars, gameVars
<1>3. /\ status'[task] = "done" /\ status[task] \in {"held", "running"}
      /\ \A s \in Tasks : s # task => status'[s] = status[s]
  BY <1>1, <1>2
<1>4. BodyPlaces'
  BY <1>2 DEF IInv, BodyPlaces, BodyAt
<1>5. StatesAgree'
  BY <1>1, <1>2, <1>3 DEF IInv, StatesAgree, Running, Loaded, Loading
<1>6. ListOrder'
  <2>1. ~Closing
    BY <1>2 DEF Closing, Running
  <2>2. None \notin Events
    BY <1>1 DEF Tasks
  <2> QED
    BY <1>1, <1>2, <1>3, <2>1, <2>2 DEF IInv, ListOrder
<1>7. Endings'
  BY <1>1, <1>2, <1>3 DEF IInv, Endings, Running
<1> QED
  BY <1>4, <1>5, <1>6, <1>7 DEF IInv

-----------------------------------------------------------------------------
(* The bodies.                                                             *)

(* A step within a body that does not touch the dispatcher.                *)
Within(kind, from, to) ==
  /\ BodyMoves(kind, from, to)
  /\ UNCHANGED <<dVars, ioVars>>

(* While a body runs, it is that of the task in hand, and no other task    *)
(* is in hand.                                                             *)
LEMMA WithinFacts ==
  ASSUME PartsOK, IInv, NEW kind, NEW from, NEW to, to # "idle", Within(kind, from, to)
  PROVE  /\ dpc = "run" /\ task \in kind /\ body = from /\ body' = to
         /\ fpc = "idle" /\ bShutdown # "flushing"
         /\ task \in Tasks /\ status[task] \in {"held", "running"}
         /\ \A s \in Tasks : status[s] \in {"held", "running"} <=> s = task
         /\ UNCHANGED <<dState, taskList, dpc, task, status, mpc>>
         /\ BodyPlaces' <=>
              /\ BodyAt({MainLoader}, {"begin", "events", "end"})'
              /\ BodyAt(Events, {"begin", "think", "end"})'
              /\ BodyAt(Logins \union WithCallback \union {Poison}, {"begin", "end"})'
              /\ BodyAt(SaveSignals, {"begin", "saved", "end"})'
              /\ BodyAt(TermSignals, {"begin", "kicked", "saved", "stopScheduler",
                                      "stopDatabase", "stopDispatcher", "end"})'
              /\ BodyAt({GameShutdown}, {"begin", "database", "dispatcher", "teardown", "end"})'
<1>1. /\ dpc = "run" /\ task \in kind /\ body = from /\ body' = to
      /\ fpc = "idle" /\ bShutdown # "flushing"
      /\ UNCHANGED <<dState, taskList, dpc, task, status, mpc>>
  BY DEF Within, BodyMoves, dVars, ioVars
<1>2. /\ task \in Tasks
      /\ (\A s \in Tasks : status[s] \in {"held", "running"} <=> s = task)
  BY <1>1 DEF PartsOK, D!TypeOK, D!OnePlace
<1> QED
  BY <1>1, <1>2 DEF BodyPlaces

(* Bodies that do nothing to the state of the game.                        *)
LEMMA PlainBodyInv ==
  ASSUME PartsOK, IInv, NEW kind, NEW from, NEW to, Within(kind, from, to),
         UNCHANGED <<gameState, world, bpc, fpc, bShutdown>>,
         \/ kind = {MainLoader} /\ from = "events" /\ to = "events"
         \/ kind = Events /\ from \in {"begin", "think"} /\ to \in {"think", "end"}
         \/ /\ kind \subseteq Logins \union WithCallback \union {Poison} \union TermSignals
            /\ from = "begin" /\ to = "end"
         \/ kind = TermSignals /\ from = "stopScheduler" /\ to = "stopDatabase"
         \/ kind = TermSignals /\ from = "stopDatabase" /\ to = "stopDispatcher"
  PROVE  IInv'
<1>1. /\ dpc = "run" /\ task \in kind /\ body = from /\ body' = to
      /\ status[task] \in {"held", "running"}
      /\ UNCHANGED <<dState, taskList, dpc, task, status, mpc>>
  BY WithinFacts
<1>2. BodyPlaces'
  BY <1>1, Apart DEF IInv, BodyPlaces, BodyAt
<1>3. StatesAgree'
  BY <1>1, Apart DEF IInv, StatesAgree, Running, Loaded, Loading
<1>4. ListOrder'
  <2>1. Closing => Closing'
    BY <1>1, Apart DEF Closing, Running
  <2> QED
    BY <1>1, <2>1, OrderStays DEF IInv
<1>5. Endings'
  BY <1>1, Apart DEF IInv, Endings, Running
<1> QED
  BY <1>2, <1>3, <1>4, <1>5 DEF IInv

(* The bodies of events, callbacks and logins keep the invariant;          *)
LEMMA EventStepInv ==
  ASSUME PartsOK, IInv, EventStep \/ LoginStep \/ \E e \in FirstEvents : LoaderStarts(e)
  PROVE  IInv'
<1>1. CASE EventEnds
  <2>1. /\ Within(Events, "think", "end") \/ Within(Events, "begin", "end")
        /\ UNCHANGED <<gameState, world, bpc, fpc, bShutdown>>
    BY <1>1 DEF EventEnds, Within, bVars, gameVars
  <2> QED
    BY <2>1, PlainBodyInv
<1>2. CASE CallbackEnds
  <2>1. /\ Within(WithCallback \union {Poison}, "begin", "end")
        /\ UNCHANGED <<gameState, world, bpc, fpc, bShutdown>>
    BY <1>2 DEF CallbackEnds, Within, bVars, gameVars
  <2> QED
    BY <2>1, PlainBodyInv
<1>3. ASSUME NEW e, EventReschedules(e)
      PROVE  IInv'
  <2>1. /\ Within(Events, "begin", "think")
        /\ UNCHANGED <<gameState, world, bpc, fpc, bShutdown>>
    BY <1>3 DEF EventReschedules, Within, bVars, gameVars
  <2> QED
    BY <2>1, PlainBodyInv
<1>4. ASSUME NEW q, EventQueries(q)
      PROVE  IInv'
  <2>1. /\ Within(Events, "think", "end")
        /\ UNCHANGED <<gameState, world, bpc, fpc, bShutdown>>
    BY <1>4 DEF EventQueries, Within, B!AddTask, gameVars
  <2> QED
    BY <2>1, PlainBodyInv
<1>5. CASE LoginStep
  <2>1. /\ Within(Logins, "begin", "end")
        /\ UNCHANGED <<gameState, world, bpc, fpc, bShutdown>>
    BY <1>5 DEF LoginStep, LoginPlaces, LoginRejects, Within, bVars, gameVars
  <2> QED
    BY <2>1, PlainBodyInv
<1>6. ASSUME NEW e, LoaderStarts(e)
      PROVE  IInv'
  <2>1. /\ Within({MainLoader}, "events", "events")
        /\ UNCHANGED <<gameState, world, bpc, fpc, bShutdown>>
    BY <1>6 DEF LoaderStarts, Within, bVars, gameVars
  <2> QED
    BY <2>1, PlainBodyInv
<1> QED
  BY <1>1, <1>2, <1>3, <1>4, <1>5, <1>6 DEF EventStep

(* so does the loader, which wakes main and opens the game.                *)
LEMMA LoaderInv ==
  ASSUME PartsOK, IInv, LoaderOpens \/ LoaderDone
  PROVE  IInv'
<1>1. /\ dpc = "run" /\ task = MainLoader /\ body \in {"begin", "events"}
      /\ body' \in {"events", "end"}
      /\ UNCHANGED <<dState, taskList, dpc, task, status, world, bpc, fpc, bShutdown>>
      /\ \/ body' = "events" /\ gameState' = "INIT" /\ mpc' = mpc
         \/ /\ body' = "end" /\ gameState' = "NORMAL"
            /\ mpc' = IF mpc = "waiting" THEN "io" ELSE mpc
      /\ fpc = "idle"
  BY DEF LoaderOpens, LoaderDone, BodyMoves, dVars, bVars, ioVars
<1>2. status[MainLoader] \in {"held", "running"}
  BY <1>1 DEF PartsOK, D!TypeOK, D!OnePlace
<1>3. Loading /\ gameState # "SHUTDOWN"
  BY <1>1, <1>2 DEF IInv, StatesAgree, Loaded, Running
<1>4. BodyPlaces'
  BY <1>1, Apart DEF IInv, BodyPlaces, BodyAt
<1>5. StatesAgree'
  BY <1>1, <1>2, <1>3, Apart DEF IInv, StatesAgree, Running, Loaded, Loading
<1>6. ListOrder'
  <2>1. ~Closing
    BY <1>1, Apart DEF Closing, Running
  <2> QED
    BY <1>1, <2>1, OrderStays DEF IInv
<1>7. Endings'
  BY <1>1, <1>3, Apart DEF IInv, Endings, Running, Loading
<1> QED
  BY <1>4, <1>5, <1>6, <1>7 DEF IInv

(* Whoever saves has been asked to by a signal.                            *)
LEMMA SaveInv ==
  ASSUME PartsOK, IInv, SaveBegins \/ SaveEnds
  PROVE  IInv' /\ (gameState = "SHUTDOWN" => gameState' = "SHUTDOWN")
<1>1. /\ dpc = "run" /\ task \in SaveSignals
      /\ body \in {"begin", "saved"} /\ body' \in {"saved", "end"}
      /\ UNCHANGED <<dState, taskList, dpc, task, status, mpc, world, bpc, bShutdown>>
      /\ \/ /\ fpc' = "lock"
            /\ gameState' = IF gameState = "NORMAL" THEN "MAINTAIN" ELSE gameState
         \/ /\ fpc' = "idle" /\ fpc = "idle"
            /\ gameState' = IF gameState = "MAINTAIN" THEN "NORMAL" ELSE gameState
  BY DEF SaveBegins, SaveEnds, BodyMoves, StateWhileSaving, StateAfterSaving, B!Flush,
         dVars, bVars, ioVars
<1>2. task \in Tasks /\ status[task] \in {"held", "running"}
  BY <1>1 DEF PartsOK, D!TypeOK, D!OnePlace
<1>3. ~Loading /\ Loaded /\ gameState \in {"NORMAL", "MAINTAIN", "SHUTDOWN"}
  BY <1>1, <1>2 DEF IInv, StatesAgree
<1>4. BodyPlaces'
  BY <1>1, Apart DEF IInv, BodyPlaces, BodyAt
<1>5. StatesAgree'
  BY <1>1, <1>2, <1>3, Apart DEF IInv, StatesAgree, Running, Loaded, Loading
<1>6. ListOrder'
  <2>1. ~Closing
    BY <1>1, Apart DEF Closing, Running
  <2> QED
    BY <1>1, <2>1, OrderStays DEF IInv
<1>7. Endings'
  BY <1>1, Apart DEF IInv, Endings, Running
<1> QED
  BY <1>1, <1>4, <1>5, <1>6, <1>7 DEF IInv

(* The body of a terminating signal.                                       *)
LEMMA TermInv ==
  ASSUME PartsOK, IInv,
         \/ ShutdownAgain \/ ShutdownKicks \/ ShutdownSaves
         \/ ShutdownStopsScheduler \/ ShutdownStopsDatabase
  PROVE  IInv'
<1>1. CASE ShutdownAgain \/ ShutdownStopsScheduler \/ ShutdownStopsDatabase
  <2>1. \/ Within(TermSignals, "begin", "end")
        \/ Within(TermSignals, "stopScheduler", "stopDatabase")
        \/ Within(TermSignals, "stopDatabase", "stopDispatcher")
    BY <1>1 DEF ShutdownAgain, ShutdownStopsScheduler, ShutdownStopsDatabase, Within
  <2>2. UNCHANGED <<gameState, world, bpc, fpc, bShutdown>>
    BY <1>1
    DEF ShutdownAgain, ShutdownStopsScheduler, ShutdownStopsDatabase, B!Stop, bVars, gameVars
  <2> QED
    BY <2>1, <2>2, PlainBodyInv
<1>2. CASE ShutdownKicks \/ ShutdownSaves
  <2>1. /\ dpc = "run" /\ task \in TermSignals
        /\ UNCHANGED <<dState, taskList, dpc, task, status, mpc, world, bpc, bShutdown>>
        /\ \/ /\ body = "begin" /\ body' = "kicked" /\ gameState' = "SHUTDOWN"
              /\ fpc' = fpc
           \/ body = "kicked" /\ body' = "saved" /\ gameState' = gameState
    BY <1>2 DEF ShutdownKicks, ShutdownSaves, BodyMoves, B!Flush, dVars, bVars, ioVars, gameVars
  <2>2. task \in Tasks /\ status[task] \in {"held", "running"}
    BY <2>1 DEF PartsOK, D!TypeOK, D!OnePlace
  <2>3. ~Loading
    BY <2>1, <2>2 DEF IInv, StatesAgree
  <2>4. BodyPlaces'
    BY <2>1, Apart DEF IInv, BodyPlaces, BodyAt
  <2>5. StatesAgree'
    BY <2>1, <2>3, Apart DEF IInv, StatesAgree, Running, Loaded, Loading
  <2>6. ListOrder'
    <3>1. ~Closing
      BY <2>1 DEF Closing, Running
    <3> QED
      BY <2>1, <3>1, OrderStays DEF IInv
  <2>7. Endings'
    BY <2>1, Apart DEF IInv, Endings, Running
  <2> QED
    BY <2>4, <2>5, <2>6, <2>7 DEF IInv
<1> QED
  BY <1>1, <1>2

(* It queues Game::shutdown ...                                            *)
LEMMA QueuesInv ==
  ASSUME PartsOK, IInv, ShutdownQueues
  PROVE  IInv'
<1>1. /\ dpc = "run" /\ task \in TermSignals /\ body = "saved" /\ body' = "stopScheduler"
      /\ UNCHANGED <<mpc, gameState, world, bpc, fpc, bShutdown>>
      /\ D!AddTask(Dispatch, GameShutdown, FALSE)
  BY DEF ShutdownQueues, BodyMoves, bVars, ioVars, gameVars
<1>2. GameShutdown \in Tasks \ {Poison} /\ GameShutdown \notin Events
  BY Apart DEF Tasks
<1>3. Pushed(GameShutdown, FALSE)
  BY <1>1, <1>2, TaskPushed DEF PartsOK
<1>4. /\ UNCHANGED <<dState, dpc, task>>
      /\ status'[GameShutdown] \in {"queued", "refused"}
      /\ \A s \in Tasks : s # GameShutdown => status'[s] = status[s]
      /\ {MainLoader, Poison} \union TermSignals \union SaveSignals \subseteq Tasks
  BY <1>2, <1>3 DEF Pushed, PartsOK, D!TypeOK, Tasks
<1>5. gameState = "SHUTDOWN"
  BY <1>1 DEF IInv, StatesAgree, Running
<1>6. BodyPlaces'
  BY <1>1, <1>4, Apart DEF IInv, BodyPlaces, BodyAt
<1>7. StatesAgree'
  BY <1>1, <1>4, <1>5, Apart DEF IInv, StatesAgree, Running, Loaded, Loading
<1>8. ListOrder'
  <2>1. Closing'
    BY <1>1, <1>4 DEF Closing, Running
  <2> QED
    BY <1>2, <1>3, <2>1, OrderPushed
<1>9. Endings'
  <2>1. world # "down"
    BY <1>3 DEF IInv, Endings, Pushed
  <2> QED
    BY <1>1, <1>4, <2>1, Apart DEF IInv, Endings, Running
<1> QED
  BY <1>6, <1>7, <1>8, <1>9 DEF IInv

(* ... and closes the dispatcher.                                          *)
LEMMA StopsDispatcherInv ==
  ASSUME PartsOK, IInv, ShutdownStopsDispatcher
  PROVE  IInv'
<1>1. /\ dpc = "run" /\ task \in TermSignals /\ body = "stopDispatcher" /\ body' = "end"
      /\ dState' = "CLOSING"
      /\ UNCHANGED <<taskList, dpc, task, status, mpc, gameState, world, bpc, fpc, bShutdown>>
  BY DEF ShutdownStopsDispatcher, StopDispatcher, D!Stop, BodyMoves, bVars, ioVars, gameVars
<1>2. BodyPlaces'
  BY <1>1, Apart DEF IInv, BodyPlaces, BodyAt
<1>3. StatesAgree'
  BY <1>1, Apart DEF IInv, StatesAgree, Running, Loaded, Loading
<1>4. ListOrder'
  BY <1>1 DEF IInv, ListOrder
<1>5. Endings'
  BY <1>1, Apart DEF IInv, Endings, Running
<1> QED
  BY <1>2, <1>3, <1>4, <1>5 DEF IInv

(* Game::shutdown.                                                         *)
LEMMA GameShutdownInv ==
  ASSUME PartsOK, IInv,
         GameShutdownScheduler \/ GameShutdownDatabase \/ GameShutdownTearsDown
  PROVE  IInv'
<1>1. /\ dpc = "run" /\ task = GameShutdown
      /\ UNCHANGED <<dState, taskList, dpc, task, status, mpc, gameState, bpc>>
      /\ \/ /\ body = "begin" /\ body' = "database"
            /\ UNCHANGED <<world, fpc, bShutdown>>
         \/ /\ body = "database" /\ body' = "dispatcher"
            /\ bShutdown = "none" /\ bShutdown' = "flushing" /\ world' = world
         \/ /\ body = "teardown" /\ body' = "end"
            /\ UNCHANGED <<fpc, bShutdown>>
  BY DEF GameShutdownScheduler, GameShutdownDatabase, GameShutdownTearsDown, BodyMoves,
         ShutdownDatabase, B!Shutdown, dVars, bVars, ioVars, gameVars
<1>2. GameShutdown \in Tasks /\ status[GameShutdown] \in {"held", "running"}
  BY <1>1 DEF PartsOK, D!TypeOK, D!OnePlace
<1>3. gameState = "SHUTDOWN"
  BY <1>2 DEF IInv, StatesAgree
<1>4. BodyPlaces'
  BY <1>1, Apart DEF IInv, BodyPlaces, BodyAt
<1>5. StatesAgree'
  BY <1>1, <1>3, Apart DEF IInv, StatesAgree, Running, Loaded, Loading
<1>6. ListOrder'
  <2>1. ~Closing
    BY <1>1, Apart DEF Closing, Running
  <2> QED
    BY <1>1, <2>1, OrderStays DEF IInv
<1>7. Endings'
  BY <1>1, <1>2, Apart DEF IInv, Endings, Running
<1> QED
  BY <1>4, <1>5, <1>6, <1>7 DEF IInv

(* The poison is queued behind everything, for the last time.              *)
LEMMA PoisonInv ==
  ASSUME PartsOK, IInv, GameShutdownDispatcher
  PROVE  IInv'
<1>1. /\ dpc = "run" /\ task = GameShutdown /\ body = "dispatcher" /\ body' = "teardown"
      /\ bShutdown # "flushing"
      /\ UNCHANGED <<mpc, gameState, world, bpc, fpc, bShutdown>>
      /\ D!Shutdown(Dispatch, Poison)
  BY DEF GameShutdownDispatcher, BodyMoves, bVars, ioVars, gameVars
<1>2. /\ taskList \in Seq(Tasks) /\ status \in [Tasks -> D!Fates]
      /\ (\A s \in Tasks : status[s] = "queued" <=> \E i \in DOMAIN taskList : taskList[i] = s)
      /\ (\A s \in Tasks : status[s] \in {"held", "running"} <=> s = task)
      /\ {MainLoader, Poison, GameShutdown} \union TermSignals \union SaveSignals
           \subseteq Tasks
  BY DEF PartsOK, D!TypeOK, D!OnePlace, D!Listed, Tasks
<1>3. /\ taskList' = Append(taskList, Poison) /\ status[Poison] = "new"
      /\ status'[Poison] = "queued" /\ \A s \in Tasks : s # Poison => status'[s] = status[s]
      /\ UNCHANGED <<dState, task>> /\ dpc' = "run"
  BY <1>1, <1>2 DEF D!Shutdown, D!Number, D!Notify
<1>4. /\ status[GameShutdown] \in {"held", "running"} /\ dState # "RUNNING"
      /\ bShutdown = "done" /\ gameState = "SHUTDOWN"
      /\ NoEvents(taskList) /\ GameShutdown \notin Events
  BY <1>1, <1>2, Apart DEF IInv, StatesAgree, ListOrder, Endings, Running
<1>5. BodyPlaces'
  BY <1>1, <1>3, Apart DEF IInv, BodyPlaces, BodyAt
<1>6. StatesAgree'
  BY <1>1, <1>2, <1>3, <1>4, Apart DEF IInv, StatesAgree, Running, Loaded, Loading
<1>7. ListOrder'
  <2>1. EventsFirst(taskList') /\ PoisonLast(taskList')
    <3>1. \A i \in DOMAIN taskList : taskList[i] # Poison
      BY <1>2, <1>3
    <3>2. EventsFirst(taskList) /\ PoisonLast(taskList) /\ Poison \in Tasks /\ Poison \notin Events
      BY <1>2, Apart DEF IInv, ListOrder
    <3> QED
      BY <1>2, <1>3, <3>1, <3>2, ListPushed
  <2>2. NoEvents(taskList')
    <3>1. /\ DOMAIN taskList' = 1 .. Len(taskList) + 1 /\ DOMAIN taskList = 1 .. Len(taskList)
          /\ \A i \in 1 .. Len(taskList) : taskList'[i] = taskList[i]
          /\ taskList'[Len(taskList) + 1] = Poison
          /\ Len(taskList) \in Nat
      BY <1>2, <1>3, AppendProperties, LenProperties
    <3>2. Poison \notin Events
      BY Apart
    <3> QED
      BY <1>4, <3>1, <3>2 DEF NoEvents
  <2> QED
    BY <1>1, <1>2, <1>3, <1>4, <2>1, <2>2, Apart DEF ListOrder
<1>8. Endings'
  BY <1>1, <1>2, <1>3, <1>4, Apart DEF IInv, Endings, Running
<1> QED
  BY <1>5, <1>6, <1>7, <1>8 DEF IInv

(* Every step keeps the invariant.                                         *)
LEMMA NextIInv ==
  ASSUME RestTypes, PartsOK, SP!TypeOK, IInv, [Next]_vars
  PROVE  IInv'
<1>1. CASE MainStep \/ Input
  <2>1. \/ MainStart \/ Aside
        \/ \E sig \in TermSignals \union SaveSignals : IoSignal(sig)
    BY <1>1, MainStepAside DEF Input
  <2> QED
    BY <2>1, AsideInv, FromMainInv
<1>2. CASE DispatcherThread
  <2>1. UNCHANGED <<bVars, ioVars, body, gameVars>>
    BY <1>2 DEF DispatcherThread
  <2>2. CASE Untaken
    <3>1. Aside
      BY <2>1, <2>2, UnchangedAside DEF Aside, ioVars, gameVars
    <3> QED
      BY <3>1, AsideInv
  <2>3. CASE Popped
    BY <2>1, <2>3, PoppedInv
  <2> QED
    BY <1>2, <2>2, <2>3, DispatcherOutside
<1>3. CASE BeginBody \/ EndBody
  BY <1>3, BeginBodyInv, EndBodyInv
<1>4. CASE LoaderStep \/ EventStep \/ LoginStep
  BY <1>4, LoaderInv, EventStepInv DEF LoaderStep
<1>5. CASE SaveBegins \/ SaveEnds
  BY <1>5, SaveInv
<1>6. CASE ShutdownStep
  BY <1>6, TermInv, QueuesInv, StopsDispatcherInv, GameShutdownInv, PoisonInv, OthersAside,
     AsideInv DEF ShutdownStep
<1>7. CASE \/ ScheduleStep \/ DatabaseStep \/ SpuriousWakeup \/ Tick
           \/ FlushStep \/ FinishQuery(Dispatch)
           \/ NotifyDispatcher(Dispatch) \/ NotifyScheduler(Dispatch) \/ NotifyDatabase(Dispatch)
  BY <1>7, OthersAside, AsideInv
<1>8. CASE UNCHANGED vars
  <2>1. Aside
    BY <1>8, UnchangedAside DEF vars, Aside, ioVars, gameVars
  <2> QED
    BY <2>1, AsideInv
<1> QED
  BY <1>1, <1>2, <1>3, <1>4, <1>5, <1>6, <1>7, <1>8 DEF Next, DispatchStep

(* The inductive invariant of the four threads.                            *)
THEOREM Invariance == Spec => []IInv
  BY InitIInv, NextIInv, RestTypeCorrect, PartsStayOK, ServerOnTime, PTL DEF Spec

(* The types of all four threads; the dispatcher is in a body exactly while*)
(* it runs a task.                                                         *)
THEOREM TypeCorrect == Spec => []TypeOK
<1>1. RestTypes /\ PartsOK /\ IInv => TypeOK
  BY DEF RestTypes, PartsOK, IInv, BodyPlaces, TypeOK
<1> QED
  BY <1>1, RestTypeCorrect, PartsStayOK, Invariance, PTL

-----------------------------------------------------------------------------
(* No event runs once Game::shutdown is: the list has none left, and takes *)
(* none.                                                                   *)
LEMMA NoEventInv == IInv => NoEventAfterTeardown
  BY DEF IInv, ListOrder, Endings, NoEventAfterTeardown

(* main leaves after all three joins: the poison has been run, hence the   *)
(* flush of Game::shutdown is over and the list of tasks is empty.         *)
LEMMA AbandonedInv == PartsOK /\ IInv => NothingAbandoned
<1> SUFFICES ASSUME PartsOK, IInv, mpc = "exit"
             PROVE  /\ taskList = << >>
                    /\ \A q \in Queries : qStatus[q] \in {"new", "refused", "done"}
  BY DEF NothingAbandoned, QueriesExecutedAtExit, NoTaskAbandoned
<1>1. /\ bpc = "stopped" /\ status[Poison] = "done" /\ bShutdown = "done"
      /\ taskList = << >>
  BY DEF IInv, Endings, ListOrder
<1>2. tasks = << >> /\ hand[Dispatch] = None /\ hand[Database] = None
  BY <1>1 DEF PartsOK, B!NothingLeftBehind, B!TypeOK, B!Runners
<1>3. \A q \in Queries : qStatus[q] \notin {"queued", "held", "executed"}
  <2>1. B!Listed = {}
    BY <1>2 DEF B!Listed
  <2>2. \A r \in B!Runners : hand[r] \notin Queries
    BY <1>2, ServerAssumption DEF B!Runners
  <2> QED
    BY <2>1, <2>2 DEF PartsOK, B!RunOnce
<1> QED
  BY <1>1, <1>3 DEF PartsOK, B!TypeOK, B!QueryFates

(* The process ends clean, whatever comes in whatever order: no event runs *)
(* in the world that was torn down, and no accepted query or task is lost. *)
THEOREM EndsClean == Spec => []CleanEnd
<1>1. PartsOK /\ IInv => CleanEnd
  BY NoEventInv, AbandonedInv DEF CleanEnd
<1> QED
  BY <1>1, PartsStayOK, Invariance, PTL

-----------------------------------------------------------------------------
(* No step leaves GAME_STATE_SHUTDOWN: the states that a save restores     *)
(* and a loader sets come before it.                                       *)
LEMMA ShutdownStays ==
  ASSUME RestTypes, PartsOK, SP!TypeOK, IInv, Next, gameState = "SHUTDOWN"
  PROVE  gameState' = "SHUTDOWN"
<1>1. CASE MainStep \/ Input
  BY <1>1
  DEF MainStep, MainStart, MainWait, IoSecondRead, IoLogin, IoDie, Join, NotifyDispatcher,
      NotifyDatabase, Input, IoSignal, IoFirstMessage, IoDeleteBan, gameVars
<1>2. CASE LoaderStep
  <2>1. ~LoaderOpens /\ ~LoaderDone
    <3>1. task = MainLoader /\ dpc = "run" /\ body # "end" => gameState # "SHUTDOWN"
      <4> SUFFICES ASSUME task = MainLoader, dpc = "run", body # "end"
                   PROVE  FALSE
        OBVIOUS
      <4>1. status[MainLoader] # "done"
        BY DEF PartsOK, D!TypeOK, D!OnePlace
      <4> QED
        BY <4>1 DEF IInv, StatesAgree, Loaded, Running
    <3> QED
      BY <3>1 DEF LoaderOpens, LoaderDone, BodyMoves
  <2> QED
    BY <1>2, <2>1 DEF LoaderStep, LoaderStarts, gameVars
<1>3. CASE SaveBegins \/ SaveEnds
  BY <1>3, SaveInv
<1>4. CASE ShutdownStep
  BY <1>4
  DEF ShutdownStep, ShutdownAgain, ShutdownKicks, ShutdownSaves, ShutdownQueues,
      ShutdownStopsScheduler, ShutdownStopsDatabase, ShutdownStopsDispatcher,
      GameShutdownScheduler, SchedulerShutdownStep, GameShutdownDatabase,
      DatabaseShutdownStep, GameShutdownDispatcher, GameShutdownTearsDown, gameVars
<1>5. CASE EventStep \/ LoginStep
  BY <1>5
  DEF EventStep, EventReschedules, EventQueries, EventEnds, CallbackEnds, LoginStep,
      LoginPlaces, LoginRejects, gameVars
<1>6. CASE DispatcherThread \/ BeginBody \/ EndBody
  BY <1>6 DEF DispatcherThread, BeginBody, EndBody, gameVars
<1>7. CASE \/ ScheduleStep \/ DatabaseStep \/ SpuriousWakeup \/ Tick
           \/ FlushStep \/ FinishQuery(Dispatch)
           \/ NotifyDispatcher(Dispatch) \/ NotifyScheduler(Dispatch) \/ NotifyDatabase(Dispatch)
  BY <1>7, OthersAside DEF Aside
<1> QED
  BY <1>1, <1>2, <1>3, <1>4, <1>5, <1>6, <1>7 DEF Next, DispatchStep

(* Only IoSecondRead goes on to the bans, and it has read a state in which *)
(* nobody flushes but the shutdown.                                        *)
LEMMA SecondReadOnly ==
  ASSUME RestTypes, PartsOK, SP!TypeOK, Next, mpc = "first", mpc' = "bans"
  PROVE  gameState \notin {"STARTUP", "MAINTAIN"}
<1>1. CASE MainStep \/ Input
  BY <1>1
  DEF MainStep, MainStart, MainWait, IoSecondRead, IoLogin, IoDie, Join, NotifyDispatcher,
      NotifyDatabase, Input, IoSignal, IoFirstMessage, IoDeleteBan, MainMoves, ioVars
<1>2. CASE DispatchStep
  BY <1>2
  DEF DispatchStep, DispatcherThread, BeginBody, EndBody, LoaderStep, LoaderOpens, LoaderStarts,
      LoaderDone, EventStep, EventReschedules, EventQueries, EventEnds, CallbackEnds, LoginStep,
      LoginPlaces, LoginRejects, SaveBegins, SaveEnds, FlushStep, FinishQuery,
      NotifyDispatcher, NotifyScheduler, NotifyDatabase,
      ShutdownStep, ShutdownAgain, ShutdownKicks, ShutdownSaves, ShutdownQueues,
      ShutdownStopsScheduler, ShutdownStopsDatabase, ShutdownStopsDispatcher,
      GameShutdownScheduler, SchedulerShutdownStep, GameShutdownDatabase,
      DatabaseShutdownStep, GameShutdownDispatcher, GameShutdownTearsDown, ioVars
<1>3. CASE ScheduleStep \/ DatabaseStep \/ SpuriousWakeup \/ Tick
  BY <1>3
  DEF ScheduleStep, SchedulerThread, SchedulerHandOver, DatabaseStep, DatabaseThread,
      FinishQuery, NotifyDispatcher, SpuriousWakeup, Tick, ioVars
<1> QED
  BY <1>1, <1>2, <1>3 DEF Next

(* The state that a save sets is in force while it flushes, and a save that*)
(* restores the old state never undoes a shutdown.                         *)
THEOREM SavingStateStays == Spec => SavingStateRespected
<1>1. RestTypes /\ PartsOK /\ SP!TypeOK /\ IInv /\ [Next]_vars
        => [gameState = "SHUTDOWN" => gameState' = "SHUTDOWN"]_vars
  BY ShutdownStays
<1>2. RestTypes /\ PartsOK /\ SP!TypeOK /\ IInv /\ [Next]_vars
        => [mpc = "first" /\ mpc' = "bans" => fpc = "idle" \/ gameState = "SHUTDOWN"]_vars
  BY SecondReadOnly DEF IInv, StatesAgree
<1> QED
  BY <1>1, <1>2, RestTypeCorrect, PartsStayOK, ServerOnTime, Invariance, PTL
  DEF Spec, SavingStateRespected, ShutdownIsFinal, NoAdmissionWhileSaving
=============================================================================
