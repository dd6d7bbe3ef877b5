------------------------------- MODULE Server -------------------------------
(***************************************************************************)
(* The four threads of the server put together: main (which becomes the    *)
(* I/O thread), the dispatcher, the scheduler and the database thread,     *)
(* from the start of a successful load to the end of the process           *)
(* (src/src/otserv.cpp, signals.cpp, server.cpp, and the parts of game.cpp *)
(* and protocolgame.cpp that start, save and stop the server).             *)
(*                                                                         *)
(* Each component is an instance of its own module; an action of this      *)
(* module is a step of one thread: a component's action, two of them when  *)
(* the code calls from one component into another, or a step of a task     *)
(* body.  The body that the dispatcher runs is a program of its own, whose *)
(* counter is "body".                                                      *)
(***************************************************************************)
EXTENDS Naturals, Sequences

CONSTANTS
  Main, Dispatch, Schedule, Database,  \* the threads
  MainLoader,       \* the task that main hands over
  GameShutdown,     \* the task of Game::shutdown
  Poison,           \* the task of Dispatcher::shutdown
  FirstEvents,      \* the events of Game::start
  LaterEvents,      \* those added by an event's body when it runs
  TermSignals,      \* signals (SIGINT, SIGTERM) and the tasks they become
  SaveSignals,      \* SIGUSR1
  Logins,           \* characters, and the tasks that log them in
  Queries,          \* asynchronous queries ...
  WithCallback,     \* ... those with a callback, and the tasks these become
  None,
  EventDelay,       \* the period of an event
  MaxId,            \* the largest event id
  MaxTime           \* bound: where the clock stops

Events == FirstEvents \union LaterEvents

Tasks == {MainLoader, GameShutdown, Poison} \union Events \union TermSignals
           \union SaveSignals \union Logins \union WithCallback

(* The threads are four, and a task is of one kind only.                   *)
ASSUME ServerAssumption ==
  /\ Main \notin {Schedule, Database} /\ Schedule # Database
  /\ Dispatch \notin {Main, Schedule, Database}
  /\ WithCallback \subseteq Queries
  /\ None \notin Tasks \union Queries
  /\ LET kinds == <<{MainLoader}, {GameShutdown}, {Poison}, Events, TermSignals,
                    SaveSignals, Logins, WithCallback>>
     IN  \A i, j \in DOMAIN kinds : i # j => kinds[i] \cap kinds[j] = {}
  /\ EventDelay \in Nat /\ MaxTime \in Nat /\ MaxId \in Nat \ {0}

VARIABLES
  dState, taskList, dpc, task, signalling, status, ticket, lastTicket,
  now, sState, eventList, due, eventId, eventIds, lastEventId, spc, deadline,
  event, sSignalling, sShutdown, fate, cancelled,
  bState, tasks, bpc, fpc, hand, bSignalling, bShutdown, qStatus, arrival, arrivals,
  mpc,        \* where main is
  login,      \* the login the I/O thread handles
  body,       \* where the dispatcher is in the body of its task
  gameState,  \* Game::gameState
  services,   \* state of the ServiceManager
  online,     \* Game::players
  world       \* history: "down" once Game::shutdown has torn it down

D == INSTANCE Dispatcher
       WITH Callers <- {Main, Schedule, Database}, Worker <- Dispatch,
            ShutdownTasks <- {Poison}, Expiring <- {}, NoTask <- None

S == INSTANCE Scheduler
       WITH EventCallers <- {Dispatch}, NoEvent <- None,
            MaxDelay <- EventDelay

B == INSTANCE DatabaseTasks
       WITH QueryCallers <- {Main, Dispatch}, Flusher <- Dispatch,
            DbThread <- Database, NoQuery <- None

dVars == <<dState, taskList, dpc, task, signalling, status, ticket, lastTicket>>
sVars == <<now, sState, eventList, due, eventId, eventIds, lastEventId, spc,
           deadline, event, sSignalling, sShutdown, fate, cancelled>>
bVars == <<bState, tasks, bpc, fpc, hand, bSignalling, bShutdown, qStatus,
           arrival, arrivals>>
gameVars == <<gameState, services, online, world>>
ioVars == <<mpc, login>>
vars == <<dVars, sVars, bVars, ioVars, body, gameVars>>

Init ==
  /\ D!Init /\ S!Init /\ B!Init
  /\ lastEventId = 0
  /\ mpc = "start" /\ login = None
  /\ body = "idle"
  /\ gameState = "STARTUP" /\ services = "closed" /\ online = {} /\ world = "up"

(* A thread leaves a call of addTask or addEvent only after its notify_one.*)
Returned(c) == c \notin signalling /\ c \notin sSignalling /\ c \notin bSignalling

-----------------------------------------------------------------------------
(* main and, from io_service.run() on, the I/O thread.                     *)

MainMoves(from, to) == mpc = from /\ Returned(Main) /\ mpc' = to

MainStart ==
  /\ MainMoves("start", "started")
  /\ D!AddTask(Main, MainLoader, FALSE)
  /\ UNCHANGED <<sVars, bVars, login, body, gameVars>>

(* g_loaderSignal.wait; LoaderDone wakes main, if it is there already.  The *)
(* wait has no predicate; that it may return too early is left out here.   *)
MainWait ==
  /\ MainMoves("started", "waiting")
  /\ UNCHANGED <<dVars, sVars, bVars, login, body, gameVars>>

(* Signals::dispatchSignalHandler                                          *)
IoSignal(sig) ==
  /\ MainMoves("io", "io")
  /\ D!AddTask(Main, sig, FALSE)
  /\ UNCHANGED <<sVars, bVars, login, body, gameVars>>

(* ProtocolGame::onRecvFirstMessage reads the game state twice, queries    *)
(* the database (an expired IP ban is deleted asynchronously) and only     *)
(* then hands the login over to the dispatcher.                            *)
IoFirstMessage(p) ==
  /\ MainMoves("io", "first")
  /\ status[p] = "new"
  /\ gameState # "SHUTDOWN"
  /\ login' = p
  /\ UNCHANGED <<dVars, sVars, bVars, body, gameVars>>

IoSecondRead ==
  /\ \/ gameState \in {"STARTUP", "MAINTAIN"} /\ MainMoves("first", "io") /\ login' = None
     \/ gameState \notin {"STARTUP", "MAINTAIN"} /\ MainMoves("first", "bans")
        /\ UNCHANGED login
  /\ UNCHANGED <<dVars, sVars, bVars, body, gameVars>>

IoDeleteBan(q) ==
  /\ MainMoves("bans", "admitted")
  /\ B!AddTask(Main, q)
  /\ UNCHANGED <<dVars, sVars, login, body, gameVars>>

IoLogin ==
  /\ mpc \in {"bans", "admitted"} /\ Returned(Main) /\ mpc' = "io"
  /\ D!AddTask(Main, login, FALSE)
  /\ login' = None
  /\ UNCHANGED <<sVars, bVars, body, gameVars>>

(* The death timer of ServiceManager::stop ends io_service.run.            *)
IoDie ==
  /\ services = "stopping"
  /\ MainMoves("io", "joinScheduler")
  /\ services' = "stopped"
  /\ UNCHANGED <<dVars, sVars, bVars, login, body, gameState, online, world>>

(* ThreadHolder::join, three times.                                        *)
Join ==
  /\ \/ spc = "stopped" /\ MainMoves("joinScheduler", "joinDatabase")
     \/ bpc = "stopped" /\ MainMoves("joinDatabase", "joinDispatcher")
     \/ dpc = "stopped" /\ MainMoves("joinDispatcher", "exit")
  /\ UNCHANGED <<dVars, sVars, bVars, login, body, gameVars>>

-----------------------------------------------------------------------------
(* The scheduler and the database thread.                                  *)

SchedulerThread ==
  /\ Returned(Schedule)
  /\ S!Check \/ S!LockAndWait \/ S!Timeout \/ S!Resume
  /\ UNCHANGED <<dVars, bVars, ioVars, body, gameVars>>

SchedulerHandOver ==
  /\ S!HandOver
  /\ D!AddTask(Schedule, event, TRUE)
  /\ UNCHANGED <<bVars, ioVars, body, gameVars>>

DatabaseThread ==
  /\ Returned(Database)
  /\ B!Check \/ B!LockAndTake \/ B!Wakened \/ B!Execute(Database)
  /\ UNCHANGED <<dVars, sVars, ioVars, body, gameVars>>

(* The end of runTask: the callback becomes a task of the dispatcher.      *)
FinishQuery(r) ==
  /\ B!FinishRun(r)
  /\ \/ hand[r] \in WithCallback /\ D!AddTask(r, hand[r], FALSE)
     \/ hand[r] \notin WithCallback /\ UNCHANGED dVars
  /\ UNCHANGED <<sVars, ioVars, body, gameVars>>

-----------------------------------------------------------------------------
(* The dispatcher outside of a task body.                                  *)

DispatcherThread ==
  /\ D!Check \/ D!LockAndTake \/ D!Wakened
  /\ UNCHANGED <<sVars, bVars, ioVars, body, gameVars>>

BeginBody ==
  /\ D!StartTask
  /\ body' = "begin"
  /\ UNCHANGED <<sVars, bVars, ioVars, gameVars>>

EndBody ==
  /\ D!FinishTask
  /\ body = "end" /\ Returned(Dispatch)
  /\ body' = "idle"
  /\ UNCHANGED <<sVars, bVars, ioVars, gameVars>>

(* A step of the body: the previous call has returned.                     *)
BodyMoves(kind, from, to) ==
  /\ dpc = "run" /\ task \in kind
  /\ Returned(Dispatch)
  /\ fpc = "idle" /\ bShutdown # "flushing"
  /\ sShutdown \notin {"terminated", "cleared"}
  /\ body = from /\ body' = to

(* The end of mainLoader: the services are opened, Game::start adds the    *)
(* periodic events, and main is notified - if it waits.                    *)
LoaderOpens ==
  /\ BodyMoves({MainLoader}, "begin", "events")
  /\ services' = "open"
  /\ gameState' = "INIT"
  /\ UNCHANGED <<dVars, sVars, bVars, ioVars, online, world>>

LoaderStarts(e) ==
  /\ e \in FirstEvents
  /\ BodyMoves({MainLoader}, "events", "events")
  /\ S!AddEvent(Dispatch, e, now + EventDelay)
  /\ UNCHANGED <<dVars, bVars, ioVars, gameVars>>

LoaderDone ==
  /\ \A e \in FirstEvents : fate[e] # "new"
  /\ BodyMoves({MainLoader}, "events", "end")
  /\ gameState' = "NORMAL"
  /\ mpc' = IF mpc = "waiting" THEN "io" ELSE mpc
  /\ UNCHANGED <<dVars, sVars, bVars, login, services, online, world>>

(* The body of a periodic event (checkCreatures, checkDecay, ...) starts   *)
(* by scheduling its successor, and its scripts may query the database.    *)
(* Bound: after LaterEvents there is no successor.                         *)
EventReschedules(e) ==
  /\ e \in LaterEvents
  /\ BodyMoves(Events, "begin", "think")
  /\ S!AddEvent(Dispatch, e, now + EventDelay)
  /\ UNCHANGED <<dVars, bVars, ioVars, gameVars>>

EventQueries(q) ==
  /\ BodyMoves(Events, "think", "end")
  /\ B!AddTask(Dispatch, q)
  /\ UNCHANGED <<dVars, sVars, ioVars, gameVars>>

EventEnds ==
  /\ \/ BodyMoves(Events, "think", "end")
     \/ (\A e \in LaterEvents : fate[e] # "new") /\ BodyMoves(Events, "begin", "end")
  /\ UNCHANGED <<dVars, sVars, bVars, ioVars, gameVars>>

CallbackEnds ==
  /\ BodyMoves(WithCallback \union {Poison}, "begin", "end")
  /\ UNCHANGED <<dVars, sVars, bVars, ioVars, gameVars>>

(* ProtocolGame::login: of the game states only CLOSING and CLOSED are     *)
(* looked at, and this server is never in them; another test (bans,        *)
(* waiting list, loading) may reject the character.                        *)
LoginAllowed == gameState \notin {"CLOSING", "CLOSED"}

LoginPlaces ==
  /\ BodyMoves(Logins, "begin", "end")
  /\ LoginAllowed
  /\ online' = online \union {task}
  /\ UNCHANGED <<dVars, sVars, bVars, ioVars, gameState, services, world>>

LoginRejects ==
  /\ BodyMoves(Logins, "begin", "end")
  /\ UNCHANGED <<dVars, sVars, bVars, ioVars, gameVars>>

(* Game::saveGameState, for SIGUSR1: MAINTAIN while it saves and flushes.  *)
StateWhileSaving == IF gameState = "NORMAL" THEN "MAINTAIN" ELSE gameState

StateAlwaysRestored == "NORMAL"
StateAfterSaving == IF gameState = "MAINTAIN" THEN "NORMAL" ELSE gameState

SaveBegins ==
  /\ BodyMoves(SaveSignals, "begin", "saved")
  /\ gameState' = StateWhileSaving
  /\ B!Flush
  /\ UNCHANGED <<dVars, sVars, ioVars, services, online, world>>

SaveEnds ==
  /\ BodyMoves(SaveSignals, "saved", "end")
  /\ gameState' = StateAfterSaving
  /\ UNCHANGED <<dVars, sVars, bVars, ioVars, services, online, world>>

(* One round of DatabaseTasks::flush, on the dispatcher.                   *)
FlushStep ==
  /\ Returned(Dispatch)
  /\ B!FlushRound \/ B!Execute(Dispatch)
  /\ UNCHANGED <<dVars, sVars, ioVars, body, gameVars>>

(* Game::setGameState(GAME_STATE_SHUTDOWN), for SIGINT and SIGTERM: kick   *)
(* everybody, save and flush, queue Game::shutdown, stop the three.        *)
ShutdownAgain ==
  /\ gameState = "SHUTDOWN"
  /\ BodyMoves(TermSignals, "begin", "end")
  /\ UNCHANGED <<dVars, sVars, bVars, ioVars, gameVars>>

ShutdownKicks ==
  /\ gameState # "SHUTDOWN"
  /\ BodyMoves(TermSignals, "begin", "kicked")
  /\ gameState' = "SHUTDOWN"
  /\ online' = {}
  /\ UNCHANGED <<dVars, sVars, bVars, ioVars, services, world>>

ShutdownSaves ==
  /\ BodyMoves(TermSignals, "kicked", "saved")
  /\ B!Flush
  /\ UNCHANGED <<dVars, sVars, ioVars, gameVars>>

ShutdownQueues ==
  /\ BodyMoves(TermSignals, "saved", "stopScheduler")
  /\ D!AddTask(Dispatch, GameShutdown, FALSE)
  /\ UNCHANGED <<sVars, bVars, ioVars, gameVars>>

ShutdownStopsScheduler ==
  /\ BodyMoves(TermSignals, "stopScheduler", "stopDatabase")
  /\ S!Stop
  /\ UNCHANGED <<dVars, bVars, ioVars, gameVars>>

ShutdownStopsDatabase ==
  /\ BodyMoves(TermSignals, "stopDatabase", "stopDispatcher")
  /\ B!Stop
  /\ UNCHANGED <<dVars, sVars, ioVars, gameVars>>

StopDispatcher == D!Stop

ShutdownStopsDispatcher ==
  /\ BodyMoves(TermSignals, "stopDispatcher", "end")
  /\ StopDispatcher
  /\ UNCHANGED <<sVars, bVars, ioVars, gameVars>>

(* Game::shutdown                                                          *)
GameShutdownScheduler ==
  /\ BodyMoves({GameShutdown}, "begin", "database")
  /\ S!ShutdownSetState(Dispatch)
  /\ UNCHANGED <<dVars, bVars, ioVars, gameVars>>

SchedulerShutdownStep ==
  /\ S!ShutdownClear \/ S!ShutdownNotify
  /\ UNCHANGED <<dVars, bVars, ioVars, body, gameVars>>

OnlyTerminates ==
  /\ bState' = "TERMINATED" /\ bShutdown' = "done"
  /\ UNCHANGED <<tasks, bpc, fpc, hand, bSignalling, qStatus, arrival, arrivals>>
ShutdownDatabase == B!Shutdown

GameShutdownDatabase ==
  /\ BodyMoves({GameShutdown}, "database", "dispatcher")
  /\ ShutdownDatabase
  /\ UNCHANGED <<dVars, sVars, ioVars, gameVars>>

DatabaseShutdownStep ==
  /\ Returned(Dispatch)
  /\ B!ShutdownNotify
  /\ UNCHANGED <<dVars, sVars, ioVars, body, gameVars>>

GameShutdownDispatcher ==
  /\ BodyMoves({GameShutdown}, "dispatcher", "teardown")
  /\ D!Shutdown(Dispatch, Poison)
  /\ UNCHANGED <<sVars, bVars, ioVars, gameVars>>

(* spawns.clear, raids.clear, cleanup; ServiceManager::stop; closeAll.     *)
ServicesKept == services
ServicesAfterTeardown == "stopping"

GameShutdownTearsDown ==
  /\ BodyMoves({GameShutdown}, "teardown", "end")
  /\ world' = "down"
  /\ services' = ServicesAfterTeardown
  /\ UNCHANGED <<dVars, sVars, bVars, ioVars, gameState, online>>

-----------------------------------------------------------------------------
NotifyDispatcher(c) == D!Signal(c) /\ UNCHANGED <<sVars, bVars, ioVars, body, gameVars>>
NotifyScheduler(c) == S!Signal(c) /\ UNCHANGED <<dVars, bVars, ioVars, body, gameVars>>
NotifyDatabase(c) == B!Signal(c) /\ UNCHANGED <<dVars, sVars, ioVars, body, gameVars>>

SpuriousWakeup ==
  \/ D!SpuriousWakeup /\ UNCHANGED <<sVars, bVars, ioVars, body, gameVars>>
  \/ S!SpuriousWakeup /\ UNCHANGED <<dVars, bVars, ioVars, body, gameVars>>
  \/ B!SpuriousWakeup /\ UNCHANGED <<dVars, sVars, ioVars, body, gameVars>>

Tick == S!Tick /\ UNCHANGED <<dVars, bVars, ioVars, body, gameVars>>

ScheduleStep == SchedulerThread \/ SchedulerHandOver \/ NotifyDispatcher(Schedule)

DatabaseStep ==
  DatabaseThread \/ FinishQuery(Database) \/ NotifyDispatcher(Database)

LoaderStep == LoaderOpens \/ LoaderDone \/ \E e \in FirstEvents : LoaderStarts(e)

EventStep ==
  \/ EventEnds \/ CallbackEnds
  \/ \E e \in LaterEvents : EventReschedules(e)
  \/ \E q \in Queries : EventQueries(q)

LoginStep == LoginPlaces \/ LoginRejects

ShutdownStep ==
  \/ ShutdownAgain \/ ShutdownKicks \/ ShutdownSaves \/ ShutdownQueues
  \/ ShutdownStopsScheduler \/ ShutdownStopsDatabase \/ ShutdownStopsDispatcher
  \/ GameShutdownScheduler \/ SchedulerShutdownStep
  \/ GameShutdownDatabase \/ DatabaseShutdownStep
  \/ GameShutdownDispatcher \/ GameShutdownTearsDown

DispatchStep ==
  \/ DispatcherThread \/ BeginBody \/ EndBody
  \/ LoaderStep \/ EventStep \/ LoginStep \/ SaveBegins \/ SaveEnds \/ ShutdownStep
  \/ FlushStep \/ FinishQuery(Dispatch)
  \/ NotifyDispatcher(Dispatch) \/ NotifyScheduler(Dispatch) \/ NotifyDatabase(Dispatch)

(* What main does without anybody's input.                                 *)
MainStep ==
  \/ MainStart \/ MainWait \/ IoSecondRead \/ IoLogin \/ IoDie \/ Join
  \/ NotifyDispatcher(Main) \/ NotifyDatabase(Main)

Input ==
  \/ \E sig \in TermSignals \union SaveSignals : IoSignal(sig)
  \/ \E p \in Logins : IoFirstMessage(p)
  \/ \E q \in Queries : IoDeleteBan(q)

Next ==
  \/ MainStep \/ DispatchStep \/ ScheduleStep \/ DatabaseStep
  \/ Input \/ SpuriousWakeup \/ Tick

(* Every thread that can run runs in the end; wait_until times out; nobody *)
(* has to send anything.                                                   *)
Fairness ==
  /\ WF_vars(MainStep) /\ WF_vars(DispatchStep)
  /\ WF_vars(ScheduleStep) /\ WF_vars(DatabaseStep)
  /\ WF_vars(Tick)
  /\ SF_vars(S!Timeout /\ SchedulerThread)

Spec == Init /\ [][Next]_vars

FairSpec == Spec /\ Fairness

-----------------------------------------------------------------------------
GameStates == {"STARTUP", "INIT", "NORMAL", "MAINTAIN", "SHUTDOWN"}

(* The types, and that a body is being run exactly when a task is.         *)
TypeOK ==
  /\ D!TypeOK /\ B!TypeOK
  /\ mpc \in {"start", "started", "waiting", "io", "first", "bans", "admitted",
              "joinScheduler", "joinDatabase", "joinDispatcher", "exit"}
  /\ login \in Logins \union {None}
  /\ login # None <=> mpc \in {"first", "bans", "admitted"}
  /\ body # "idle" <=> dpc = "run"
  /\ gameState \in GameStates
  /\ services \in {"closed", "open", "stopping", "stopped"}
  /\ online \subseteq Logins
  /\ world \in {"up", "down"}

(* setGameState: "this cannot be stopped" - once it is SHUTDOWN the game   *)
(* state does not change any more, although a save restores the old state. *)
ShutdownIsFinal == [][gameState = "SHUTDOWN" => gameState' = "SHUTDOWN"]_vars

(* While the dispatcher saves and flushes, the I/O thread lets no login    *)
(* pass its second look at the game state - except in the last save, which *)
(* begins after the login has passed the first.                            *)
NoAdmissionWhileSaving ==
  [][mpc = "first" /\ mpc' = "bans" => fpc = "idle" \/ gameState = "SHUTDOWN"]_vars

(* The state that a save sets for its time is in force for all of it, and  *)
(* never outlasts the shutdown.                                            *)
SavingStateRespected == ShutdownIsFinal /\ NoAdmissionWhileSaving

(* No event runs in the torn down world: the scheduler can push in front   *)
(* of Game::shutdown only as long as the dispatcher accepts.               *)
NoEventAfterTeardown == ~(world = "down" /\ dpc = "run" /\ task \in Events)

(* At the end every query that was accepted has been executed, in whatever *)
(* order stop, shutdown, flush and the database thread met.                *)
QueriesExecutedAtExit ==
  mpc = "exit" => \A q \in Queries : qStatus[q] \in {"new", "refused", "done"}

(* ... and every task the dispatcher accepted has been run: none is queued *)
(* behind the poison, since stop comes before shutdown.                    *)
NoTaskAbandoned == mpc = "exit" => taskList = << >>

(* What was accepted before the end is done at the end.                    *)
NothingAbandoned == QueriesExecutedAtExit /\ NoTaskAbandoned

(* The end is clean: nothing is left undone, and nothing is done that uses *)
(* what is gone.                                                           *)
CleanEnd == NoEventAfterTeardown /\ NothingAbandoned

(* A signal the dispatcher accepted shuts the game down.                   *)
SignalIsObeyed ==
  \A sig \in TermSignals : status[sig] = "queued" ~> gameState = "SHUTDOWN"

(* The shutdown comes as far as main joining the threads.                  *)
ShutdownReachesJoin ==
  gameState = "SHUTDOWN" ~>
    mpc \in {"joinScheduler", "joinDatabase", "joinDispatcher", "exit"}

(* From the signal to the joins.                                           *)
SignalReachesJoin == SignalIsObeyed /\ ShutdownReachesJoin

-----------------------------------------------------------------------------
(* What comments of the source say, and the program does not do.           *)

(* Signals::dispatchSignalHandler, "case SIGINT: //Shuts the server down": *)
(* the process comes to its end.                                           *)
SignalShutsServerDown ==
  \A sig \in TermSignals : status[sig] = "queued" ~> mpc = "exit"

(* Game::setGameState: "kick all players that are still online"; nobody is *)
(* left in the world that is saved and torn down.                          *)
NobodyLeftOnline == world = "down" => online = {}
=============================================================================
