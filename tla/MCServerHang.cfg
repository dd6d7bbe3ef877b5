CONSTANTS
  main = main
  dispatch = dispatch
  schedule = schedule
  database = database
  loader = loader
  shutdown = shutdown
  poison = poison
  e1 = e1
  e2 = e2
  term1 = term1
  term2 = term2
  usr1 = usr1
  p1 = p1
  q1 = q1
  none = none
  Main = main
  Dispatch = dispatch
  Schedule = schedule
  Database = database
  MainLoader = loader
  GameShutdown = shutdown
  Poison = poison
  FirstEvents <- OneEvent
  LaterEvents <- NoTasks
  TermSignals <- OneSignal
  SaveSignals <- NoTasks
  Logins <- NoTasks
  Queries <- NoTasks
  WithCallback <- NoTasks
  None = none
  EventDelay = 1
  MaxId = 3
  MaxTime = 1
SPECIFICATION FairSpec
CHECK_DEADLOCK FALSE
PROPERTIES
  SignalShutsServerDown
