CONSTANTS
  QueryCallers = {dispatcher, other}
  Flusher = dispatcher
  DbThread = db
  Queries = {q1, q2, q3, q4}
  NoQuery = none
SPECIFICATION FairSpec
CHECK_DEADLOCK FALSE
INVARIANTS
  TypeOK
  RunOnce
  OnlyHeldIsOvertaken
  NothingLeftBehind
PROPERTIES
  AcceptedIsExecuted
