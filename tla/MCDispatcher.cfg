CONSTANTS
  Callers = {c1, c2}
  Worker = w
  Tasks = {t1, t2, t3, poison}
  ShutdownTasks = {poison}
  Expiring = {t3}
  NoTask = none
SPECIFICATION FairSpec
CHECK_DEADLOCK FALSE
PROPERTIES
  AcceptedIsServed
INVARIANTS
  TypeOK
  NoLostWakeup
  OnePlace
  FirstComeFirstServed
