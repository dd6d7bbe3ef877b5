CONSTANTS
  Connections = {c1, c2}
  Bodies = {b1, b2}
  NoConnection = none
  NoBody = nobody
  ReplaceKickOnLogin = TRUE
  MaxQueue = 1
SPECIFICATION Spec
INVARIANT PlayerNotLeaked
CHECK_DEADLOCK FALSE
