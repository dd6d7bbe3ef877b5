CONSTANTS
  EventCallers = {c1, c2}
  Events = {e1, e2}
  NoEvent = none
  MaxId = 2
  MaxDelay = 2
  MaxTime = 3
SPECIFICATION FairSpec
CHECK_DEADLOCK FALSE
INVARIANTS
  TypeOK
  OnTime
  CancelIsFinal
  IdsIdentify
PROPERTIES
  DueIsHandedOver
