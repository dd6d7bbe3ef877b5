CONSTANTS
  Accounts = {g1, g2}
  Privileged = {}
  Delays = {5, 20}
  MaxPlayers = 1
  MaxTime = 60
  MaxSize = 5
  Word = 256
SPECIFICATION Spec
INVARIANT ExpiredAreDropped
CHECK_DEADLOCK FALSE
