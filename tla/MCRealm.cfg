CONSTANTS
  p1 = p1
  p2 = p2
  p3 = p3
  a1 = a1
  a2 = a2
  none = none
  nobody = nobody
  Players <- ThreePlayers
  Parties <- TwoParties
  NoParty = none
  NoPlayer = nobody
  Targets <- TwoCreatures
  Nobody = "nobody"
  MaxSteps = 2
  MaxQueue = 1
  Ids <- TwoIds
  Slots = 2
  Called <- FiveHooks
  Silent <- TwoHooks
  Products <- OneItem
  MaxRefused = 1
  MaxResults = 1
  Traders <- ThreeTraders
  Items <- ThreeItems
  Containers <- BagAndBox
  Stackables <- Coins
  Places <- ThreePlaces
  NoTrader <- noTrader
  NoItem <- nothing
  Nowhere <- nowhere
  EventNames <- TwoEvents
  EventTypes <- TwoTypes
  Thinkers <- TwoThinkers
  Daily <- OneDaily
  Interval <- Intervals
  First = 1
  MaxTime = 3
  MaxIds = 3
  Timers <- TwoTimers
SPECIFICATION RealmSpec
INVARIANTS
  TypeOK
  MembershipOK
  SharingFair
  
  ScriptsSound
  EventsSound
PROPERTIES
  JoinedByInvitation
  TradeSound
  HousesSound
  ChatSound
  WildSound
  CombatSound
CHECK_DEADLOCK FALSE
