CONSTANTS
  Monsters <- RatAndImp
  Players <- OnlyAnn
  Nobody = "nobody"
  Cells <- ThreeCells
  View = 1
  Viewport = 2
  SummonRange = 3
  Home <- Homes
  HomeRange = 1
SPECIFICATION WorldSpec
INVARIANTS
  CreaturesSound
PROPERTIES
  QueueFair
  ItemsSound
  ModifiersSound
  ViewsSound
  MapSound
CHECK_DEADLOCK FALSE
