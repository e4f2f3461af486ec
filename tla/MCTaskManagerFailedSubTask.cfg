CONSTANTS
  a = a
  b = b
  c = c
  d = d
  layer = layer
  Tasks = {a, b}
  NoTask = NoTask
  Parent <- BUnderA
  ParentDepends = {}
  Dependencies <- NoDependencies
  Layers <- NoLayers
  PoolThreads = 2
  AddressReuse = FALSE
  UserCalls = {}
  MaxHolds = 0
SPECIFICATION FairSpec
CHECK_DEADLOCK FALSE
PROPERTY EveryTaskFinishes
