CONSTANTS
  a = a
  b = b
  c = c
  d = d
  layer = layer
  Tasks = {a, b, c}
  NoTask = NoTask
  Parent <- BUnderA
  ParentDepends = {}
  Dependencies <- CAfterA
  Layers <- NoLayers
  PoolThreads = 2
  AddressReuse = FALSE
  UserCalls = {"cancel"}
  MaxHolds = 0
SPECIFICATION Spec
CHECK_DEADLOCK FALSE
INVARIANTS RunsAfterDependencies  FinishedTruly
