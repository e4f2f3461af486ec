CONSTANTS
  a = a
  b = b
  c = c
  d = d
  layer = layer
  Tasks = {a, b}
  NoTask = NoTask
  Parent <- BUnderA
  ParentDepends = {b}
  Dependencies <- NoDependencies
  Layers <- LayerOfA
  PoolThreads = 2
  AddressReuse = TRUE
  UserCalls = {"cancel", "cancelAll", "removeLayer", "destroy", "hold"}
  MaxHolds = 2
SPECIFICATION Spec
CHECK_DEADLOCK FALSE
INVARIANTS TypeOK LayerTasksCancelled DependentsCancelled
