CONSTANTS
  Layers = {l1, l2, l3}
  InitialLayers = {l1, l2}
  CommitOutcomes = {"done", "kept", "aborted"}
  Refusing = {l2}
  MaxEdits = 2
  MaxSessions = 2
  MaxFailures = 2
SPECIFICATION Spec
INVARIANTS
  TransactionWhereNeeded
  NothingLost
PROPERTIES
  StoredTogether
CHECK_DEADLOCK FALSE
