CONSTANTS
  Layers = {l1, l2}
  Kinds = {"data", "addAttribute", "sql"}
  MaxEdits = 3
  MaxSql = 1
  MaxSavepoints = 2
  MaxFailures = 1
SPECIFICATION Spec
INVARIANTS
  SavepointsExist
  
  
CHECK_DEADLOCK FALSE
SYMMETRY LayerSymmetry
