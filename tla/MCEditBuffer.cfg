CONSTANTS
  ProviderFields <- TwoFields
  ProviderFeatures <- OneWithTwo
  FieldNames = {"x"}
  Geometries = {"line"}
  Values = {"v"}
  Null = Null
  ChangeFeatures = {TRUE, FALSE}
  FeatureFields = {FALSE}
  FailingCalls <- FeatureCallsFail
  SessionKinds <- EditsOrRenames
  MaxEdits = 3
SPECIFICATION Spec
INVARIANTS TypeOK UndoFaithful RollBackAfterFailure 
PROPERTY CommitKeepsView
