CONSTANTS
  ProviderFields <- TwoFields
  ProviderFeatures <- OneWithTwo
  FieldNames = {"x"}
  Geometries = {"line"}
  Values = {"v"}
  Null = Null
  ChangeFeatures = {FALSE}
  FeatureFields = {FALSE}
  FailingCalls <- DeleteAttributesFails
  SessionKinds <- EditsOnly
  MaxEdits = 3
SPECIFICATION Spec
PROPERTY CommitKeepsView
