SPECIFICATION Spec
CONSTANTS
  agent = agent  server = server  copy = copy
  app = app  scanner = scanner  shell = shell  secret = secret
  NoAgent = NoAgent
  Sources <- MCSources
  Values = {1, 2, 3, 4}
  MaxTraceIDs = 20
  Components <- MCComponents
  Scanners = {scanner}
  Rules <- MCRules
  Facts <- MCFacts
  Documents <- MCDocuments
  Stored <- MCStored
  MaxSteps = 5
  Kinds <- MCKinds
  Policies <- MCPolicies
INVARIANTS
  GateSeesEveryReport
  OccurrencesAreCounted
  BindingIsOnRecord
  ExportIsWhole
PROPERTIES
  ImportKeepsComponents
  NoChangeSameVerdict
  OnlyStrengthIsCured
CHECK_DEADLOCK FALSE
