SPECIFICATION Spec
CONSTANTS
  app = app  verifier = verifier
  Sources <- MCSources
  Values <- MCValues
  MaxTraceIDs = 2
  Observations <- MCObservations
  Policies <- MCPolicies
  Stored <- MCStored
  MaxObservations = 4
  MaxRestarts = 1
INVARIANTS
  TypeOK
  WithinCeilings
  SelectedIsStrongest
  NodeBacksItsField
  FunctionOfEvidence
  NoInventedStrength
  CanBeSigned
PROPERTIES
  EvidenceNeverShrinks
CHECK_DEADLOCK FALSE
