SPECIFICATION Spec
CONSTANTS
  app = app  verifier = verifier
  Sources <- MCSources
  Values <- MCValues
  MaxTraceIDs = 2
  Observations <- SharedObservations
  Policies <- TrustPolicyChange
  Stored <- NothingStored
  MaxObservations = 3
  MaxRestarts = 1
INVARIANTS
  StrengthIsEarned
CHECK_DEADLOCK FALSE
