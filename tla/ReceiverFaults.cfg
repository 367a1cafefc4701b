SPECIFICATION FairSpec
CONSTANTS
  k1 = k1  k2 = k2  k3 = k3  k4 = k4  k5 = k5  k6 = k6
  outer = outer  inner = inner
  app = app  verifier = verifier
  Keys <- MCKeys
  Agents <- MCAgents
  NoKey = NoKey  NoAgent = NoAgent  Unknown = Unknown
  Nobody = Nobody  Unbound = Unbound
  Spans <- FaultSpans
  Batches <- FaultBatches
  Sources <- MCSources
  Exporters = {e1, e2}
  Protected = {verifier}
  WriteBOM = TRUE
  MaxDedupeItems = 1
  MaxRequests = 3
  MaxRestarts = 2
INVARIANTS
  AcknowledgedIsDurable
  ProtectedIsVouched
PROPERTIES
  ImplementsLedger
  EveryRequestAnswered
CHECK_DEADLOCK FALSE
