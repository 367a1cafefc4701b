SPECIFICATION Spec
CONSTANTS
  k1 = k1  k2 = k2  k3 = k3  k4 = k4  k5 = k5  k6 = k6
  outer = outer  inner = inner
  app = app  verifier = verifier
  Keys <- MCKeys
  Agents <- MCAgents
  NoKey = NoKey  NoAgent = NoAgent  Unknown = Unknown
  Nobody = Nobody  Unbound = Unbound
  Spans <- TraceSpans
  Batches <- TraceBatches
  Sources <- OneSource
  Exporters = {e1}
  Protected = {}
  WriteBOM = FALSE
  MaxDedupeItems = 3
  MaxRequests = 5
  MaxRestarts = 1
INVARIANTS
  TypeOK
  ExactWithoutPressure
  CountedOnce
  MemoryBounded
  RememberedIsHeld
  NoStrandedChild
  NeverMisattributed
PROPERTIES
  Conservation
CHECK_DEADLOCK FALSE
