SPECIFICATION Spec
CONSTANTS
  k1 = k1  k2 = k2  k3 = k3  k4 = k4  k5 = k5  k6 = k6
  outer = outer  inner = inner  app = app
  NoKey = NoKey  NoAgent = NoAgent  Unknown = Unknown
  Keys <- MCKeys
  Agents <- MCAgents
  Sources <- MCSources
  Spans <- MCSpans
  RetainedContexts <- MCRetained
  MaxWork = 4
  MaxDedupeItems = 2
INVARIANTS
  RoundMatchesDefinition
CHECK_DEADLOCK FALSE
