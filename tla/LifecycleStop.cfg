SPECIFICATION FairSpec
CONSTANTS
  first = first  second = second
  a = a  b = b
  Processes <- MCProcesses
  Requests <- TwoRequests
  Transports <- BothTransports
  Overlap = FALSE
  MaxFailures = 2
  Nobody = Nobody
INVARIANTS
  OrderlyStopAnswersAll
  HistoryContinues
PROPERTIES
  ProcessEnds
CHECK_DEADLOCK FALSE
