SPECIFICATION Spec
CONSTANTS
  first = first  second = second
  a = a  b = b
  Processes <- MCProcesses
  Requests <- TwoRequests
  Transports <- HTTPOnly
  Overlap = TRUE
  MaxFailures = 0
  Nobody = Nobody
INVARIANTS
  HistoryContinues
CHECK_DEADLOCK FALSE
