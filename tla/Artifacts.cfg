SPECIFICATION Spec

CONSTANTS
  k1 = k1  k2 = k2  k3 = k3  old = old  scan1 = scan1  scan2 = scan2
  canonical = canonical  raw = raw  verify1 = verify1  verify2 = verify2
  Ids = {"a", "b", "c"}
  NoId = NoId
  Sources = {"s1", "s2"}
  Layouts = {"indented", "compact"}
  Offsets = {8}
  Paths <- MCPaths
  Pairs <- MCPairs
  Commands <- MCCommands
  Launches <- MCLaunches
  Stored <- MCStored

INVARIANTS
  KeygenIsWhole
  VerdictFollowsGraph

CHECK_DEADLOCK FALSE
