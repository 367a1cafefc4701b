SPECIFICATION FairSpec
CONSTANTS
  calls = calls  owns = owns
  Relations <- MCRelations
  Graphs <- MCGraphs
  Rules <- MCRules
  MaxPathRelations = 8
INVARIANTS
  TypeOK
  OnlyDeniedPaths
  NoDeniedPathMissed
  FirstIsReported
PROPERTIES
  SearchEnds
CHECK_DEADLOCK FALSE
