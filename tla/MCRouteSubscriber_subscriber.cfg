\* A local node or undeclared Readers, publishers that come and go, calls that fail.
SPECIFICATION Spec
CONSTANTS
  Nodes <- MCNodes
  MATCHED_READERS_KEY = "<matched_dds_readers>"
  Remotes <- MCRemotes
  Scenarios <- MCScenarios
INVARIANTS
  TypeOK
  RouteFollowsRemotes
  MatchedReadersServed
\* The changes are bounded: the system stops after the last one.
CHECK_DEADLOCK FALSE
