\* The last remote publisher of a history leaves an active route.
SPECIFICATION Spec
CONSTANTS
  Nodes <- MCNodes
  MATCHED_READERS_KEY = "<matched_dds_readers>"
  Remotes <- MCRemotes
  Scenarios <- MCScenarios
INVARIANTS
  AnnouncedReceives
CHECK_DEADLOCK FALSE
