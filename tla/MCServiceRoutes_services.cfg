\* Three activations, four changes and one failure in turn; a call that another bridge
\* routes, too; two bridges and two servers.
SPECIFICATION FairSpec
CONSTANTS
  Gids <- MCGids
  RosCalls = {"c1"}
  OtherCalls = {"o1", "o2"}
  IdOf <- MCIdOf
  NoId <- MCNoId
  Scenarios <- MCScenarios
INVARIANTS
  TypeOK
  RouteSettles
PROPERTIES
  CallsKept
  QueryKept
CHECK_DEADLOCK FALSE
