\* Every small system, one loss, whatever is announced was there.
SPECIFICATION FairSpec
CONSTANTS
  Worlds <- MCWorlds
  Nobody = "/nobody"
  BadNodes = {"/n*"}
  BadNames = {"t*"}
  ORPHAN_EXCLUDED_TOPICS = {"rosout", "parameter_events"}
  ORPHAN_GRACE_PERIOD = 1
  ForwardUnclaimed = TRUE
  Late = FALSE
  MaxLosses = 1
INVARIANTS
  TypeOK
  EventsMatchNodes
  AdminSpaceExact
PROPERTIES
  ClaimsKept
  TransferKeepsRoute
  DiscoveryConverges
