\* A participant with Writers leaves.
SPECIFICATION Spec
CONSTANTS
  Worlds <- PubWorlds
  Nobody = "/nobody"
  BadNodes = {"/n*"}
  BadNames = {"t*"}
  ORPHAN_EXCLUDED_TOPICS = {"rosout", "parameter_events"}
  ORPHAN_GRACE_PERIOD = 1
  ForwardUnclaimed = TRUE
  Late = FALSE
  MaxLosses = 1
PROPERTIES
  WritersChangeTold
