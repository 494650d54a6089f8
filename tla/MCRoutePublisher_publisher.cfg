\* A remote bridge and a plain subscriber, local Writers that change twice, one failure.
SPECIFICATION Spec
CONSTANTS
  z1 = z1
  app = app
  MAX_TL_DEPTH = 7
  tl_cache_multiplier = 1
  Profiles <- MCProfiles
  Zids = {z1}
  Plain = {app}
  MaxChanges = 2
  MaxFailures = 1
INVARIANTS
  TypeOK
  ReadersOwned
  FollowsWriters
  NotListedButDead
