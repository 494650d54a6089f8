\* A bridge with a namespace: a local subscriber, undeclared readers, the publishers of two
\* remote bridges, the second one in client mode, one of which may be lost.
SPECIFICATION Spec
CONSTANTS
  z1 = z1
  z2 = z2
  q1 = q1
  q2 = q2
  noQos = noQos
  n1 = n1
  n2 = n2
  matchedKey = matchedKey
  Segments <- MCSegments
  Namespace <- BotNamespace
  Names <- BotNames
  KeyExprs <- BotKeyExprs
  Nodes = {n1, n2}
  MATCHED_READERS_KEY = matchedKey
  Zids = {z1, z2}
  Qoses = {q1, q2}
  NoQos = noQos
  MaxFailures = 1
  LocalIfaces <- LocalSubscriber
  Tokens <- BotPublishers
  MatchedNames <- TopicA
  Allowed <- AllAllowed
  ClientZids = {z2}
  MAX_EVENT_RETRIES = 2
  MaxBacklog = 2
  MaxLosses = 1
INVARIANTS
  TypeOK
  UsersJustified
  TokenWhileServed
  RemoteFollowsTransport
  AdminSpaceExact
PROPERTIES
  DropsOnlyLastUser
