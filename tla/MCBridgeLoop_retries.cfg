\* Local nodes and a remote topic with failures and retries; subscribers are denied.
SPECIFICATION FairSpec
CONSTANTS
  z1 = z1
  z2 = z2
  q1 = q1
  q2 = q2
  noQos = noQos
  n1 = n1
  n2 = n2
  matchedKey = matchedKey
  Segments <- MCSegments
  Namespace <- RootNamespace
  Names <- RootNames
  KeyExprs <- RootNames
  Nodes = {n1, n2}
  MATCHED_READERS_KEY = matchedKey
  Zids = {z1}
  Qoses = {q1, q2}
  NoQos = noQos
  MaxFailures = 2
  LocalIfaces <- LocalTopicAndService
  Tokens <- RemoteTopics
  MatchedNames <- None
  Allowed <- AllButSubscribers
  ClientZids = {}
  MAX_EVENT_RETRIES = 2
  MaxBacklog = 2
  MaxLosses = 0
INVARIANTS
  OneRetryPerKey
  RoutesJustified
PROPERTIES
  EventuallyRouted
