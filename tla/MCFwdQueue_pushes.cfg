\* Two Readers whose callbacks push concurrently, the forwarder, the rebuilds and the Drop
\* of the route.
SPECIFICATION Spec
CONSTANTS
  r1 = r1
  r2 = r2
  Readers = {r1, r2}
  VolatileReaders = {}
  Lens = {1, 4}
  Limits = {1, 3}
  FWD_QUEUE_MAX = 3
  FWD_QUEUE_BYTES = 3
  Periodic = FALSE
  MaxSamples = 2
INVARIANTS
  TypeOK
  CountsExact
  InOrder
  NothingRetained
PROPERTIES
  QueueBounded
