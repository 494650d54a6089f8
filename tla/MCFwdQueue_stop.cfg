\* Readers with a read period, one of them VOLATILE, that outlive the Drop of the route.
SPECIFICATION FairSpec
CONSTANTS
  r1 = r1
  r2 = r2
  Readers = {r1, r2}
  VolatileReaders = {r2}
  Lens = {1}
  Limits = {1}
  FWD_QUEUE_MAX = 1
  FWD_QUEUE_BYTES = 2
  Periodic = TRUE
  MaxSamples = 1
PROPERTIES
  ForwarderEnds
  SamplesSettle
\* The route is dropped and its thread ends: the system really stops.
CHECK_DEADLOCK FALSE
