\* One bridge whose four Writers of different QoS come and go, or two bridges with a
\* Writer of each durability.
SPECIFICATION Spec
CONSTANTS
  b1 = b1
  b2 = b2
  Bridges = {b1, b2}
  WriterQoses <- FourWriters
  Systems <- MCSystems
  ReaderQoses <- AllReaders
  MAX_TL_DEPTH = 7
  tl_cache_multiplier = 2
  MaxBacklog = 1
INVARIANTS
  TypeOK
  EachWriterReadOnce
  RemoteIsAnnounced
  TransparentToReaders
  MarkedSamplesWritten
  HistoryHeld
PROPERTIES
  VolatileAnnouncedFirst
