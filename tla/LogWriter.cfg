SPECIFICATION FairSpec
CONSTANTS
  h1 = h1
  h2 = h2
  Handlers <- TwoHandlers
  logQueueSize = 2
  flushThreshold = 2
  MaxEntries = 5
INVARIANTS
  TypeOK
  EveryEntryAccounted
  WrittenInOrder
  BufferedIsTimed
  MemoryBounded
  CleanExitKeepsAll
PROPERTIES
  AcceptedIsSettled
  ShutdownEnds
\* The process ends after a shutdown.
CHECK_DEADLOCK FALSE
