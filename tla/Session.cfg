\* A session of five ticks on a ring of two slots: laps at any point of it.
SPECIFICATION FairSessionSpec
CONSTANTS
  logger = logger
  ticks = ticks
  Readers = {logger, ticks}
  TickStore = ticks
  Logger = logger
  Capacity = 2
  MaxWrites = 5
  SymbolOf <- MCSymbolOf
INVARIANTS
  SessionTypeOK
  LogIsWhole
  FileIsDrained
  StoreEndsOnLast
PROPERTIES
  ShutdownEnds
CHECK_DEADLOCK FALSE
