\* Two readers on a ring of two slots: every reader can be lapped twice and
\* meet an overwritten slot.  No symmetry, because of the liveness properties.
SPECIFICATION FairSpec
CONSTANTS
  r1 = r1
  r2 = r2
  Readers = {r1, r2}
  Size = 2
  Capacity <- MCCapacity
  MaxWrites = 6
INVARIANTS
  TypeOK
  SlotsHoldWindow
  CursorBehindTail
  NeverBehindCursor
  ExitOnlyAfterClose
PROPERTIES
  ImplementsFeed
  CloseEndsReaders
  ReadersCatchUp
CHECK_DEADLOCK FALSE
