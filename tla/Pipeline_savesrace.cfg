\* The save of the first symbols races with the save of their replacement;
\* neither fails, and no second passes.
SPECIFICATION Spec
CONSTANTS
  ATMOf <- MCATMOf
  SymbolsFor <- MCSymbolsFor
  Symbols <- MCSymbols
  Invalid <- MCInvalid
  Index <- MCIndex
  StrikeStep = 50
  CEOffset = 50
  PEOffset = 50
  Chain <- MCChain
  Prices = {110, 150, 190}
  RejectedExpiries = {0}
  MaxRejections = 0
  ExpiryCounts = {2}
  Weeks = {0}
  Confirms = {2}
  Extras = {1}
  MaxConfirm = 3
  FallbackExtra = 60
  Faults = {}
  UsingRedis = TRUE
  MaxSaves = 2
  MaxDays = 1
  Lateness = 0
  MaxTime = 0
  QuietAfter = 0
  MaxPending = 3
INVARIANTS
  RedisHoldsActive
CHECK_DEADLOCK FALSE
