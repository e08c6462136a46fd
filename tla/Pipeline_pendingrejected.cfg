\* A candidate is rejected before it is confirmed.
SPECIFICATION Spec
CONSTANTS
  ATMOf <- MCATMOf
  SymbolsFor <- MCSymbolsFor
  Symbols <- MCSymbols
  Invalid <- MCInvalid
  Index <- MCIndex
  StrikeStep = 50
  CEOffset = 50
  PEOffset = 50
  Chain <- MCChain
  Prices = {110, 150, 190}
  RejectedExpiries = {0}
  MaxRejections = 0
  ExpiryCounts = {2}
  Weeks = {0}
  Confirms = {2}
  Extras = {1}
  MaxConfirm = 3
  FallbackExtra = 60
  Faults = {}
  UsingRedis = FALSE
  MaxSaves = 0
  MaxDays = 1
  Lateness = 0
  MaxTime = 6
  QuietAfter = 6
  MaxPending = 3
INVARIANTS
  RejectedIsReplaced
CHECK_DEADLOCK FALSE
