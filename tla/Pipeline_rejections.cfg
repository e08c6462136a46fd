\* The exchange rejects the nearest expiry, the connection drops, and some
\* ticks come without a price, which makes the strike 0 a candidate.
SPECIFICATION Spec
CONSTANTS
  ATMOf <- MCATMOf
  SymbolsFor <- MCSymbolsFor
  Symbols <- MCSymbols
  Invalid <- MCInvalid
  Index <- MCIndex
  StrikeStep = 50
  CEOffset = 50
  PEOffset = 50
  Chain <- MCChain
  Prices = {0, 110, 190}
  RejectedExpiries = {0}
  MaxRejections = 1
  ExpiryCounts = {2}
  Weeks = {0}
  Confirms = {1}
  Extras = {1}
  MaxConfirm = 2
  FallbackExtra = 60
  Faults = {"disconnect"}
  UsingRedis = FALSE
  MaxSaves = 0
  MaxDays = 1
  Lateness = 0
  MaxTime = 2
  QuietAfter = 2
  MaxPending = 2
INVARIANTS
  ActivePairMatches
  FeedCoversInterest
CHECK_DEADLOCK FALSE
