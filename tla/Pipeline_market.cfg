\* A market that moves over three strikes and then goes quiet; timers and
\* goroutines may be late by up to a second.  No faults, no Redis.
SPECIFICATION FairSpec
CONSTANTS
  ATMOf <- MCATMOf
  SymbolsFor <- MCSymbolsFor
  Symbols <- MCSymbols
  Invalid <- MCInvalid
  Index <- MCIndex
  StrikeStep = 50
  CEOffset = 50
  PEOffset = 50
  Chain <- MCChain
  Prices = {110, 150, 190}
  RejectedExpiries = {}
  MaxRejections = 0
  ExpiryCounts = {2}
  Weeks = {0}
  Confirms = {2}
  Extras = {1}
  MaxConfirm = 3
  FallbackExtra = 60
  Faults = {}
  UsingRedis = FALSE
  MaxSaves = 0
  MaxDays = 1
  Lateness = 1
  MaxTime = 12
  QuietAfter = 4
  MaxPending = 3
INVARIANTS
  CountdownIsArmed
  LatestPendingIsLive
  StableMeansOnMarket
  CountdownWithinBounds
  CountdownEndsInTime
PROPERTIES
  Settles
CHECK_DEADLOCK FALSE
