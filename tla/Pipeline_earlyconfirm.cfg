\* A timer of an earlier countdown is still armed when the next one begins;
\* timers are prompt, and the extra time is shorter than the confirmation.
SPECIFICATION FairSpec
CONSTANTS
  ATMOf <- MCATMOf
  SymbolsFor <- MCSymbolsFor
  Symbols <- MCSymbols
  Invalid <- MCInvalid
  Index <- MCIndex
  StrikeStep = 50
  CEOffset = 50
  PEOffset = 50
  Chain <- MCChain
  Prices = {110, 150, 190}
  RejectedExpiries = {}
  MaxRejections = 0
  ExpiryCounts = {2}
  Weeks = {0}
  Confirms = {3}
  Extras = {2}
  MaxConfirm = 4
  FallbackExtra = 60
  Faults = {}
  UsingRedis = FALSE
  MaxSaves = 0
  MaxDays = 1
  Lateness = 0
  MaxTime = 6
  QuietAfter = 6
  MaxPending = 3
PROPERTIES
  SwitchesHaveExtraData
CHECK_DEADLOCK FALSE
