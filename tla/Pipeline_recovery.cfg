\* Saves fail, the process dies on either of two days and restarts with or
\* without an instrument file; the exchange rejects the nearest expiry, and
\* expiry_week may be reloaded to a week past the end of the list.
SPECIFICATION Spec
CONSTANTS
  ATMOf <- MCATMOf
  SymbolsFor <- MCSymbolsFor
  Symbols <- MCSymbols
  Invalid <- MCInvalid
  Index <- MCIndex
  StrikeStep = 50
  CEOffset = 50
  PEOffset = 50
  Chain <- MCChain
  Prices = {110, 190}
  RejectedExpiries = {0}
  MaxRejections = 0
  ExpiryCounts = {0, 2}
  Weeks = {0, 2}
  Confirms = {1}
  Extras = {1}
  MaxConfirm = 1
  FallbackExtra = 60
  Faults = {"savefail", "crash", "midnight"}
  UsingRedis = TRUE
  MaxSaves = 2
  MaxDays = 2
  Lateness = 0
  MaxTime = 1
  QuietAfter = 1
  MaxPending = 2
INVARIANTS
  TypeOK
  NeverRestoresYesterday
CHECK_DEADLOCK FALSE
