\* Two days of boots and cut-off downloads, reloads at every step of a call.
SPECIFICATION FairSpec
CONSTANTS
  Published <- MCPublished
  MaxDays = 2
  Versions <- MCVersions
  ATMs = {75}
  Offsets = {0, 1}
INVARIANTS
  TypeOK
  ServesOneDownload
  InForceWasWritten
  FindsNearest
  PairOfConfigsInForce
PROPERTIES
  EditsTakeEffect
  CallsEnd
CHECK_DEADLOCK FALSE
