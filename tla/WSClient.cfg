\* Three calls of Subscribe with overlapping batches, connections that come
\* and go at every step of a call.
SPECIFICATION FairSpec
CONSTANTS
  index = index
  call1 = call1
  put1 = put1
  put2 = put2
  Batches = {{index}, {call1, put1}, {call1, put2}}
  MaxCalls = 3
  MaxLate = 1
INVARIANTS
  TypeOK
  WantedIsAsked
PROPERTIES
  StreamsInTheEnd
CHECK_DEADLOCK FALSE
