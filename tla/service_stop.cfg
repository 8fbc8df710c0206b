SPECIFICATION Spec
CONSTANTS
  HttpRequests = {"r1", "r2"}
  MaxPings = 2
INVARIANTS
  TypeOK
  ClosedUnused
  CutNeedsTimeout
PROPERTIES
  EveryStopEnds
CHECK_DEADLOCK FALSE
