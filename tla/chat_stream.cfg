SPECIFICATION Spec
CONSTANTS
  Total = 5
  Capacity = 2
INVARIANTS
  TypeOK
  NothingIsLost
  DoneMeansComplete
PROPERTIES
  EveryChatEnds
  NoPumpIsLeft
CHECK_DEADLOCK FALSE
