SPECIFICATION Spec
CONSTANTS
  Members = {m1, m2}
  MaxOffset = 3
  MaxRetries = 2
  Poison = {1}
  MaxErrors = 2
  MaxFaults = 3
INVARIANTS
  TypeOK
  CommittedIsSettled
  SettledInOrder
  OnlyPoisonIsGivenUp
PROPERTIES
  EveryMessageSettles
CHECK_DEADLOCK FALSE
