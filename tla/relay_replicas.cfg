SPECIFICATION Spec
CONSTANTS
  Rows <- StuckRows
  Keys = {"k", "l"}
  KeyOf <- StuckKeyOf
  Transactions <- StuckTransactions
  SerialWriters = FALSE
  Workers = {"w1", "w2"}
  BatchSize = 2
  Down = {"l"}
  MaxFailures = 1
INVARIANTS
  TypeOK
  OnlyCommittedIsPublished
  MarkedIsPublished
PROPERTIES
  EveryRowSettles
CHECK_DEADLOCK FALSE
