SPECIFICATION SafeSpec
CONSTANTS
  Rows <- MCRows
  Keys = {"k", "l"}
  KeyOf <- MCKeyOf
  Transactions <- MCTransactions
  SerialWriters = TRUE
  Workers = {"w1"}
  BatchSize = 2
  Down = {}
  MaxFailures = 2
INVARIANTS
  KeyOrderWithoutOutage
CHECK_DEADLOCK FALSE
