SPECIFICATION SafeSpec
CONSTANTS
  Rows <- PairRows
  Keys = {"k", "l"}
  KeyOf <- PairKeyOf
  Transactions <- PairTransactions
  SerialWriters = TRUE
  Workers = {"w1", "w2"}
  BatchSize = 2
  Down = {}
  MaxFailures = 0
INVARIANTS
  BatchesDisjoint
CHECK_DEADLOCK FALSE
