SPECIFICATION Spec
CONSTANTS
  Transactions = {"t"}
  Events <- MCEvents
  TxOf <- MCTxOf
  PartitionOf <- MCPartitionOf
  Replicas = {"r1", "r2"}
  MaxFailures = 2
INVARIANTS
  TypeOK
  AtMostOneCall
PROPERTIES
  EveryResultReachesView
  ExplainedWithoutFaults
