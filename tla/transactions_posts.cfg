SPECIFICATION Spec
CONSTANTS
  a1 = a1
  a2 = a2
  w1 = w1
  w2 = w2
  Accounts <- MCAccounts
  CurrencyOf <- MCCurrencyOf
  Commands <- RaceCommands
  Request <- RaceRequest
  Keys = {"k", "l"}
  Key <- RaceKey
  Workers = {w1, w2}
  MaxAnswers = 2
  MaxFailures = 2
INVARIANTS
  StatusIsFirstEvent
  OneEventPerAnswer
  TypeOK
  OneTransactionPerKey
  RepliesAgree
  AcceptedIsDurable
PROPERTIES
  EveryPostEnds
CHECK_DEADLOCK FALSE
