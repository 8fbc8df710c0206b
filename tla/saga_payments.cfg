SPECIFICATION SagaSpec
CONSTANTS
  Clients = {}
  a1 = a1
  a2 = a2
  h1 = h1
  h2 = h2
  w1 = w1
  noCommand = noCommand
  NoCommand = noCommand
  Accounts <- MCAccounts
  CurrencyOf <- MCCurrencyOf
  Opened <- MCAccounts
  Opening <- MCOpening
  Commands <- CrossCommands
  Request <- CrossRequest
  Keys = {"k", "l"}
  Key <- CrossKey
  PartitionOf <- OnePartition
  MaxBalance = 6
  Handlers = {h1, h2}
  Workers = {w1}
  MaxAnswers = 2
  MaxFailures = 1
PROPERTIES
  ImplementsPayments
  MeetsAssumption
  EveryPaymentCloses
CHECK_DEADLOCK FALSE
