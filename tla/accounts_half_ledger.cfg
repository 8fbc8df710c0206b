SPECIFICATION SafeSpec
CONSTANTS
  a1 = a1
  a2 = a2
  a3 = a3
  client = client
  h1 = h1
  h2 = h2
  noCommand = noCommand
  NoCommand = noCommand
  Accounts <- MCAccounts
  CurrencyOf <- MCCurrencyOf
  Opened <- MCOpened
  Opening <- MCOpening
  Commands <- HalfCommands
  Request <- HalfRequest
  Clients = {}
  Handlers = {h1}
  MaxBalance = 6
  MaxFailures = 0
INVARIANTS
  LedgerMatchesAnswers
