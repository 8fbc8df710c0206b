SPECIFICATION SafeSpec
CONSTANTS
  a1 = a1
  a2 = a2
  a3 = a3
  client = client
  h1 = h1
  h2 = h2
  noCommand = noCommand
  NoCommand = noCommand
  Accounts <- MCAccounts
  CurrencyOf <- MCCurrencyOf
  Opened <- MCOpened
  Opening <- MCOpening
  Commands <- MixedCommands
  Request <- MixedRequest
  Clients = {client}
  Handlers = {h1, h2}
  MaxBalance = 6
  MaxFailures = 1
SYMMETRY HandlerSymmetry
INVARIANTS
  TypeOK
  AppliedIsFirst
  AnsweredIffProcessed
  JournalIsChain
  LedgerMatchesAnswers
  ReasonsHaveCause
PROPERTIES
  ImplementsBank
