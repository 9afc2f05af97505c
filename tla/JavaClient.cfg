CONSTANTS
  Clients = {c1, c2}
  NoObject = NoObject
  LogThreads <- ThreadsOfClients
  IdSpace = 4
  MaxInvokes = 2
SPECIFICATION FairSpec
CHECK_DEADLOCK FALSE
INVARIANT LoggerKept
INVARIANT OwnCallback
INVARIANT AnswersOwnCall
PROPERTY DestroyReturns
