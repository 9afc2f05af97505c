CONSTANTS
  Conns = {c1}
  Users = {u1, u2}
  ClientOf <- OneClient
  WorkThreads = {w1, w2}
  WriteThreads = {r1}
  IoThreadNum = 1
  Services = {s1}
  Methods = {echo, perform}
  VoidMethods = {perform}
  Offered <- Offer
  Calls <- MixedCalls
  Args = {1}
  IdSpace = 4
  MaxCalls = 2
  Faults = TRUE
  NoKey = NoKey
  EmptyFunction = EmptyFunction
  c1 = c1
  s1 = s1
  echo = echo
  perform = perform
SPECIFICATION FairSpec
INVARIANT SubTypeOK
INVARIANT OwnResult
PROPERTY ImplementsRemoteCalls
PROPERTY GetReturns
