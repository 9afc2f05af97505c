CONSTANTS
  Conns = {c1}
  Users = {u1}
  ClientOf <- OneClient
  WorkThreads = {w1}
  WriteThreads = {r1}
  IoThreadNum = 1
  Services = {s1}
  Methods = {echo, perform}
  VoidMethods = {perform}
  Offered <- Offer
  Calls <- EchoCalls
  Args = {1, 2}
  IdSpace = 2
  MaxCalls = 3
  Faults = FALSE
  NoKey = NoKey
  EmptyFunction = EmptyFunction
  c1 = c1
  s1 = s1
  echo = echo
  perform = perform
SPECIFICATION Spec
INVARIANT OwnResult
