CONSTANTS
  Conns = {c1, c2}
  WorkThreads = {w1, w2}
  WriteThreads = {r1, r2}
  IoThreadNum = 1
  Services = {s1}
  Methods = {echo, perform}
  VoidMethods = {perform}
  Offered <- EchoOffer
  Args = {1, 2}
  IdSpace = 4
  NoKey = NoKey
  EmptyFunction = EmptyFunction
  Calls <- MixedCalls
  MaxRequests <- TwoAndOne
  Faults = TRUE
  c1 = c1
  s1 = s1
  s2 = s2
  echo = echo
  perform = perform
SYMMETRY Symmetry
SPECIFICATION Spec
INVARIANT TypeOK
INVARIANT StreamFound
INVARIANT Correlated
INVARIANT ExactlyOnce
INVARIANT AnswersItsRequest
PROPERTY StreamsKept
CHECK_DEADLOCK FALSE
