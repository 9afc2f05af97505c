CONSTANTS
  Conns = {c1}
  WorkThreads = {w1, w2}
  WriteThreads = {r1, r2}
  IoThreadNum = 1
  Services = {s1}
  Methods = {echo, perform}
  VoidMethods = {perform}
  Offered <- FullOffer
  Args = {1}
  IdSpace = 4
  NoKey = NoKey
  EmptyFunction = EmptyFunction
  Calls <- EchoCalls
  MaxRequests <- TwoEach
  Faults = FALSE
  c1 = c1
  s1 = s1
  s2 = s2
  echo = echo
  perform = perform
SYMMETRY Symmetry
SPECIFICATION Spec
INVARIANT SubmissionOrder
