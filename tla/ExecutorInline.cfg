CONSTANTS
  Conns = {c1, c2}
  WorkThreads = {}
  WriteThreads = {r1, r2}
  IoThreadNum = 2
  Services = {s1}
  Methods = {echo, perform}
  VoidMethods = {perform}
  Offered <- FullOffer
  Args = {1}
  IdSpace = 4
  NoKey = NoKey
  EmptyFunction = EmptyFunction
  Calls <- AllCalls
  MaxRequests <- TwoEach
  Faults = FALSE
  c1 = c1
  s1 = s1
  s2 = s2
  echo = echo
  perform = perform
SYMMETRY Symmetry
SPECIFICATION Spec
INVARIANT ExactlyOnce
INVARIANT SubmissionOrder
