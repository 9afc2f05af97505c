CONSTANTS
  LogThreads = {main}
  Digits <- TwoDigits
  PortSpace = 4
  IntSpace = 8
  Letters = {"S", "N", "T", "f", "g", "o", "u"}
  Numbers = {"0", "1", "8"}
  Services = {s1, s2}
  Addresses <- Texts
  BusyPorts = {2}
  Expressions <- References
  WorkThreads = {w1, w2}
  WriteThreads = {r1}
  MaxHandles = 2
SPECIFICATION Spec
CHECK_DEADLOCK FALSE
INVARIANT TypeOK
INVARIANT RoundTrip
INVARIANT KeyNamesMethod
INVARIANT ExecutorKept
INVARIANT ObjectOutlivesCall
PROPERTY ListensAtItsAddress
