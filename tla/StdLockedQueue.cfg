CONSTANTS
  Consumers = {c1, c2, c3}
  MaxItems = 3
SPECIFICATION FairSpec
INVARIANT TypeOK
INVARIANT NoLostWakeup
PROPERTY EveryItemTaken
PROPERTY ImplementsQueue
