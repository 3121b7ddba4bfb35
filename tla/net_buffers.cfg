SPECIFICATION FairSpec
CONSTANTS
  Buffers = 3
  Size = 4
  QueueLen = 3
  Pbufs = 3
  Freers = 1
INVARIANTS
  TypeOK
  Conservation
  PbufsConserved
PROPERTIES
  ImplementsCycle
  NeverStarved
