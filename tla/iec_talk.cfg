SPECIFICATION FairSpec
CONSTANTS
  Channels = {2, 3}
  Block = 3
  Depth = 2
  UpDepth = 9
  OpenLengths = {3, 7}
  Openings <- MCOpenings
  MaxOpens = 2
  MaxWrites = 4
  Interrupts = "far"
  ReadFails = {FALSE, TRUE}
INVARIANTS
  TypeOK
  ClosedFileComplete
PROPERTIES
  ImplementsStream
  TalkEnds
