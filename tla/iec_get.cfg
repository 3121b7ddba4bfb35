SPECIFICATION FairSpec
CONSTANTS
  Channels = {2}
  Block = 3
  Depth = 2
  UpDepth = 9
  OpenLengths = {2}
  Openings <- MCOpenings
  MaxOpens = 1
  MaxWrites = 4
  Interrupts = "any"
  ReadFails = {FALSE}
PROPERTIES
  ImplementsStream
