SPECIFICATION FairSpec
CONSTANTS
  Block = 2
  Depth = 4
  Blocks = 2
  Faults = {"error"}
  MaxSamples = 6
  MaxLength = 6
  MaxCommands = 2
INVARIANTS TypeOK ClosedFileIsWhole
PROPERTIES FinishReturns
CHECK_DEADLOCK FALSE
