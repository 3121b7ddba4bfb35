SPECIFICATION FairSpec
CONSTANTS
  Chunk = 2
  SizeOf <- MCSizes
  EntriesOf <- MCEntries
  Lengths = {0, 2, 3, 5}
  MaxCommands = 4
  MaxObjects = 2
INVARIANT ReadErrorsReported
CHECK_DEADLOCK FALSE
