SPECIFICATION FairSpec
CONSTANTS
  Chunk = 2
  SizeOf <- MCSizes
  EntriesOf <- MCEntries
  Lengths = {0, 2, 3, 5}
  MaxCommands = 5
  MaxObjects = 2
INVARIANTS TypeOK  NoStrayTransfer LostByReopening
PROPERTY RepliesEnd
CHECK_DEADLOCK FALSE
