SPECIFICATION FairSpec
CONSTANTS
  Commands = {1}
  CmdEnd = 1
  RespEnd = 0
  StatEnd = 0
  ByteBase = 2
  Controls = {{"push"}, {"push", "freeze"}, {"accept"}, {"abort"}, {"push", "abort"}, {"accept", "abort"}}
  Rules = {}
  DataLens = {0}
  StatLens = {0}
  MaxMore = 1
  QueueDepth = 4
INVARIANTS
  TypeOK
  MaskedIffOwned
  QueueNeverFull
PROPERTIES
  FlagsServed
CHECK_DEADLOCK FALSE
