SPECIFICATION FairSpec
CONSTANTS
  Commands = {1, 17}
  CmdEnd = 2
  RespEnd = 2
  StatEnd = 1
  ByteBase = 2
  Controls = {{"push"}, {"push", "freeze"}, {"accept"}, {"abort"}, {"clr_err"}}
  Rules = {"patient", "sized"}
  DataLens = {0, 2}
  StatLens = {0, 1}
  MaxMore = 2
  QueueDepth = 4
INVARIANTS
  BusyHasServer
  DataAnswersCommand
  WholeCommand
  EmptyUntilCopied
  FrozenOnlyWhenBusy
  MoreHasPart
PROPERTIES
  ImplementsProtocol
