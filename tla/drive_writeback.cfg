SPECIFICATION FairSpec
CONSTANTS
  LastTrack = 2
  Images = {"a", "b"}
  ReadOnly = {"b"}
  MaxWrites = 2
  Functions = {"mount", "mount_ro", "mount_ul", "remove", "unlink", "blank"}
  Faults = {}
INVARIANTS
  TypeOK
  NothingForgotten
  WritableHasFile
PROPERTIES
  Converges
