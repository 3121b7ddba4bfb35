SPECIFICATION Spec
CONSTANTS
  LastTrack = 2
  Images = {"a", "b"}
  ReadOnly = {"b"}
  MaxWrites = 1
  Functions = {"mount", "mount_ro", "mount_ul", "remove", "unlink", "blank", "swap", "reset", "ulticopy", "take_media"}
  Faults = {"write"}
INVARIANTS
  MarksKept
  NoCrossWrite
  OpenIsMounted
